-------------------------- MODULE SubtitleFlowProofs --------------------------
(***************************************************************************)
(* What SubtitleFlow promises of the words, cues and texts of one Job, for *)
(* every parameter of the rules and of the chunk plan, every text and      *)
(* every number of words, edits and retries.                               *)
(***************************************************************************)
EXTENDS SubtitleFlow, TLAPS, WellFoundedInduction

-----------------------------------------------------------------------------
(* Functions that are defined by recursion.  T[<<d, F>>] is the value at d of *)
(* the function whose values at the arguments below d are those of F.      *)

LEMMA LeastOf ==
    ASSUME NEW K \in SUBSET Nat, K # {}
    PROVE  \E k \in K : \A j \in K : k <= j
<1> DEFINE R == OpToRel(<, Nat)
<1>1. IsWellFoundedOn(R, Nat)
  BY NatLessThanWellFounded
<1>2. \A x, y \in Nat : x < y => <<x, y>> \in R
  BY DEF OpToRel
<1> HIDE DEF R
<1>3. PICK k \in K : \A j \in K : <<j, k>> \notin R
  BY <1>1, WFMin
<1>4. \A j \in K : ~(j < k)
  BY <1>2, <1>3
<1> QED BY <1>4

Recursion(D, S, m, n, T) ==
    /\ S # {} /\ m \in [D -> Nat] /\ n \in Nat /\ \A d \in D : m[d] <= n
    /\ T \in [D \X [D -> S] -> S]
    /\ \A d \in D, F, G \in [D -> S] :
          (\A e \in D : m[e] < m[d] => F[e] = G[e]) => T[<<d, F>>] = T[<<d, G>>]

LEMMA Solution ==
    ASSUME NEW D, NEW S, NEW m, NEW n, NEW T, Recursion(D, S, m, n, T)
    PROVE  \E F \in [D -> S] : \A d \in D : F[d] = T[<<d, F>>]
<1> USE DEF Recursion
<1> DEFINE Upto(k, F) == \A d \in D : m[d] < k => F[d] = T[<<d, F>>]
           bad == {k \in Nat : ~ \E F \in [D -> S] : Upto(k, F)}
<1>1. \E F \in [D -> S] : Upto(0, F)
  <2>1. PICK s \in S : TRUE
    OBVIOUS
  <2> WITNESS [d \in D |-> s] \in [D -> S]
  <2> QED OBVIOUS
<1>2. ASSUME NEW k \in Nat, NEW F \in [D -> S], Upto(k, F)
      PROVE  \E G \in [D -> S] : Upto(k + 1, G)
  <2> DEFINE G == [d \in D |-> T[<<d, F>>]]
  <2>1. G \in [D -> S]
    OBVIOUS
  <2>2. ASSUME NEW d \in D, m[d] < k + 1
        PROVE  G[d] = T[<<d, G>>]
    <3>1. \A e \in D : m[e] < m[d] => F[e] = G[e]
      BY <1>2, <2>2
    <3> QED BY <2>1, <3>1
  <2> QED BY <2>1, <2>2
<1>3. bad = {}
  <2>1. SUFFICES ASSUME bad # {} PROVE FALSE
    OBVIOUS
  <2>2. PICK k \in bad : \A j \in bad : k <= j
    BY <2>1, LeastOf
  <2> HIDE DEF Upto
  <2>3. k # 0
    BY <1>1
  <2>4. k - 1 \in Nat /\ k - 1 \notin bad
    BY <2>2, <2>3
  <2>5. PICK F \in [D -> S] : Upto(k - 1, F)
    BY <2>4
  <2>6. \E G \in [D -> S] : Upto(k, G)
    BY <1>2, <2>4, <2>5
  <2> QED BY <2>2, <2>6
<1>4. PICK F \in [D -> S] : Upto(n + 1, F)
  <2>1. n + 1 \in Nat
    OBVIOUS
  <2> HIDE DEF Upto
  <2> QED BY <1>3, <2>1
<1>5. \A d \in D : m[d] < n + 1
  OBVIOUS
<1> QED BY <1>4, <1>5

\* What holds of an argument when it holds of those below holds of all.
LEMMA FromBelow ==
    ASSUME NEW D, NEW m \in [D -> Nat], NEW Good,
           \A d \in D : (\A e \in D : m[e] < m[d] => e \in Good) => d \in Good
    PROVE  D \subseteq Good
<1> DEFINE K == {m[d] : d \in D \ Good}
<1>1. SUFFICES ASSUME K # {} PROVE FALSE
  OBVIOUS
<1>2. K \in SUBSET Nat /\ \A d \in D \ Good : m[d] \in K /\ m[d] \in Nat
  OBVIOUS
<1>3. \A k \in K : \E d \in D \ Good : m[d] = k
  OBVIOUS
<1> HIDE DEF K
<1>4. PICK k \in K : \A j \in K : k <= j
  BY <1>1, <1>2, LeastOf
<1>5. PICK d \in D \ Good : m[d] = k
  BY <1>3
<1>6. \A e \in D : m[e] < m[d] => e \in Good
  BY <1>2, <1>4, <1>5
<1> QED BY <1>5, <1>6

-----------------------------------------------------------------------------
(* What is selected from a sequence. *)

\* What holds of the empty sequence, and of a longer one when of the shorter.
LEMMA FromShorter ==
    ASSUME NEW X, NEW Good, <<>> \in Good,
           \A s \in Seq(X), x \in X : s \in Good => Append(s, x) \in Good
    PROVE  Seq(X) \subseteq Good
<1> DEFINE m == [s \in Seq(X) |-> Len(s)]
<1>1. m \in [Seq(X) -> Nat]
  OBVIOUS
<1>2. ASSUME NEW s \in Seq(X), \A t \in Seq(X) : m[t] < m[s] => t \in Good
      PROVE  s \in Good
  <2>1. CASE s = <<>>
    BY <2>1
  <2>2. CASE s # <<>>
    <3> DEFINE t == [i \in 1 .. Len(s) - 1 |-> s[i]]
    <3>1. Len(s) \in Nat /\ Len(s) > 0 /\ s[Len(s)] \in X
      BY <2>2
    <3>2. t \in Seq(X) /\ Len(t) = Len(s) - 1
      BY <3>1
    <3>3. Append(t, s[Len(s)]) = s
      BY <3>1, <3>2
    <3>4. t \in Good
      BY <1>2, <3>1, <3>2
    <3> HIDE DEF t
    <3> QED BY <3>1, <3>2, <3>3, <3>4
  <2> QED BY <2>1, <2>2
<1>3. \A s \in Seq(X) : (\A t \in Seq(X) : m[t] < m[s] => t \in Good) => s \in Good
  BY <1>2
<1> DEFINE D == Seq(X)
<1> HIDE DEF m, D
<1>4. D \subseteq Good
  <2>1. m \in [D -> Nat] /\ \A s \in D : (\A t \in D : m[t] < m[s] => t \in Good) => s \in Good
    BY <1>1, <1>3 DEF D
  <2> QED BY <2>1, FromBelow
<1> QED BY <1>4 DEF D

\* F[i] is what is selected of the first i elements.
Selects(F, X, s, V) ==
    /\ F \in [0 .. Len(s) -> Seq(X)] /\ F[0] = <<>>
    /\ \A i \in 1 .. Len(s) :
          F[i] = IF s[i] \in V THEN Append(F[i - 1], s[i]) ELSE F[i - 1]
    /\ Those(s, V) = F[Len(s)]

LEMMA ThoseUpto ==
    ASSUME NEW X, NEW s \in Seq(X), NEW V
    PROVE  \E F : Selects(F, X, s, V)
<1> DEFINE D == 0 .. Len(s)
           m == [i \in D |-> i]
           Next1(i, F) == IF i = 0 THEN <<>>
                          ELSE IF s[i] \in V THEN Append(F[i - 1], s[i]) ELSE F[i - 1]
           T == [p \in D \X [D -> Seq(X)] |-> Next1(p[1], p[2])]
<1>1. Len(s) \in Nat /\ m \in [D -> Nat] /\ (\A i \in D : m[i] = i /\ m[i] <= Len(s))
  OBVIOUS
<1>2. Seq(X) # {}
  <2>1. <<>> \in Seq(X)
    OBVIOUS
  <2> QED BY <2>1
<1>3. \A i \in D, F \in [D -> Seq(X)] : Next1(i, F) \in Seq(X)
  <2> TAKE i \in D, F \in [D -> Seq(X)]
  <2>1. CASE i = 0
    BY <2>1
  <2>2. CASE i # 0
    <3>1. i - 1 \in D /\ s[i] \in X
      BY <2>2
    <3> QED BY <2>2, <3>1
  <2> QED BY <2>1, <2>2
<1>4. T \in [D \X [D -> Seq(X)] -> Seq(X)]
  <2> HIDE DEF Next1
  <2>1. \A p \in D \X [D -> Seq(X)] : p[1] \in D /\ p[2] \in [D -> Seq(X)]
    OBVIOUS
  <2> QED BY <1>3, <2>1
<1>5. \A i \in D, F \in [D -> Seq(X)] : T[<<i, F>>] = Next1(i, F)
  <2> HIDE DEF Next1
  <2> QED OBVIOUS
<1>6. \A i \in D, F, G \in [D -> Seq(X)] :
         (\A e \in D : m[e] < m[i] => F[e] = G[e]) => T[<<i, F>>] = T[<<i, G>>]
  <2> HIDE DEF T
  <2>1. ASSUME NEW i \in D, NEW F \in [D -> Seq(X)], NEW G \in [D -> Seq(X)],
               \A e \in D : m[e] < m[i] => F[e] = G[e]
        PROVE  Next1(i, F) = Next1(i, G)
    <3>1. i # 0 => i - 1 \in D /\ m[i - 1] < m[i]
      OBVIOUS
    <3> QED BY <2>1, <3>1
  <2> QED BY <1>5, <2>1
<1> HIDE DEF T
<1>7. PICK F \in [D -> Seq(X)] : \A i \in D : F[i] = T[<<i, F>>]
  <2> DEFINE S == Seq(X)
             n == Len(s)
  <2>1. Recursion(D, S, m, n, T)
    <3> HIDE DEF D, m
    <3> QED BY <1>1, <1>2, <1>4, <1>6 DEF Recursion
  <2> HIDE DEF D, m, S, n
  <2>2. \E F \in [D -> S] : \A i \in D : F[i] = T[<<i, F>>]
    BY <2>1, Solution
  <2> QED BY <2>2 DEF S
<1>8. F = [i \in D |-> Next1(i, F)]
  BY <1>5, <1>7
<1> DEFINE Upto[i \in 0 .. Len(s)] ==
              IF i = 0 THEN <<>>
              ELSE IF s[i] \in V THEN Append(Upto[i - 1], s[i]) ELSE Upto[i - 1]
<1>9. Upto = [i \in D |-> Next1(i, Upto)]
  BY <1>8
<1>10. Those(s, V) = Upto[Len(s)]
  BY DEF Those
<1> HIDE DEF Upto
<1>11. \A i \in D : F[i] = Upto[i]
  <2> DEFINE Good == {i \in D : F[i] = Upto[i]}
  <2>1. ASSUME NEW i \in D, \A e \in D : m[e] < m[i] => e \in Good
        PROVE  i \in Good
    <3>1. F[i] = Next1(i, F) /\ Upto[i] = Next1(i, Upto)
      <4> HIDE DEF Next1, D
      <4> QED BY <1>8, <1>9
    <3>2. i # 0 => i - 1 \in D /\ m[i - 1] < m[i]
      OBVIOUS
    <3>3. i # 0 => F[i - 1] = Upto[i - 1]
      BY <2>1, <3>2
    <3>4. CASE i = 0
      BY <3>1, <3>4
    <3>5. CASE i # 0
      <4> DEFINE next(f) == IF s[i] \in V THEN Append(f, s[i]) ELSE f
      <4>1. F[i] = next(F[i - 1]) /\ Upto[i] = next(Upto[i - 1])
        BY <3>1, <3>5
      <4> HIDE DEF next
      <4>2. next(F[i - 1]) = next(Upto[i - 1])
        BY <3>3, <3>5
      <4> QED BY <4>1, <4>2
    <3> QED BY <3>4, <3>5
  <2>2. \A i \in D : (\A e \in D : m[e] < m[i] => e \in Good) => i \in Good
    BY <2>1
  <2>3. m \in [D -> Nat]
    BY <1>1
  <2> HIDE DEF Good, D, m
  <2>4. D \subseteq Good
    BY <2>2, <2>3, FromBelow
  <2> QED BY <2>4 DEF Good
<1>12. F[0] = <<>> /\ \A i \in 1 .. Len(s) :
                         F[i] = IF s[i] \in V THEN Append(F[i - 1], s[i]) ELSE F[i - 1]
  <2>1. \A i \in D : F[i] = Next1(i, F)
    <3> HIDE DEF Next1, D
    <3> QED BY <1>8
  <2>2. 0 \in D /\ \A i \in 1 .. Len(s) : i \in D /\ i # 0
    BY <1>1
  <2> HIDE DEF D
  <2> QED BY <2>1, <2>2
<1>13. Len(s) \in D
  BY <1>1
<1>14. Those(s, V) = F[Len(s)]
  BY <1>10, <1>11, <1>13
<1>15. Selects(F, X, s, V)
  BY <1>7, <1>12, <1>14 DEF Selects
<1> QED
  BY <1>15

LEMMA ThoseAppend ==
    ASSUME NEW X, NEW s \in Seq(X), NEW x \in X, NEW V
    PROVE  /\ Those(s, V) \in Seq(X)
           /\ Those(Append(s, x), V) = IF x \in V THEN Append(Those(s, V), x) ELSE Those(s, V)
<1> DEFINE t == Append(s, x)
<1>1. /\ t \in Seq(X) /\ Len(t) = Len(s) + 1 /\ Len(s) \in Nat /\ t[Len(s) + 1] = x
      /\ \A i \in 1 .. Len(s) : t[i] = s[i]
  OBVIOUS
<1>2. PICK F : Selects(F, X, s, V)
  BY ThoseUpto
<1> HIDE DEF t
<1>3. PICK G : Selects(G, X, t, V)
  BY <1>1, ThoseUpto
<1> USE DEF Selects
<1>4. F[Len(s)] = G[Len(s)]
  <2> DEFINE D == 0 .. Len(s)
             m == [i \in D |-> i]
             Good == {i \in D : F[i] = G[i]}
  <2>1. m \in [D -> Nat] /\ \A i \in D : m[i] = i
    BY <1>1
  <2>2. ASSUME NEW d \in D, \A e \in D : m[e] < m[d] => e \in Good
        PROVE  d \in Good
    <3>1. CASE d = 0
      BY <1>1, <1>2, <1>3, <3>1
    <3>2. CASE d # 0
      <4>1. d - 1 \in D /\ m[d - 1] < m[d] /\ d \in 1 .. Len(s) /\ d \in 1 .. Len(t)
        BY <1>1, <3>2
      <4>2. F[d - 1] = G[d - 1]
        BY <2>2, <4>1
      <4> QED BY <1>1, <1>2, <1>3, <4>1, <4>2
    <3> QED BY <3>1, <3>2
  <2>3. \A d \in D : (\A e \in D : m[e] < m[d] => e \in Good) => d \in Good
    BY <2>2
  <2> HIDE DEF m, Good, D
  <2>4. D \subseteq Good
    BY <2>1, <2>3, FromBelow
  <2> QED BY <1>1, <2>4 DEF D, Good
<1>5. Len(t) \in 1 .. Len(t) /\ Len(t) - 1 = Len(s)
  BY <1>1
<1>6. Those(t, V) = IF x \in V THEN Append(G[Len(s)], x) ELSE G[Len(s)]
  BY <1>1, <1>3, <1>5
<1>7. Len(s) \in 0 .. Len(s)
  BY <1>1
<1> QED BY <1>2, <1>4, <1>6, <1>7 DEF t

LEMMA ThoseOfNone ==
    ASSUME NEW V
    PROVE  Those(<<>>, V) = <<>>
<1> DEFINE none == <<>>
<1>1. none \in Seq({}) /\ Len(none) = 0
  OBVIOUS
<1> HIDE DEF none
<1>2. PICK F : Selects(F, {}, none, V)
  BY <1>1, ThoseUpto
<1> QED BY <1>1, <1>2 DEF Selects, none

LEMMA ThoseSeq ==
    ASSUME NEW X, NEW s \in Seq(X), NEW V
    PROVE  Those(s, V) \in Seq(X)
<1>1. PICK F : Selects(F, X, s, V)
  BY ThoseUpto
<1>2. Len(s) \in 0 .. Len(s)
  OBVIOUS
<1> QED BY <1>1, <1>2 DEF Selects

\* All of them, when all are in the set.
LEMMA ThoseAll ==
    ASSUME NEW X, NEW s \in Seq(X), NEW V, X \subseteq V
    PROVE  Those(s, V) = s
<1> DEFINE Good == {t \in Seq(X) : Those(t, V) = t}
<1>1. <<>> \in Good
  BY ThoseOfNone
<1>2. ASSUME NEW t \in Seq(X), NEW x \in X, t \in Good
      PROVE  Append(t, x) \in Good
  <2>1. Append(t, x) \in Seq(X)
    OBVIOUS
  <2> QED BY <1>2, <2>1, ThoseAppend
<1>3. Seq(X) \subseteq Good
  <2> HIDE DEF Good
  <2>1. \A t \in Seq(X), x \in X : t \in Good => Append(t, x) \in Good
    BY <1>2
  <2> QED BY <1>1, <2>1, FromShorter
<1> QED BY <1>3

\* Only what is in the sequence counts.
LEMMA ThoseSame ==
    ASSUME NEW X, NEW s \in Seq(X), NEW V, NEW W, V \intersect X = W \intersect X
    PROVE  Those(s, V) = Those(s, W)
<1> DEFINE Good == {t \in Seq(X) : Those(t, V) = Those(t, W)}
<1>1. <<>> \in Good
  BY ThoseOfNone
<1>2. ASSUME NEW t \in Seq(X), NEW x \in X, t \in Good
      PROVE  Append(t, x) \in Good
  <2>1. Append(t, x) \in Seq(X) /\ (x \in V <=> x \in W) /\ Those(t, V) = Those(t, W)
    BY <1>2
  <2>2. Those(Append(t, x), V) = IF x \in V THEN Append(Those(t, V), x) ELSE Those(t, V)
    BY ThoseAppend
  <2>3. Those(Append(t, x), W) = IF x \in W THEN Append(Those(t, W), x) ELSE Those(t, W)
    BY ThoseAppend
  <2> QED BY <2>1, <2>2, <2>3
<1>3. Seq(X) \subseteq Good
  <2> HIDE DEF Good
  <2>1. \A t \in Seq(X), x \in X : t \in Good => Append(t, x) \in Good
    BY <1>2
  <2> QED BY <1>1, <2>1, FromShorter
<1> QED BY <1>3

\* A selection of a selection.
LEMMA ThoseTwice ==
    ASSUME NEW X, NEW s \in Seq(X), NEW V, NEW W
    PROVE  Those(Those(s, V), W) = Those(s, V \intersect W)
<1> DEFINE U == V \intersect W
           Good == {t \in Seq(X) : Those(Those(t, V), W) = Those(t, U)}
<1>1. <<>> \in Good
  BY ThoseOfNone
<1>2. ASSUME NEW t \in Seq(X), NEW x \in X, t \in Good
      PROVE  Append(t, x) \in Good
  <2>1. Those(t, V) \in Seq(X) /\ Append(t, x) \in Seq(X)
    BY ThoseSeq
  <2>2. Those(Append(Those(t, V), x), W) =
           IF x \in W THEN Append(Those(Those(t, V), W), x) ELSE Those(Those(t, V), W)
    BY <2>1, ThoseAppend
  <2>3. Those(Append(t, x), V) = IF x \in V THEN Append(Those(t, V), x) ELSE Those(t, V)
    BY ThoseAppend
  <2>4. x \in U <=> x \in V /\ x \in W
    OBVIOUS
  <2> HIDE DEF U
  <2>5. Those(Append(t, x), U) = IF x \in U THEN Append(Those(t, U), x) ELSE Those(t, U)
    BY ThoseAppend
  <2>6. Those(Those(t, V), W) = Those(t, U)
    BY <1>2
  <2>7. Those(Those(Append(t, x), V), W) = Those(Append(t, x), U)
    BY <2>2, <2>3, <2>4, <2>5, <2>6
  <2> QED BY <2>1, <2>7
<1>3. Seq(X) \subseteq Good
  <2> HIDE DEF Good
  <2>1. \A t \in Seq(X), x \in X : t \in Good => Append(t, x) \in Good
    BY <1>2
  <2> QED BY <1>1, <2>1, FromShorter
<1> QED BY <1>3

-----------------------------------------------------------------------------
(* The ranges the rules make of the words. *)

RangeList == Seq(Nat \X Nat)

\* Ranges of 1 to max words, one after the other, from start to end.
Covers(ranges, start, end, max) ==
    /\ ranges \in RangeList /\ ranges # <<>>
    /\ ranges[1][1] = start /\ ranges[Len(ranges)][2] = end
    /\ \A i \in DOMAIN ranges : /\ ranges[i][1] < ranges[i][2]
                                /\ ranges[i][2] - ranges[i][1] <= max
    /\ \A i \in 1 .. Len(ranges) - 1 : ranges[i][2] = ranges[i + 1][1]

LEMMA OneCovers ==
    ASSUME NEW a \in Nat, NEW b \in Nat, NEW max \in Nat, a < b, b - a <= max
    PROVE  Covers(<<<<a, b>>>>, a, b, max)
<1> DEFINE R == <<<<a, b>>>>
<1>1. R \in RangeList /\ Len(R) = 1 /\ R[1] = <<a, b>> /\ DOMAIN R = 1 .. 1 /\ R # <<>>
  BY DEF RangeList
<1> HIDE DEF R
<1>2. R[1][1] = a /\ R[1][2] = b
  BY <1>1
<1>3. \A i \in DOMAIN R : i = 1
  BY <1>1
<1>4. 1 .. Len(R) - 1 = {}
  BY <1>1
<1>5. Covers(R, a, b, max)
  BY <1>1, <1>2, <1>3, <1>4 DEF Covers
<1> QED BY <1>5 DEF R

LEMMA JoinedCover ==
    ASSUME NEW P, NEW Q, NEW a, NEW b, NEW c, NEW max,
           Covers(P, a, b, max), Covers(Q, b, c, max)
    PROVE  Covers(P \o Q, a, c, max)
<1> DEFINE R == P \o Q
           n == Len(P)
<1>1. /\ P \in RangeList /\ Q \in RangeList /\ n \in Nat /\ Len(Q) \in Nat
      /\ n > 0 /\ Len(Q) > 0
      /\ DOMAIN P = 1 .. n /\ DOMAIN Q = 1 .. Len(Q)
  <2>1. P \in RangeList /\ Q \in RangeList /\ P # <<>> /\ Q # <<>>
    BY DEF Covers
  <2>2. \A L \in RangeList : /\ Len(L) \in Nat /\ DOMAIN L = 1 .. Len(L)
                             /\ L # <<>> => Len(L) > 0
    BY DEF RangeList
  <2> QED BY <2>1, <2>2
<1>2. /\ R \in RangeList /\ Len(R) = n + Len(Q) /\ DOMAIN R = 1 .. n + Len(Q)
      /\ \A i \in 1 .. n : R[i] = P[i]
      /\ \A i \in n + 1 .. n + Len(Q) : R[i] = Q[i - n]
  <2>1. R \in RangeList
    BY <1>1 DEF RangeList
  <2>2. Len(R) = n + Len(Q)
    BY <1>1 DEF RangeList
  <2>3. \A i \in 1 .. n : R[i] = P[i]
    BY <1>1 DEF RangeList
  <2>4. \A i \in n + 1 .. n + Len(Q) : R[i] = Q[i - n]
    BY <1>1 DEF RangeList
  <2>5. DOMAIN R = 1 .. Len(R)
    BY <2>1 DEF RangeList
  <2> QED BY <2>1, <2>2, <2>3, <2>4, <2>5
<1> HIDE DEF R, n
<1>3. R # <<>>
  BY <1>1, <1>2
<1>4. R[1][1] = a
  BY <1>1, <1>2 DEF Covers
<1>5. R[Len(R)][2] = c
  <2>1. Len(R) \in n + 1 .. n + Len(Q) /\ Len(R) - n = Len(Q)
    BY <1>1, <1>2
  <2>2. R[Len(R)] = Q[Len(Q)]
    BY <1>2, <2>1
  <2> QED BY <2>2 DEF Covers
<1>6. ASSUME NEW i \in DOMAIN R
      PROVE  R[i][1] < R[i][2] /\ R[i][2] - R[i][1] <= max
  <2>1. CASE i \in 1 .. n
    BY <1>1, <1>2, <2>1 DEF Covers
  <2>2. CASE i \notin 1 .. n
    <3>1. i - n \in DOMAIN Q /\ R[i] = Q[i - n]
      BY <1>1, <1>2, <2>2
    <3> QED BY <3>1 DEF Covers
  <2> QED BY <2>1, <2>2
<1>7. ASSUME NEW i \in 1 .. Len(R) - 1
      PROVE  R[i][2] = R[i + 1][1]
  <2>1. i \in Nat /\ i \in DOMAIN R /\ i + 1 \in DOMAIN R
    BY <1>1, <1>2
  <2>2. CASE i < n
    <3>1. i \in 1 .. n - 1 /\ R[i] = P[i] /\ R[i + 1] = P[i + 1]
      BY <1>1, <1>2, <2>1, <2>2
    <3>2. P[i][2] = P[i + 1][1]
      BY <3>1 DEF Covers, n
    <3> QED BY <3>1, <3>2
  <2>3. CASE i = n
    <3>1. R[i] = P[n] /\ R[i + 1] = Q[1]
      BY <1>1, <1>2, <2>1, <2>3
    <3>2. P[n][2] = b /\ Q[1][1] = b
      BY DEF Covers, n
    <3> QED BY <3>1, <3>2
  <2>4. CASE i > n
    <3>1. i - n \in 1 .. Len(Q) - 1 /\ R[i] = Q[i - n] /\ R[i + 1] = Q[(i - n) + 1]
      BY <1>1, <1>2, <2>1, <2>4
    <3>2. Q[i - n][2] = Q[(i - n) + 1][1]
      BY <3>1 DEF Covers
    <3> QED BY <3>1, <3>2
  <2> QED BY <1>1, <2>1, <2>2, <2>3, <2>4
<1>8. Covers(R, a, c, max)
  BY <1>2, <1>3, <1>4, <1>5, <1>6, <1>7 DEF Covers
<1> QED BY <1>8 DEF R

LEMMA MaxWordsType ==
    ASSUME NEW words
    PROVE  MaxWords(words) \in Nat \ {0}
BY RuleAssumption DEF MaxWords

\* split_oversized cuts inside the group, wherever the soft breaks are.
LEMMA CutIsInside ==
    ASSUME NEW words, NEW s \in Nat, NEW e \in Nat, e - s >= 2
    PROVE  OversizedCut(words, s, e) \in s + 1 .. e - 1
<1>1. \A x \in Int, low, high \in Int : low <= high => Between(x, low, high) \in low .. high
  BY DEF Between
<1> DEFINE low == Between(s + (2 * (e - s)) \div 5, s + 1, e - 1)
           high == Between(s + (3 * (e - s)) \div 5, low, e - 1)
           soft == IF NearestSoft(words, low, high) # {} THEN NearestSoft(words, low, high)
                   ELSE NearestSoft(words, s + 1, e - 1)
           forced == Between(s + (3 * (e - s)) \div 5, s + 1, e - 1)
           cut == IF soft = {} THEN forced ELSE CHOOSE i \in soft : TRUE
<1>2. s + (2 * (e - s)) \div 5 \in Int /\ s + (3 * (e - s)) \div 5 \in Int
  OBVIOUS
<1>3. low \in s + 1 .. e - 1 /\ forced \in s + 1 .. e - 1
  BY <1>1, <1>2
<1>4. high \in Int
  <2> HIDE DEF low
  <2> QED BY <1>2, <1>3 DEF Between
<1>5. \A l, h \in Int : NearestSoft(words, l, h) \subseteq Int
  BY DEF NearestSoft
<1> HIDE DEF low, high, forced
<1>6. soft \subseteq Int
  BY <1>3, <1>4, <1>5
<1> HIDE DEF soft
<1>7. cut \in Int
  <2>1. soft # {} => (CHOOSE i \in soft : TRUE) \in soft
    OBVIOUS
  <2>2. forced \in Int
    BY <1>3
  <2> QED BY <1>6, <2>1, <2>2
<1> DEFINE at == IF words[cut + 1].text \in SoftBreaks THEN cut ELSE cut + 1
<1>8. OversizedCut(words, s, e) = Between(at, s + 1, e - 1)
  BY DEF OversizedCut, low, high, soft, forced
<1> HIDE DEF cut
<1>9. at \in Int
  BY <1>7
<1> HIDE DEF at
<1> QED BY <1>1, <1>8, <1>9

LEMMA ListsAreSeqs == RangeList # {} /\ <<>> \in RangeList
<1>1. <<>> \in RangeList
  BY DEF RangeList
<1> HIDE DEF RangeList
<1> QED BY <1>1

\* split_oversized: parts of a group are cut until none is too long.
LEMMA PartsCover ==
    ASSUME NEW W, NEW words \in Seq(W), NEW a \in Nat, NEW b \in Nat,
           a < b, b <= Len(words)
    PROVE  Covers(SplitOversized(words, <<a, b>>), a, b, MaxWords(words))
<1> DEFINE N == Len(words)
           D == (0 .. N) \X (0 .. N)
           M == MaxWords(words)
           cutOf(r) == OversizedCut(words, r[1], r[2])
           m == [r \in D |-> IF r[2] > r[1] THEN r[2] - r[1] ELSE 0]
           Body(r, F) == IF r[2] - r[1] <= M THEN <<r>>
                         ELSE F[<<r[1], cutOf(r)>>] \o F[<<cutOf(r), r[2]>>]
           T == [p \in D \X [D -> RangeList] |-> Body(p[1], p[2])]
<1>1. N \in Nat /\ M \in Nat \ {0}
  BY MaxWordsType
<1> HIDE DEF N, M
<1>2. ASSUME NEW r \in D
      PROVE  /\ r[1] \in 0 .. N /\ r[2] \in 0 .. N /\ r = <<r[1], r[2]>>
             /\ m[r] \in Nat /\ m[r] <= N
             /\ m[r] = IF r[2] > r[1] THEN r[2] - r[1] ELSE 0
  BY <1>1
<1>3. m \in [D -> Nat]
  BY <1>1, <1>2
<1>4. ASSUME NEW r \in D, ~(r[2] - r[1] <= M)
      PROVE  /\ cutOf(r) \in r[1] + 1 .. r[2] - 1
             /\ <<r[1], cutOf(r)>> \in D /\ <<cutOf(r), r[2]>> \in D
             /\ m[<<r[1], cutOf(r)>>] < m[r] /\ m[<<cutOf(r), r[2]>>] < m[r]
  <2>1. r[1] \in Nat /\ r[2] \in Nat /\ r[2] - r[1] >= 2
    BY <1>1, <1>2, <1>4
  <2>2. cutOf(r) \in r[1] + 1 .. r[2] - 1
    BY <2>1, CutIsInside
  <2> HIDE DEF cutOf
  <2>3. <<r[1], cutOf(r)>> \in D /\ <<cutOf(r), r[2]>> \in D
    BY <1>1, <1>2, <2>2
  <2>4. /\ m[<<r[1], cutOf(r)>>] = cutOf(r) - r[1]
        /\ m[<<cutOf(r), r[2]>>] = r[2] - cutOf(r)
        /\ m[r] = r[2] - r[1]
    BY <1>2, <2>1, <2>2, <2>3
  <2> HIDE DEF m
  <2> QED BY <1>2, <2>1, <2>2, <2>3, <2>4
<1> HIDE DEF cutOf, m
<1>5. \A r \in D, F \in [D -> RangeList] : Body(r, F) \in RangeList
  <2> TAKE r \in D, F \in [D -> RangeList]
  <2>1. CASE r[2] - r[1] <= M
    <3>1. r \in Nat \X Nat
      BY <1>1, <1>2
    <3> QED BY <2>1, <3>1 DEF RangeList
  <2>2. CASE ~(r[2] - r[1] <= M)
    <3>1. F[<<r[1], cutOf(r)>>] \in RangeList /\ F[<<cutOf(r), r[2]>>] \in RangeList
      <4> HIDE DEF D
      <4> QED BY <1>4, <2>2
    <3> QED BY <2>2, <3>1 DEF RangeList
  <2> QED BY <2>1, <2>2
<1>6. \A r \in D, F, G \in [D -> RangeList] :
         (\A e \in D : m[e] < m[r] => F[e] = G[e]) => Body(r, F) = Body(r, G)
  <2> HIDE DEF D
  <2> TAKE r \in D, F \in [D -> RangeList], G \in [D -> RangeList]
  <2> HAVE \A e \in D : m[e] < m[r] => F[e] = G[e]
  <2>1. CASE r[2] - r[1] <= M
    BY <2>1
  <2>2. CASE ~(r[2] - r[1] <= M)
    <3>1. /\ F[<<r[1], cutOf(r)>>] = G[<<r[1], cutOf(r)>>]
          /\ F[<<cutOf(r), r[2]>>] = G[<<cutOf(r), r[2]>>]
      BY <1>4, <2>2
    <3> QED BY <2>2, <3>1
  <2> QED BY <2>1, <2>2
<1> HIDE DEF Body
<1>7. \A r \in D, F \in [D -> RangeList] : T[<<r, F>>] = Body(r, F)
  <2> HIDE DEF D
  <2> QED OBVIOUS
<1>8. T \in [D \X [D -> RangeList] -> RangeList]
  <2> HIDE DEF D
  <2>1. \A p \in D \X [D -> RangeList] : p[1] \in D /\ p[2] \in [D -> RangeList]
    OBVIOUS
  <2> QED BY <1>5, <2>1
<1> HIDE DEF T
<1>9. \E F \in [D -> RangeList] : \A r \in D : F[r] = Body(r, F)
  <2> HIDE DEF D
  <2>1. \A r \in D, F, G \in [D -> RangeList] :
           (\A e \in D : m[e] < m[r] => F[e] = G[e]) => T[<<r, F>>] = T[<<r, G>>]
    BY <1>6, <1>7
  <2>2. Recursion(D, RangeList, m, N, T)
    BY <1>1, <1>2, <1>3, <1>8, <2>1, ListsAreSeqs DEF Recursion
  <2>3. PICK F \in [D -> RangeList] : \A r \in D : F[r] = T[<<r, F>>]
    BY <2>2, Solution
  <2> QED BY <1>7, <2>3
<1> DEFINE Parts[r \in (0 .. Len(words)) \X (0 .. Len(words))] ==
              IF r[2] - r[1] <= MaxWords(words) THEN <<r>>
              ELSE LET cut == OversizedCut(words, r[1], r[2])
                   IN  Parts[<<r[1], cut>>] \o Parts[<<cut, r[2]>>]
<1>10. Parts = [r \in D |-> Body(r, Parts)]
  <2>1. PICK F \in [D -> RangeList] : \A r \in D : F[r] = Body(r, F)
    BY <1>9
  <2>2. F = [r \in D |-> Body(r, F)]
    <3> HIDE DEF D
    <3> QED BY <2>1
  <2> QED BY <2>2 DEF Body, N, M, cutOf
<1>11. SplitOversized(words, <<a, b>>) = Parts[<<a, b>>]
  BY DEF SplitOversized
<1> HIDE DEF Parts
<1> DEFINE Good == {r \in D : r[1] < r[2] => Covers(Parts[r], r[1], r[2], M)}
<1>12. ASSUME NEW r \in D, \A e \in D : m[e] < m[r] => e \in Good, r[1] < r[2]
       PROVE  Covers(Parts[r], r[1], r[2], M)
  <2>1. Parts[r] = Body(r, Parts)
    <3> HIDE DEF D
    <3> QED BY <1>10
  <2>2. CASE r[2] - r[1] <= M
    <3>1. Parts[r] = <<<<r[1], r[2]>>>>
      BY <1>2, <2>1, <2>2 DEF Body
    <3>2. r[1] \in Nat /\ r[2] \in Nat /\ M \in Nat
      BY <1>1, <1>2
    <3>3. Covers(<<<<r[1], r[2]>>>>, r[1], r[2], M)
      BY <1>12, <2>2, <3>2, OneCovers
    <3> QED BY <3>1, <3>3
  <2>3. CASE ~(r[2] - r[1] <= M)
    <3> DEFINE p == <<r[1], cutOf(r)>>
               q == <<cutOf(r), r[2]>>
    <3>1. p \in Good /\ q \in Good /\ cutOf(r) \in r[1] + 1 .. r[2] - 1
      <4> HIDE DEF Good, D
      <4> QED BY <1>4, <1>12, <2>3
    <3>2. p[1] = r[1] /\ p[2] = cutOf(r) /\ q[1] = cutOf(r) /\ q[2] = r[2]
      OBVIOUS
    <3>3. Parts[r] = Parts[p] \o Parts[q]
      BY <2>1, <2>3 DEF Body
    <3> HIDE DEF p, q
    <3>4. p[1] < p[2] /\ q[1] < q[2]
      BY <1>2, <3>1, <3>2
    <3>5. Covers(Parts[p], r[1], cutOf(r), M) /\ Covers(Parts[q], cutOf(r), r[2], M)
      BY <3>1, <3>2, <3>4
    <3>6. Covers(Parts[p] \o Parts[q], r[1], r[2], M)
      BY <3>5, JoinedCover
    <3> QED BY <3>3, <3>6
  <2> QED BY <2>2, <2>3
<1>13. D \subseteq Good
  <2>1. \A r \in D : (\A e \in D : m[e] < m[r] => e \in Good) => r \in Good
    BY <1>12
  <2> HIDE DEF D, Good
  <2> QED BY <1>3, <2>1, FromBelow
<1>14. <<a, b>> \in D
  BY <1>1 DEF N
<1> DEFINE ab == <<a, b>>
<1>15. ab \in D /\ ab[1] = a /\ ab[2] = b
  BY <1>14
<1> HIDE DEF ab, D
<1>16. Covers(Parts[ab], a, b, M)
  BY <1>13, <1>15
<1> QED BY <1>11, <1>16 DEF ab, M

\* The groups of words up to the places the rules cut at, and their parts.
LEMMA GroupsCover ==
    ASSUME NEW W, NEW words \in Seq(W)
    PROVE  /\ words = <<>> => Groups(words) = <<>>
           /\ words # <<>> => Covers(Groups(words), 0, Len(words), MaxWords(words))
<1> DEFINE N == Len(words)
           D == 0 .. N
           M == MaxWords(words)
           Least(i, k) == i \in k + 1 .. N /\ CutAfter(words, i)
                          /\ \A j \in k + 1 .. i - 1 : ~CutAfter(words, j)
           endOf(k) == CHOOSE i \in k + 1 .. N : /\ CutAfter(words, i)
                                                 /\ \A j \in k + 1 .. i - 1 : ~CutAfter(words, j)
           m == [k \in D |-> N - k]
           Body(k, F) == IF k = N THEN <<>>
                         ELSE SplitOversized(words, <<k, endOf(k)>>) \o F[endOf(k)]
           T == [p \in D \X [D -> RangeList] |-> Body(p[1], p[2])]
<1>1. N \in Nat /\ M \in Nat \ {0}
  BY MaxWordsType
<1>2. m \in [D -> Nat] /\ \A k \in D : m[k] = N - k /\ m[k] <= N
  BY <1>1
<1>3. ASSUME NEW k \in D, k # N
      PROVE  endOf(k) \in k + 1 .. N
  <2> DEFINE cuts == {i \in k + 1 .. N : CutAfter(words, i)}
  <2>1. N \in cuts /\ cuts \in SUBSET Nat
    BY <1>1, <1>3 DEF CutAfter
  <2>2. \A i \in cuts : i \in k + 1 .. N /\ CutAfter(words, i)
    OBVIOUS
  <2>3. \A i \in k + 1 .. N : CutAfter(words, i) => i \in cuts
    OBVIOUS
  <2> HIDE DEF cuts
  <2>4. PICK i \in cuts : \A j \in cuts : i <= j
    BY <2>1, LeastOf
  <2>5. i \in k + 1 .. N /\ CutAfter(words, i) /\ i \in Nat /\ k \in Nat
    BY <1>1, <2>1, <2>2
  <2>6. \A j \in k + 1 .. i - 1 : ~CutAfter(words, j)
    <3> SUFFICES ASSUME NEW j \in k + 1 .. i - 1, CutAfter(words, j)
                 PROVE  FALSE
      OBVIOUS
    <3>1. j \in k + 1 .. N /\ j < i /\ j \in Nat
      BY <1>1, <2>5
    <3>2. j \in cuts
      BY <2>3, <3>1
    <3> QED BY <2>4, <2>5, <3>1, <3>2
  <2> QED BY <2>5, <2>6
<1> HIDE DEF endOf
<1>4. ASSUME NEW k \in D, k # N
      PROVE  /\ endOf(k) \in D /\ m[endOf(k)] < m[k]
             /\ Covers(SplitOversized(words, <<k, endOf(k)>>), k, endOf(k), M)
  <2>1. endOf(k) \in k + 1 .. N /\ k \in Nat
    BY <1>1, <1>3, <1>4
  <2>2. endOf(k) \in D /\ m[endOf(k)] < m[k]
    BY <1>1, <1>2, <2>1
  <2>3. endOf(k) \in Nat /\ k < endOf(k) /\ endOf(k) <= Len(words)
    BY <1>1, <2>1
  <2> DEFINE end == endOf(k)
  <2> HIDE DEF end, M, m
  <2>4. end \in Nat /\ k < end /\ end <= Len(words)
    BY <2>3 DEF end
  <2>5. Covers(SplitOversized(words, <<k, end>>), k, end, MaxWords(words))
    BY <2>1, <2>4, PartsCover
  <2> QED BY <2>2, <2>5 DEF end, M
<1> HIDE DEF m, M
<1>5. \A k \in D, F \in [D -> RangeList] : Body(k, F) \in RangeList
  <2> HIDE DEF D, N
  <2> TAKE k \in D, F \in [D -> RangeList]
  <2>1. CASE k = N
    BY <2>1, ListsAreSeqs
  <2>2. CASE k # N
    <3>1. SplitOversized(words, <<k, endOf(k)>>) \in RangeList /\ F[endOf(k)] \in RangeList
      BY <1>4, <2>2 DEF Covers
    <3> QED BY <2>2, <3>1 DEF RangeList
  <2> QED BY <2>1, <2>2
<1>6. \A k \in D, F, G \in [D -> RangeList] :
         (\A e \in D : m[e] < m[k] => F[e] = G[e]) => Body(k, F) = Body(k, G)
  <2> HIDE DEF D, N
  <2> TAKE k \in D, F \in [D -> RangeList], G \in [D -> RangeList]
  <2> HAVE \A e \in D : m[e] < m[k] => F[e] = G[e]
  <2>1. k # N => F[endOf(k)] = G[endOf(k)]
    BY <1>4
  <2> QED BY <2>1
<1> HIDE DEF Body
<1>7. \A k \in D, F \in [D -> RangeList] : T[<<k, F>>] = Body(k, F)
  <2> HIDE DEF D
  <2> QED OBVIOUS
<1>8. T \in [D \X [D -> RangeList] -> RangeList]
  <2> HIDE DEF D
  <2>1. \A p \in D \X [D -> RangeList] : p[1] \in D /\ p[2] \in [D -> RangeList]
    OBVIOUS
  <2> QED BY <1>5, <2>1
<1> HIDE DEF T
<1>9. \E F \in [D -> RangeList] : \A k \in D : F[k] = Body(k, F)
  <2> HIDE DEF D, N
  <2>1. \A k \in D, F, G \in [D -> RangeList] :
           (\A e \in D : m[e] < m[k] => F[e] = G[e]) => T[<<k, F>>] = T[<<k, G>>]
    BY <1>6, <1>7
  <2>2. Recursion(D, RangeList, m, N, T)
    BY <1>1, <1>2, <1>8, <2>1, ListsAreSeqs DEF Recursion
  <2>3. PICK F \in [D -> RangeList] : \A k \in D : F[k] = T[<<k, F>>]
    BY <2>2, Solution
  <2> QED BY <1>7, <2>3
<1> DEFINE From[start \in 0 .. Len(words)] ==
              IF start = Len(words) THEN <<>>
              ELSE LET end == CHOOSE i \in start + 1 .. Len(words) :
                                 /\ CutAfter(words, i)
                                 /\ \A j \in start + 1 .. i - 1 : ~CutAfter(words, j)
                   IN  SplitOversized(words, <<start, end>>) \o From[end]
<1>10. From = [k \in D |-> Body(k, From)]
  <2>1. PICK F \in [D -> RangeList] : \A k \in D : F[k] = Body(k, F)
    BY <1>9
  <2>2. F = [k \in D |-> Body(k, F)]
    <3> HIDE DEF D
    <3> QED BY <2>1
  <2> QED BY <2>2 DEF Body, endOf
<1>11. Groups(words) = From[0]
  BY DEF Groups
<1> HIDE DEF From
<1> DEFINE Good == {k \in D : IF k = N THEN From[k] = <<>> ELSE Covers(From[k], k, N, M)}
<1>12. ASSUME NEW k \in D, \A e \in D : m[e] < m[k] => e \in Good
       PROVE  k \in Good
  <2>1. From[k] = Body(k, From)
    <3> HIDE DEF D
    <3> QED BY <1>10
  <2>2. CASE k = N
    BY <2>1, <2>2 DEF Body
  <2>3. CASE k # N
    <3> DEFINE end == endOf(k)
               first == SplitOversized(words, <<k, end>>)
    <3>1. end \in Good /\ Covers(first, k, end, M)
      <4> HIDE DEF Good, D
      <4> QED BY <1>4, <1>12, <2>3
    <3>2. From[k] = first \o From[end]
      BY <2>1, <2>3 DEF Body
    <3> HIDE DEF first, end
    <3>3. CASE end = N
      <4>1. From[end] = <<>> /\ first \in RangeList
        BY <3>1, <3>3 DEF Covers
      <4>2. first \o <<>> = first
        BY <4>1 DEF RangeList
      <4>3. From[k] = first
        BY <3>2, <4>1, <4>2
      <4> QED BY <2>3, <3>1, <3>3, <4>3
    <3>4. CASE end # N
      <4>1. Covers(From[end], end, N, M)
        BY <3>1, <3>4
      <4>2. Covers(From[k], k, N, M)
        BY <3>1, <3>2, <4>1, JoinedCover
      <4> QED BY <2>3, <4>2
    <3> QED BY <3>3, <3>4
  <2> QED BY <2>2, <2>3
<1>13. D \subseteq Good
  <2>1. \A k \in D : (\A e \in D : m[e] < m[k] => e \in Good) => k \in Good
    BY <1>12
  <2> HIDE DEF D, Good
  <2> QED BY <1>2, <2>1, FromBelow
<1>14. 0 \in Good
  BY <1>1, <1>13
<1>15. N = 0 <=> words = <<>>
  OBVIOUS
<1> HIDE DEF D, N
<1>16. IF N = 0 THEN Groups(words) = <<>> ELSE Covers(Groups(words), 0, N, M)
  BY <1>11, <1>14
<1> QED BY <1>15, <1>16 DEF N, M

\* The last range of a cover may end later.
LEMMA LongerLast ==
    ASSUME NEW Q, NEW a, NEW b \in Nat, NEW c \in Nat, NEW max, Covers(Q, a, b, max),
           b < c, c - Q[Len(Q)][1] <= max
    PROVE  Covers([Q EXCEPT ![Len(Q)] = <<Q[Len(Q)][1], c>>], a, c, max)
<1> DEFINE n == Len(Q)
           q == <<Q[n][1], c>>
           P == [Q EXCEPT ![n] = q]
<1>1. Q \in Seq(Nat \X Nat) /\ n \in Nat /\ n >= 1 /\ DOMAIN Q = 1 .. n /\ n \in DOMAIN Q
  BY DEF Covers, RangeList
<1>2. /\ Q[1][1] = a /\ Q[n][2] = b
      /\ \A i \in DOMAIN Q : Q[i][1] < Q[i][2] /\ Q[i][2] - Q[i][1] <= max
      /\ \A i \in 1 .. n - 1 : Q[i][2] = Q[i + 1][1]
  BY DEF Covers
<1>3. \A i \in DOMAIN Q : Q[i] \in Nat \X Nat /\ Q[i][1] \in Nat /\ Q[i][2] \in Nat
  BY <1>1
<1>4. q \in Nat \X Nat /\ q[1] = Q[n][1] /\ q[2] = c
  BY <1>1, <1>3
<1> HIDE DEF q, n
<1>5. /\ P \in Seq(Nat \X Nat) /\ DOMAIN P = 1 .. n
      /\ P[n] = q /\ \A i \in 1 .. n : i # n => P[i] = Q[i]
  BY <1>1, <1>4
<1>6. Len(P) = n
  BY <1>1, <1>5
<1> HIDE DEF P
<1>7. P # <<>>
  BY <1>1, <1>6
<1>8. P[1][1] = a
  <2>1. \A i \in 1 .. n : P[i][1] = Q[i][1]
    BY <1>4, <1>5
  <2>2. 1 \in 1 .. n
    BY <1>1
  <2> QED BY <1>2, <2>1, <2>2
<1>9. P[Len(P)][2] = c
  BY <1>4, <1>5, <1>6
<1>10. \A i \in 1 .. n : P[i][1] = Q[i][1]
  BY <1>4, <1>5
<1>11. \A i \in DOMAIN P : P[i][1] < P[i][2] /\ P[i][2] - P[i][1] <= max
  <2> TAKE i \in DOMAIN P
  <2>1. CASE i = n
    <3>1. Q[n][1] < c
      BY <1>1, <1>2, <1>3
    <3> QED BY <1>4, <1>5, <2>1, <3>1 DEF n
  <2>2. CASE i # n
    BY <1>1, <1>2, <1>5, <2>2
  <2> QED BY <2>1, <2>2
<1>12. \A i \in 1 .. Len(P) - 1 : P[i][2] = P[i + 1][1]
  <2> TAKE i \in 1 .. Len(P) - 1
  <2>1. i \in 1 .. n - 1 /\ i # n /\ i \in 1 .. n /\ i + 1 \in 1 .. n
    BY <1>1, <1>6
  <2> QED BY <1>2, <1>5, <1>10, <2>1
<1>13. Covers(P, a, c, max)
  BY <1>5, <1>7, <1>8, <1>9, <1>11, <1>12 DEF Covers, RangeList
<1> QED BY <1>13 DEF P, q, n

LEMMA AppendIsJoin ==
    ASSUME NEW X, NEW s \in Seq(X), NEW x \in X
    PROVE  Append(s, x) = s \o <<x>>
<1>1. Len(s) \in Nat /\ Len(<<x>>) = 1 /\ <<x>>[1] = x
  OBVIOUS
<1> QED BY <1>1

\* merge_short_ranges: what is joined is not more than two cues may have.
LEMMA MergedCover ==
    ASSUME NEW words, NEW R, NEW N, Covers(R, 0, N, MaxWords(words))
    PROVE  Covers(MergeShort(words, R), 0, N, 2 * MaxWords(words))
<1> DEFINE M == MaxWords(words)
           L == Len(R)
           D == 1 .. L
           S == {Q \in RangeList : Q # <<>>}
           m == [k \in D |-> k]
           Joins(Q, k) == CanMerge(words, Q[Len(Q)], R[k])
           Next1(Q, k) ==
              IF Joins(Q, k) THEN [Q EXCEPT ![Len(Q)] = <<Q[Len(Q)][1], R[k][2]>>]
              ELSE Append(Q, R[k])
           Body(k, F) == IF k = 1 THEN <<R[1]>> ELSE Next1(F[k - 1], k)
           T == [p \in D \X [D -> S] |-> Body(p[1], p[2])]
<1>1. M \in Nat \ {0} /\ 2 * M \in Nat /\ M <= 2 * M
  BY MaxWordsType
<1>2. /\ R \in Seq(Nat \X Nat) /\ L \in Nat /\ L >= 1 /\ DOMAIN R = D /\ R # <<>>
      /\ R[1][1] = 0 /\ R[L][2] = N
  BY DEF Covers, RangeList
<1>3. \A k \in D : /\ R[k] \in Nat \X Nat /\ R[k][1] \in Nat /\ R[k][2] \in Nat
                   /\ R[k] = <<R[k][1], R[k][2]>>
  BY <1>2
<1>4. \A k \in D : R[k][1] < R[k][2] /\ R[k][2] - R[k][1] <= M
  BY <1>2 DEF Covers
<1>5. \A k \in D : k # 1 => k - 1 \in D /\ R[k - 1][2] = R[k][1]
  <2>1. \A i \in 1 .. L - 1 : R[i][2] = R[i + 1][1]
    BY DEF Covers
  <2> TAKE k \in D
  <2> HAVE k # 1
  <2>2. k - 1 \in 1 .. L - 1 /\ (k - 1) + 1 = k /\ k - 1 \in D
    BY <1>2
  <2>3. R[k - 1][2] = R[(k - 1) + 1][1]
    BY <2>1, <2>2
  <2> QED BY <2>2, <2>3
<1>6. m \in [D -> Nat] /\ (\A k \in D : m[k] = k /\ m[k] <= L) /\ D \subseteq Nat
  BY <1>2
<1>7. S # {}
  <2>1. <<R[1]>> \in RangeList /\ <<R[1]>> # <<>>
    BY <1>2 DEF RangeList
  <2> QED BY <2>1
<1> HIDE DEF M, Joins
<1>8. ASSUME NEW Q \in RangeList, Q # <<>>, NEW k \in D
      PROVE  Next1(Q, k) \in RangeList /\ Next1(Q, k) # <<>>
  <2>1. Len(Q) \in DOMAIN Q /\ Len(Q) \in Nat /\ Q[Len(Q)][1] \in Nat
    BY <1>8 DEF RangeList
  <2>2. R[k] \in Nat \X Nat /\ <<Q[Len(Q)][1], R[k][2]>> \in Nat \X Nat
    BY <1>3, <2>1
  <2>3. CASE Joins(Q, k)
    <3> DEFINE q == <<Q[Len(Q)][1], R[k][2]>>
               P == [Q EXCEPT ![Len(Q)] = q]
    <3>1. q \in Nat \X Nat
      BY <2>2
    <3> HIDE DEF q
    <3>2. P \in RangeList /\ Len(P) = Len(Q)
      BY <1>8, <2>1, <3>1 DEF RangeList
    <3>3. P # <<>>
      <4> HIDE DEF P
      <4>1. Len(Q) # 0
        BY <1>8 DEF RangeList
      <4> QED BY <3>2, <4>1
    <3>4. Next1(Q, k) = P
      BY <2>3 DEF q
    <3> HIDE DEF P, Next1
    <3> QED BY <3>2, <3>3, <3>4
  <2>4. CASE ~Joins(Q, k)
    <3> DEFINE P == Append(Q, R[k])
    <3>1. P \in RangeList /\ Len(P) = Len(Q) + 1
      BY <1>8, <2>2 DEF RangeList
    <3>2. Next1(Q, k) = P
      BY <2>4
    <3> HIDE DEF P, Next1
    <3>3. P # <<>>
      BY <2>1, <3>1
    <3> QED BY <3>1, <3>2, <3>3
  <2> QED BY <2>3, <2>4
<1> HIDE DEF Next1
<1>9. \A k \in D, F \in [D -> S] : Body(k, F) \in S
  <2> TAKE k \in D, F \in [D -> S]
  <2>1. CASE k = 1
    <3>1. <<R[1]>> \in RangeList /\ <<R[1]>> # <<>>
      BY <1>2 DEF RangeList
    <3> QED BY <2>1, <3>1
  <2>2. CASE k # 1
    <3>1. F[k - 1] \in RangeList /\ F[k - 1] # <<>>
      <4> HIDE DEF D
      <4> QED BY <1>5, <2>2
    <3> QED BY <1>8, <2>2, <3>1
  <2> QED BY <2>1, <2>2
<1>10. \A k \in D, F, G \in [D -> S] :
         (\A e \in D : m[e] < m[k] => F[e] = G[e]) => Body(k, F) = Body(k, G)
  <2> TAKE k \in D, F \in [D -> S], G \in [D -> S]
  <2> HAVE \A e \in D : m[e] < m[k] => F[e] = G[e]
  <2>1. k # 1 => k - 1 \in D /\ m[k - 1] < m[k]
    BY <1>5, <1>6
  <2> HIDE DEF m, D, S
  <2>2. k # 1 => F[k - 1] = G[k - 1]
    BY <2>1
  <2> QED BY <2>2
<1> HIDE DEF Body, m, S
<1>11. \A k \in D, F \in [D -> S] : T[<<k, F>>] = Body(k, F)
  <2> HIDE DEF D
  <2> QED OBVIOUS
<1>12. T \in [D \X [D -> S] -> S]
  <2> HIDE DEF D
  <2>1. \A p \in D \X [D -> S] : p[1] \in D /\ p[2] \in [D -> S]
    OBVIOUS
  <2> QED BY <1>9, <2>1
<1> HIDE DEF T
<1>13. \E F \in [D -> S] : \A k \in D : F[k] = Body(k, F)
  <2> HIDE DEF D, L
  <2>1. \A k \in D, F, G \in [D -> S] :
           (\A e \in D : m[e] < m[k] => F[e] = G[e]) => T[<<k, F>>] = T[<<k, G>>]
    BY <1>10, <1>11
  <2>2. Recursion(D, S, m, L, T)
    BY <1>2, <1>6, <1>7, <1>12, <2>1 DEF Recursion
  <2>3. PICK F \in [D -> S] : \A k \in D : F[k] = T[<<k, F>>]
    BY <2>2, Solution
  <2> QED BY <1>11, <2>3
<1> DEFINE Merged[i \in 1 .. Len(R)] ==
              IF i = 1 THEN <<R[1]>>
              ELSE LET done == Merged[i - 1]
                       last == done[Len(done)]
                   IN  IF CanMerge(words, last, R[i])
                       THEN [done EXCEPT ![Len(done)] = <<last[1], R[i][2]>>]
                       ELSE Append(done, R[i])
<1>14. Merged = [k \in D |-> Body(k, Merged)]
  <2>1. PICK F \in [D -> S] : \A k \in D : F[k] = Body(k, F)
    BY <1>13
  <2>2. F = [k \in D |-> Body(k, F)]
    <3> HIDE DEF D
    <3> QED BY <2>1
  <2> QED BY <2>2 DEF Body, Next1, Joins
<1>15. MergeShort(words, R) = Merged[L]
  BY <1>2 DEF MergeShort
<1> HIDE DEF Merged

<1> DEFINE Good == {k \in D : Covers(Merged[k], 0, R[k][2], 2 * M)}
<1>16. ASSUME NEW k \in D, \A e \in D : m[e] < m[k] => e \in Good
       PROVE  k \in Good
  <2>1. Merged[k] = Body(k, Merged)
    <3> HIDE DEF D
    <3> QED BY <1>14
  <2>2. R[k][1] \in Nat /\ R[k][2] \in Nat /\ R[k][1] < R[k][2] /\ R[k][2] - R[k][1] <= 2 * M
    BY <1>1, <1>3, <1>4
  <2>3. Covers(<<R[k]>>, R[k][1], R[k][2], 2 * M)
    <3>1. Covers(<<<<R[k][1], R[k][2]>>>>, R[k][1], R[k][2], 2 * M)
      BY <1>1, <2>2, OneCovers
    <3> QED BY <1>3, <3>1
  <2>4. CASE k = 1
    <3>1. Merged[k] = <<R[k]>>
      BY <2>1, <2>4 DEF Body
    <3>2. R[k][1] = 0
      BY <1>2, <2>4
    <3> QED BY <2>3, <3>1, <3>2
  <2>5. CASE k # 1
    <3> DEFINE Q == Merged[k - 1]
    <3>1. k - 1 \in D /\ R[k - 1][2] = R[k][1] /\ m[k - 1] < m[k]
      BY <1>5, <1>6, <2>5
    <3>2. Covers(Q, 0, R[k][1], 2 * M)
      <4>1. k - 1 \in Good
        BY <1>16, <3>1
      <4> QED BY <3>1, <4>1
    <3>3. Merged[k] = Next1(Q, k)
      BY <2>1, <2>5 DEF Body
    <3> HIDE DEF Q
    <3>4. CASE Joins(Q, k)
      <4>1. Merged[k] = [Q EXCEPT ![Len(Q)] = <<Q[Len(Q)][1], R[k][2]>>]
        BY <3>3, <3>4 DEF Next1
      <4>2. R[k][2] - Q[Len(Q)][1] <= 2 * M
        BY <3>4 DEF Joins, CanMerge, M
      <4>3. Covers([Q EXCEPT ![Len(Q)] = <<Q[Len(Q)][1], R[k][2]>>], 0, R[k][2], 2 * M)
        BY <2>2, <3>2, <4>2, LongerLast
      <4> QED BY <4>1, <4>3
    <3>5. CASE ~Joins(Q, k)
      <4>1. Merged[k] = Append(Q, R[k])
        BY <3>3, <3>5 DEF Next1
      <4>2. Append(Q, R[k]) = Q \o <<R[k]>>
        <5>1. Q \in Seq(Nat \X Nat) /\ R[k] \in Nat \X Nat
          BY <1>3, <3>2 DEF Covers, RangeList
        <5> QED BY <5>1, AppendIsJoin
      <4>3. Covers(Q \o <<R[k]>>, 0, R[k][2], 2 * M)
        BY <2>3, <3>2, JoinedCover
      <4> QED BY <4>1, <4>2, <4>3
    <3> QED BY <3>4, <3>5
  <2> QED BY <2>4, <2>5
<1>17. D \subseteq Good
  <2>1. \A k \in D : (\A e \in D : m[e] < m[k] => e \in Good) => k \in Good
    BY <1>16
  <2> HIDE DEF D, Good
  <2> QED BY <1>6, <2>1, FromBelow
<1>18. L \in D
  BY <1>2
<1>19. Covers(Merged[L], 0, R[L][2], 2 * M)
  <2> HIDE DEF D, L
  <2> QED BY <1>17, <1>18
<1> QED BY <1>2, <1>15, <1>19 DEF M

\* The cues of the rules hold every word once, one after the other, and none
\* has more than twice the words a cue may have (rule_split).
THEOREM RulesCoverWords ==
    ASSUME NEW W, NEW words \in Seq(W), words # <<>>
    PROVE  Covers(RuleRanges(words), 0, Len(words), 2 * MaxWords(words))
<1> DEFINE R == Groups(words)
           N == Len(words)
<1>1. Covers(R, 0, N, MaxWords(words))
  BY GroupsCover
<1> HIDE DEF R, N
<1>2. Covers(MergeShort(words, R), 0, N, 2 * MaxWords(words))
  BY <1>1, MergedCover
<1> QED BY <1>2 DEF R, N, RuleRanges

-----------------------------------------------------------------------------
(* Why a chunk may be transcribed alone: the padding it reads around its   *)
(* core holds every word it owns.                                          *)

\* A word is at most twice the padding long.  Longer ones are not safe: the
\* chunk that owns such a word may hear a part of it only.
Short(word) == word.end - word.start <= 2 * Padding

LEMMA CenterIsInTheMiddle ==
    ASSUME NEW word, word.start \in Nat, word.end \in Nat, word.start <= word.end, Short(word)
    PROVE  /\ Center(word) \in Nat
           /\ Center(word) - word.start <= Padding
           /\ word.end - Center(word) <= Padding
<1>1. Padding \in Nat
  BY ChunkAssumption
<1> DEFINE length == word.end - word.start
           half == length \div 2
<1>2. length \in Nat /\ length <= 2 * Padding
  BY DEF Short
<1>3. half \in Nat /\ (length = 2 * half \/ length = 2 * half + 1)
  BY <1>2
<1>4. Center(word) = word.start + half
  BY DEF Center
<1> HIDE DEF half
<1> QED BY <1>1, <1>2, <1>3, <1>4

\* Every short word whose middle lies in the core of a chunk lies, with both
\* its ends, in what the chunk reads (make_chunk, retain_core_words): the engine
\* hears it whole, and the chunk that keeps it is not one that heard it cut.
THEOREM OwnedWordsAreHeardWhole ==
    ASSUME NEW start \in Nat, NEW end \in Nat, NEW duration \in Nat,
           start <= end, end <= duration,
           NEW word, word.start \in Nat, word.end \in Nat,
           word.start <= word.end, word.end <= duration, Short(word),
           start <= Center(word), Center(word) < end
    PROVE  LET read == MakeChunk(start, end, duration).read
           IN  read[1] <= word.start /\ word.end <= read[2]
<1> DEFINE read == MakeChunk(start, end, duration).read
<1>1. Padding \in Nat
  BY ChunkAssumption
<1>2. /\ Center(word) \in Nat
      /\ Center(word) - word.start <= Padding /\ word.end - Center(word) <= Padding
  BY CenterIsInTheMiddle
<1>3. /\ read[1] \in Nat /\ read[2] \in Nat
      /\ read[1] = 0 \/ read[1] = start - Padding
      /\ read[2] = duration \/ read[2] = end + Padding
  BY ChunkAssumption DEF MakeChunk, Minus, Smaller
<1> HIDE DEF read
<1>4. read[1] <= word.start
  BY <1>1, <1>2, <1>3
<1>5. word.end <= read[2]
  BY <1>1, <1>2, <1>3
<1> QED BY <1>4, <1>5 DEF read

-----------------------------------------------------------------------------
(* The plan of the chunks. *)

\* The least of a set by one measure, among these by another, and by a third.
IsLeast(x, S, a, b, c) ==
    \A y \in S : \/ a[x] < a[y]
                 \/ a[x] = a[y] /\ (b[x] < b[y] \/ (b[x] = b[y] /\ c[x] <= c[y]))
LEMMA LeastByThree ==
    ASSUME NEW S, S # {}, NEW a \in [S -> Nat], NEW b \in [S -> Nat], NEW c \in [S -> Nat]
    PROVE  \E x \in S : IsLeast(x, S, a, b, c)
<1>1. \A X, k : X \subseteq S /\ X # {} /\ k \in [S -> Nat] =>
         \E x \in X : \A y \in X : k[x] <= k[y]
  <2> SUFFICES ASSUME NEW X, NEW k, X \subseteq S, X # {}, k \in [S -> Nat]
               PROVE  \E x \in X : \A y \in X : k[x] <= k[y]
    OBVIOUS
  <2> DEFINE K == {k[x] : x \in X}
  <2>1. K \in SUBSET Nat /\ K # {}
    OBVIOUS
  <2>2. PICK n \in K : \A j \in K : n <= j
    BY <2>1, LeastOf
  <2> QED BY <2>2
<1>2. PICK x1 \in S : \A y \in S : a[x1] <= a[y]
  BY <1>1
<1> DEFINE A == {y \in S : a[y] = a[x1]}
<1>3. PICK x2 \in A : \A y \in A : b[x2] <= b[y]
  <2>1. A \subseteq S /\ A # {}
    OBVIOUS
  <2> HIDE DEF A
  <2> QED BY <1>1, <2>1
<1> DEFINE B == {y \in A : b[y] = b[x2]}
<1>4. PICK x3 \in B : \A y \in B : c[x3] <= c[y]
  <2>1. B \subseteq S /\ B # {}
    OBVIOUS
  <2> HIDE DEF B
  <2> QED BY <1>1, <2>1
<1>5. ASSUME NEW y \in S
      PROVE  \/ a[x3] < a[y]
             \/ a[x3] = a[y] /\ (b[x3] < b[y] \/ (b[x3] = b[y] /\ c[x3] <= c[y]))
  <2>1. a[x3] = a[x1] /\ b[x3] = b[x2] /\ x3 \in S
    OBVIOUS
  <2>2. a[x1] <= a[y] /\ (y \in A => b[x2] <= b[y]) /\ (y \in B => c[x3] <= c[y])
    BY <1>2, <1>3, <1>4
  <2>3. a[x1] \in Nat /\ a[y] \in Nat /\ b[x2] \in Nat /\ b[y] \in Nat
    BY <2>1
  <2> QED BY <2>1, <2>2, <2>3
<1>6. x3 \in S
  OBVIOUS
<1>7. IsLeast(x3, S, a, b, c)
  BY <1>5 DEF IsLeast
<1> QED BY <1>6, <1>7

SilenceSet == Nat \X Nat
SampleSet == [at : Nat, energy : Nat]

LEMMA DistanceType == \A x, y \in Int : Distance(x, y) \in Nat
BY DEF Distance, Minus

LEMMA ChooseCutType ==
    ASSUME NEW target \in Nat, NEW lower \in Nat, NEW upper \in Int,
           NEW silences, silences \subseteq SilenceSet, NEW samples, samples \subseteq SampleSet
    PROVE  ChooseCut(target, lower, upper, silences, samples) \in Nat
<1> DEFINE silent == SilentCuts(lower, upper, silences)
           quiet == {q \in samples : lower <= q.at /\ q.at <= upper}
           First(a, b) == \/ Distance(a, target) < Distance(b, target)
                          \/ Distance(a, target) = Distance(b, target) /\ a <= b
           Longest(c) == \A d \in silent :
                            c.size > d.size \/ (c.size = d.size /\ First(c.at, d.at))
           Quietest(c) == \A d \in quiet :
                            c.energy < d.energy \/ (c.energy = d.energy /\ First(c.at, d.at))
<1>1. \A c \in silent : c.size \in Nat /\ c.size <= upper /\ c.at \in Nat
  <2> SUFFICES ASSUME NEW r \in silences,
                      Smaller(r[2], upper) - Larger(r[1], lower) >= MinSilence
               PROVE  LET c == [size |-> Smaller(r[2], upper) - Larger(r[1], lower),
                                at |-> (Larger(r[1], lower) + Smaller(r[2], upper)) \div 2]
                      IN  c.size \in Nat /\ c.size <= upper /\ c.at \in Nat
    BY DEF SilentCuts
  <2>1. r[1] \in Nat /\ r[2] \in Nat /\ MinSilence \in Nat
    BY ChunkAssumption DEF SilenceSet
  <2> DEFINE end == Smaller(r[2], upper)
             start == Larger(r[1], lower)
  <2>2. start \in Nat /\ end \in Int /\ end <= upper
    BY <2>1 DEF Smaller, Larger
  <2> HIDE DEF start, end
  <2>3. end - start \in Nat /\ end - start <= upper /\ end \in Nat
    BY <2>1, <2>2 DEF start, end
  <2>4. (start + end) \div 2 \in Nat
    BY <2>2, <2>3
  <2> QED BY <2>3, <2>4 DEF start, end
<1>2. \A q \in quiet : q.at \in Nat /\ q.energy \in Nat
  BY DEF SampleSet
<1> HIDE DEF silent, quiet
<1>3. CASE silent # {}
  <2> DEFINE a == [c \in silent |-> upper - c.size]
             b == [c \in silent |-> Distance(c.at, target)]
             p == [c \in silent |-> c.at]
  <2>1. a \in [silent -> Nat] /\ b \in [silent -> Nat] /\ p \in [silent -> Nat]
    <3>1. \A c \in silent : upper - c.size \in Nat
      BY <1>1
    <3>2. \A c \in silent : Distance(c.at, target) \in Nat
      <4>1. target \in Int /\ \A c \in silent : c.at \in Int
        BY <1>1
      <4> HIDE DEF silent, quiet
      <4> QED BY <4>1, DistanceType
    <3>3. \A c \in silent : c.at \in Nat
      BY <1>1
    <3> QED BY <3>1, <3>2, <3>3
  <2>2. \A c \in silent : a[c] = upper - c.size /\ b[c] = Distance(c.at, target) /\ p[c] = c.at
    OBVIOUS
  <2> HIDE DEF a, b, p
  <2>3. PICK x \in silent : IsLeast(x, silent, a, b, p)
    BY <1>3, <2>1, LeastByThree
  <2>4. Longest(x)
    <3> SUFFICES ASSUME NEW y \in silent
                 PROVE  x.size > y.size \/ (x.size = y.size /\ First(x.at, y.at))
      OBVIOUS
    <3>1. x.size \in Nat /\ y.size \in Nat
      BY <1>1
    <3>2. a[x] < a[y] => x.size > y.size
      BY <2>2, <3>1
    <3>3. a[x] = a[y] => x.size = y.size
      BY <2>2, <3>1
    <3> QED BY <2>2, <2>3, <3>2, <3>3 DEF IsLeast
  <2> DEFINE chosen == CHOOSE c \in silent : Longest(c)
  <2>5. chosen \in silent
    BY <2>4
  <2>6. ChooseCut(target, lower, upper, silences, samples) = chosen.at
    BY <1>3 DEF ChooseCut, silent
  <2> HIDE DEF chosen
  <2> QED BY <1>1, <2>5, <2>6
<1>4. CASE silent = {} /\ quiet # {}
  <2> DEFINE a == [c \in quiet |-> c.energy]
             b == [c \in quiet |-> Distance(c.at, target)]
             p == [c \in quiet |-> c.at]
  <2>1. a \in [quiet -> Nat] /\ b \in [quiet -> Nat] /\ p \in [quiet -> Nat]
    <3>1. \A c \in quiet : c.energy \in Nat
      BY <1>2
    <3>2. \A c \in quiet : Distance(c.at, target) \in Nat
      <4>1. target \in Int /\ \A c \in quiet : c.at \in Int
        BY <1>2
      <4> HIDE DEF silent, quiet
      <4> QED BY <4>1, DistanceType
    <3>3. \A c \in quiet : c.at \in Nat
      BY <1>2
    <3> QED BY <3>1, <3>2, <3>3
  <2>2. \A c \in quiet : a[c] = c.energy /\ b[c] = Distance(c.at, target) /\ p[c] = c.at
    OBVIOUS
  <2> HIDE DEF a, b, p
  <2>3. PICK x \in quiet : IsLeast(x, quiet, a, b, p)
    BY <1>4, <2>1, LeastByThree
  <2>4. Quietest(x)
    BY <2>2, <2>3 DEF IsLeast
  <2> DEFINE chosen == CHOOSE c \in quiet : Quietest(c)
  <2>5. chosen \in quiet
    BY <2>4
  <2>6. ChooseCut(target, lower, upper, silences, samples) = chosen.at
    BY <1>4 DEF ChooseCut, silent, quiet
  <2> HIDE DEF chosen
  <2> QED BY <1>2, <2>5, <2>6
<1>5. CASE silent = {} /\ quiet = {}
  BY <1>5 DEF ChooseCut, silent, quiet
<1> QED BY <1>3, <1>4, <1>5

ChunkSet(duration) ==
    {MakeChunk(p[1], p[2], duration) : p \in {q \in (0 .. duration) \X (0 .. duration) : q[1] <= q[2]}}

CutAt(start, duration, max, silences, samples) ==
    LET target == start + max
        lower == Larger(Minus(target, Radius), start + MinChunk)
        upper == Smaller(target + Radius, duration - MinChunk)
    IN  Larger(ChooseCut(target, lower, upper, silences, samples), start + MinChunk)

LEMMA CutIsLater ==
    ASSUME NEW start \in Nat, NEW duration \in Nat, NEW max \in Nat,
           NEW silences, silences \subseteq SilenceSet, NEW samples, samples \subseteq SampleSet
    PROVE  /\ CutAt(start, duration, max, silences, samples) \in Nat
           /\ CutAt(start, duration, max, silences, samples) > start
<1> DEFINE target == start + max
           lower == Larger(Minus(target, Radius), start + MinChunk)
           upper == Smaller(target + Radius, duration - MinChunk)
<1>1. Radius \in Nat /\ MinChunk \in Nat /\ MinChunk > 0
  BY ChunkAssumption
<1>2. target \in Nat /\ lower \in Nat /\ upper \in Int
  BY <1>1 DEF Larger, Smaller, Minus
<1> DEFINE chosen == ChooseCut(target, lower, upper, silences, samples)
<1> HIDE DEF target, lower, upper
<1>3. chosen \in Nat
  BY <1>2, ChooseCutType
<1>4. CutAt(start, duration, max, silences, samples) = Larger(chosen, start + MinChunk)
  BY DEF CutAt, target, lower, upper
<1> HIDE DEF chosen
<1> QED BY <1>1, <1>3, <1>4 DEF Larger

\* A plan has chunks of the audio only.
LEMMA PlanChunks ==
    ASSUME NEW duration \in Nat, NEW max \in Nat,
           NEW silences, silences \subseteq SilenceSet, NEW samples, samples \subseteq SampleSet
    PROVE  Build(duration, max, silences, samples) \in Seq(ChunkSet(duration))
<1> DEFINE cutOf(k) == CutAt(k, duration, max, silences, samples)
           D == 0 .. duration
           X == ChunkSet(duration)
           S == Seq(X)
           m == [k \in D |-> duration - k]
           Body(k, F) == IF duration - k <= max \/ cutOf(k) >= duration
                         THEN <<MakeChunk(k, duration, duration)>>
                         ELSE <<MakeChunk(k, cutOf(k), duration)>> \o F[cutOf(k)]
           T == [p \in D \X [D -> S] |-> Body(p[1], p[2])]
<1>1. \A k \in D : cutOf(k) \in Nat /\ cutOf(k) > k
  BY CutIsLater
<1>2. m \in [D -> Nat] /\ \A k \in D : m[k] = duration - k /\ m[k] <= duration
  OBVIOUS
<1> HIDE DEF cutOf
<1>3. ASSUME NEW a \in D, NEW b \in D, a <= b
      PROVE  <<MakeChunk(a, b, duration)>> \in S
  <2> DEFINE p == <<a, b>>
  <2>1. p \in (0 .. duration) \X (0 .. duration) /\ p[1] = a /\ p[2] = b
    OBVIOUS
  <2> HIDE DEF p
  <2>2. MakeChunk(p[1], p[2], duration) \in X
    BY <1>3, <2>1 DEF ChunkSet
  <2>3. MakeChunk(a, b, duration) \in X
    BY <2>1, <2>2
  <2> HIDE DEF X
  <2> QED BY <2>3
<1>4. ASSUME NEW k \in D, ~(duration - k <= max \/ cutOf(k) >= duration)
      PROVE  cutOf(k) \in D /\ m[cutOf(k)] < m[k] /\ <<MakeChunk(k, cutOf(k), duration)>> \in S
  <2>1. cutOf(k) \in Nat /\ cutOf(k) > k /\ cutOf(k) < duration
    BY <1>1, <1>4
  <2>2. cutOf(k) \in D /\ k <= cutOf(k)
    BY <2>1
  <2>3. m[cutOf(k)] < m[k]
    BY <1>2, <2>1, <2>2
  <2> QED BY <1>3, <2>2, <2>3
<1> HIDE DEF m, X
<1>5. \A k \in D, F \in [D -> S] : Body(k, F) \in S
  <2> TAKE k \in D, F \in [D -> S]
  <2>1. CASE duration - k <= max \/ cutOf(k) >= duration
    <3>1. duration \in D /\ k <= duration
      OBVIOUS
    <3> QED BY <1>3, <2>1, <3>1
  <2>2. CASE ~(duration - k <= max \/ cutOf(k) >= duration)
    <3>1. cutOf(k) \in D /\ <<MakeChunk(k, cutOf(k), duration)>> \in S
      BY <1>4, <2>2
    <3> HIDE DEF D
    <3>2. F[cutOf(k)] \in S
      BY <3>1
    <3> QED BY <2>2, <3>1, <3>2
  <2> QED BY <2>1, <2>2
<1>6. \A k \in D, F, G \in [D -> S] :
         (\A e \in D : m[e] < m[k] => F[e] = G[e]) => Body(k, F) = Body(k, G)
  <2> HIDE DEF D, S
  <2> TAKE k \in D, F \in [D -> S], G \in [D -> S]
  <2> HAVE \A e \in D : m[e] < m[k] => F[e] = G[e]
  <2>1. ~(duration - k <= max \/ cutOf(k) >= duration) => F[cutOf(k)] = G[cutOf(k)]
    BY <1>4
  <2> QED BY <2>1
<1> HIDE DEF Body
<1>7. \A k \in D, F \in [D -> S] : T[<<k, F>>] = Body(k, F)
  <2> HIDE DEF D, S
  <2> QED OBVIOUS
<1>8. T \in [D \X [D -> S] -> S]
  <2> HIDE DEF D, S
  <2>1. \A p \in D \X [D -> S] : p[1] \in D /\ p[2] \in [D -> S]
    OBVIOUS
  <2> QED BY <1>5, <2>1
<1> HIDE DEF T
<1>9. PICK F \in [D -> S] : \A k \in D : F[k] = Body(k, F)
  <2>1. <<>> \in S
    OBVIOUS
  <2> HIDE DEF D, S
  <2>2. \A k \in D, F, G \in [D -> S] :
           (\A e \in D : m[e] < m[k] => F[e] = G[e]) => T[<<k, F>>] = T[<<k, G>>]
    BY <1>6, <1>7
  <2>3. S # {}
    BY <2>1
  <2>4. Recursion(D, S, m, duration, T)
    BY <1>2, <1>8, <2>2, <2>3 DEF Recursion
  <2>5. PICK F \in [D -> S] : \A k \in D : F[k] = T[<<k, F>>]
    BY <2>4, Solution
  <2> QED BY <1>7, <2>5
<1> DEFINE From[start \in 0 .. duration] ==
              IF duration - start <= max \/ cutOf(start) >= duration
              THEN <<MakeChunk(start, duration, duration)>>
              ELSE <<MakeChunk(start, cutOf(start), duration)>> \o From[cutOf(start)]
<1>10. From = [k \in D |-> Body(k, From)]
  <2>1. F = [k \in D |-> Body(k, F)]
    <3> HIDE DEF D, S
    <3> QED BY <1>9
  <2> QED BY <2>1 DEF Body
<1>11. Build(duration, max, silences, samples) = IF duration = 0 THEN <<>> ELSE From[0]
  BY DEF Build, cutOf, CutAt
<1> HIDE DEF From
<1> DEFINE Good == {k \in D : From[k] \in S}
<1>12. \A k \in D : (\A e \in D : m[e] < m[k] => e \in Good) => k \in Good
  <2> SUFFICES ASSUME NEW k \in D, \A e \in D : m[e] < m[k] => e \in Good
               PROVE  From[k] \in S
    OBVIOUS
  <2>1. From[k] = Body(k, From)
    <3> HIDE DEF D
    <3> QED BY <1>10
  <2>2. CASE duration - k <= max \/ cutOf(k) >= duration
    <3>1. duration \in D /\ k <= duration
      OBVIOUS
    <3>2. From[k] = <<MakeChunk(k, duration, duration)>>
      BY <2>1, <2>2 DEF Body
    <3> QED BY <1>3, <3>1, <3>2
  <2>3. CASE ~(duration - k <= max \/ cutOf(k) >= duration)
    <3> DEFINE first == <<MakeChunk(k, cutOf(k), duration)>>
    <3>1. cutOf(k) \in Good /\ first \in S
      <4> HIDE DEF Good, D
      <4> QED BY <1>4, <2>3
    <3>2. From[k] = first \o From[cutOf(k)]
      BY <2>1, <2>3 DEF Body
    <3> HIDE DEF first
    <3>3. From[cutOf(k)] \in S
      BY <3>1
    <3> QED BY <3>1, <3>2, <3>3
  <2> QED BY <2>2, <2>3
<1>13. D \subseteq Good
  <2> HIDE DEF D, Good
  <2> QED BY <1>2, <1>12, FromBelow
<1>14. From[0] \in S
  BY <1>13
<1> QED BY <1>11, <1>14 DEF X
-----------------------------------------------------------------------------
(* The operations of a transcript. *)

IsCue(q) ==
    /\ DOMAIN q = {"id", "range", "times", "failed", "text", "translation", "origin",
                   "changes"}
    /\ DOMAIN q.origin = Fields
CuesNumbered(cues) == \A c \in DOMAIN cues : IsCue(cues[c]) /\ cues[c].id = c
IsDoc(d) ==
    /\ DOMAIN d = {"revision", "words", "cues", "timeline"}
    /\ d.revision \in Nat
    /\ CuesNumbered(d.cues)

\* What every operation on a transcript keeps of it, apart from a split.
Follows(n, d) ==
    /\ IsDoc(n)
    /\ n.words = d.words /\ n.timeline = d.timeline
    /\ n.revision >= d.revision
    /\ DOMAIN n.cues = DOMAIN d.cues
    /\ \A c \in DOMAIN d.cues :
          /\ n.cues[c].range = d.cues[c].range
          /\ d.cues[c].failed => n.cues[c].failed

\* A field that the user typed into is as it was.
Stays(n, q, field) == q.origin[field] = "User" => n.origin[field] = "User" /\ n[field] = q[field]
UsersStay(n, d) == \A c \in DOMAIN d.cues : \A f \in Fields : Stays(n.cues[c], d.cues[c], f)

LEMMA WriteCue ==
    ASSUME NEW q, IsCue(q), NEW field \in Fields, NEW value, NEW origin
    PROVE  LET w == Write(q, field, value, origin)
           IN  /\ IsCue(w) /\ w.id = q.id /\ w.range = q.range /\ w.failed = q.failed
               /\ w[field] = value /\ w.origin[field] = origin
               /\ \A f \in Fields \ {field} : w[f] = q[f] /\ w.origin[f] = q.origin[f]
<1> DEFINE w == Write(q, field, value, origin)
<1>1. /\ DOMAIN w = DOMAIN q /\ w[field] = value /\ w.origin = [q.origin EXCEPT ![field] = origin]
      /\ \A g \in DOMAIN q \ {field, "origin", "changes"} : w[g] = q[g]
  BY DEF IsCue, Write, Fields
<1> HIDE DEF w
<1>2. DOMAIN w.origin = Fields /\ w.origin[field] = origin
      /\ \A f \in Fields \ {field} : w.origin[f] = q.origin[f]
  BY <1>1 DEF IsCue
<1> QED BY <1>1, <1>2 DEF IsCue, Fields, w

LEMMA BumpedDoc ==
    ASSUME NEW d, IsDoc(d), NEW cues, CuesNumbered(cues)
    PROVE  LET n == Bumped(d, cues)
           IN  /\ IsDoc(n) /\ n.cues = cues
               /\ n.words = d.words /\ n.timeline = d.timeline /\ n.revision >= d.revision
BY DEF Bumped, IsDoc

LEMMA CuesByNumber ==
    ASSUME NEW d, IsDoc(d)
    PROVE  /\ CueIds(d) = DOMAIN d.cues
           /\ \A id \in DOMAIN d.cues : CueOf(d, id) = d.cues[id]
BY DEF IsDoc, CuesNumbered, CueIds, CueOf

LEMMA ApplyTextFollows ==
    ASSUME NEW d, IsDoc(d), NEW field \in Fields, NEW updates
    PROVE  /\ Follows(ApplyText(d, field, updates), d)
           /\ UsersStay(ApplyText(d, field, updates), d)
<1> DEFINE New(c) == LET cue == d.cues[c]
                     IN  IF cue.id \in DOMAIN updates /\ cue.origin[field] # "User"
                         THEN Write(cue, field, updates[cue.id], "Llm") ELSE cue
           cues == [c \in DOMAIN d.cues |-> New(c)]
<1>1. ASSUME NEW c \in DOMAIN d.cues
      PROVE  /\ IsCue(New(c)) /\ New(c).id = c
             /\ New(c).range = d.cues[c].range /\ New(c).failed = d.cues[c].failed
             /\ \A f \in Fields : Stays(New(c), d.cues[c], f)
  <2>1. IsCue(d.cues[c]) /\ d.cues[c].id = c
    BY DEF IsDoc, CuesNumbered
  <2>2. CASE d.cues[c].id \in DOMAIN updates /\ d.cues[c].origin[field] # "User"
    BY <2>1, <2>2, WriteCue DEF Stays
  <2>3. CASE ~(d.cues[c].id \in DOMAIN updates /\ d.cues[c].origin[field] # "User")
    BY <2>1, <2>3 DEF Stays
  <2> QED BY <2>2, <2>3
<1>2. DOMAIN cues = DOMAIN d.cues /\ \A c \in DOMAIN d.cues : cues[c] = New(c)
  OBVIOUS
<1>3. ApplyText(d, field, updates) = Bumped(d, cues)
  BY DEF ApplyText
<1> HIDE DEF New, cues
<1>4. CuesNumbered(cues)
  BY <1>1, <1>2 DEF CuesNumbered
<1> QED BY <1>1, <1>2, <1>3, <1>4, BumpedDoc DEF Follows, UsersStay

LEMMA MarkFollows ==
    ASSUME NEW d, IsDoc(d), NEW ids
    PROVE  /\ Follows(MarkFailed(d, ids), d) /\ UsersStay(MarkFailed(d, ids), d)
           /\ \A c \in DOMAIN d.cues : c \in ids => MarkFailed(d, ids).cues[c].failed
<1> DEFINE New(c) == [d.cues[c] EXCEPT !.failed = @ \/ d.cues[c].id \in ids]
           cues == [c \in DOMAIN d.cues |-> New(c)]
<1>1. ASSUME NEW c \in DOMAIN d.cues
      PROVE  /\ IsCue(New(c)) /\ New(c).id = c
             /\ New(c).range = d.cues[c].range
             /\ d.cues[c].failed => New(c).failed
             /\ c \in ids => New(c).failed
             /\ \A f \in Fields : Stays(New(c), d.cues[c], f)
  <2>1. IsCue(d.cues[c]) /\ d.cues[c].id = c
    BY DEF IsDoc, CuesNumbered
  <2>2. /\ New(c).failed = (d.cues[c].failed \/ c \in ids)
        /\ \A g \in {"id", "range", "text", "translation", "origin"} :
              New(c)[g] = d.cues[c][g]
    BY <2>1 DEF IsCue
  <2>3. IsCue(New(c))
    BY <2>1 DEF IsCue
  <2> QED BY <2>1, <2>2, <2>3 DEF Stays, Fields
<1>2. DOMAIN cues = DOMAIN d.cues /\ \A c \in DOMAIN d.cues : cues[c] = New(c)
  OBVIOUS
<1>3. MarkFailed(d, ids) = Bumped(d, cues)
  BY DEF MarkFailed
<1> HIDE DEF New, cues
<1>4. CuesNumbered(cues)
  BY <1>1, <1>2 DEF CuesNumbered
<1> QED BY <1>1, <1>2, <1>3, <1>4, BumpedDoc DEF Follows, UsersStay

LEMMA EditFollows ==
    ASSUME NEW d, IsDoc(d), NEW id \in DOMAIN d.cues, NEW field \in Fields, NEW value
    PROVE  LET n == Edit(d, id, field, value)
           IN  /\ Follows(n, d)
               /\ n.cues[id][field] = value /\ n.cues[id].origin[field] = "User"
               /\ \A c \in DOMAIN d.cues, f \in Fields :
                     c # id \/ f # field => Stays(n.cues[c], d.cues[c], f)
<1> DEFINE n == Edit(d, id, field, value)
           New(c) == IF d.cues[c].id = id
                     THEN Write(d.cues[c], field, value, "User") ELSE d.cues[c]
           cues == [c \in DOMAIN d.cues |-> New(c)]
<1>1. ASSUME NEW c \in DOMAIN d.cues
      PROVE  /\ IsCue(New(c)) /\ New(c).id = c
             /\ New(c).range = d.cues[c].range /\ New(c).failed = d.cues[c].failed
             /\ c = id => New(c)[field] = value /\ New(c).origin[field] = "User"
             /\ \A f \in Fields : c # id \/ f # field => Stays(New(c), d.cues[c], f)
  <2>1. IsCue(d.cues[c]) /\ d.cues[c].id = c
    BY DEF IsDoc, CuesNumbered
  <2>2. CASE c = id
    BY <2>1, <2>2, WriteCue DEF Stays
  <2>3. CASE c # id
    BY <2>1, <2>3 DEF Stays
  <2> QED BY <2>2, <2>3
<1>2. DOMAIN cues = DOMAIN d.cues /\ \A c \in DOMAIN d.cues : cues[c] = New(c)
  OBVIOUS
<1>3. n = Bumped(d, cues)
  BY DEF Edit
<1> HIDE DEF New, cues, n
<1>4. CuesNumbered(cues)
  BY <1>1, <1>2 DEF CuesNumbered
<1>5. n.cues = cues /\ Follows(n, d)
  BY <1>1, <1>2, <1>3, <1>4, BumpedDoc DEF Follows
<1> QED BY <1>1, <1>2, <1>5 DEF n

LEMMA FollowsOn ==
    ASSUME NEW d, NEW n, NEW m, IsDoc(d), Follows(n, d), Follows(m, n)
    PROVE  Follows(m, d)
<1>1. d.revision \in Nat /\ n.revision \in Nat /\ m.revision \in Nat
  BY DEF Follows, IsDoc
<1> QED BY <1>1 DEF Follows

LEMMA UsersStayOn ==
    ASSUME NEW d, NEW n, NEW m, DOMAIN n.cues = DOMAIN d.cues, UsersStay(n, d), UsersStay(m, n)
    PROVE  UsersStay(m, d)
BY DEF UsersStay, Stays

\* Transcripts that are made of others by a split.
SplitInto(d, ranges, origin) ==
    [d EXCEPT !.cues = CuesOver(ranges, origin), !.revision = @ + 1]
LEMMA SplitDoc ==
    ASSUME NEW d, IsDoc(d), NEW ranges, NEW origin
    PROVE  LET n == SplitInto(d, ranges, origin)
           IN  /\ IsDoc(n) /\ n.words = d.words /\ n.timeline = d.timeline
               /\ n.revision = d.revision + 1
               /\ DOMAIN n.cues = DOMAIN ranges
               /\ \A c \in DOMAIN ranges : n.cues[c].range = ranges[c]
<1> DEFINE cues == CuesOver(ranges, origin)
<1>1. /\ DOMAIN cues = DOMAIN ranges
      /\ \A c \in DOMAIN ranges :
            cues[c] = NewCue(c, ranges[c], NoTimes, "Joined", Blank, origin)
  BY DEF CuesOver
<1> HIDE DEF cues
<1>2. \A c \in DOMAIN ranges : IsCue(cues[c]) /\ cues[c].id = c /\ cues[c].range = ranges[c]
  BY <1>1 DEF NewCue, IsCue, Fields
<1> QED BY <1>1, <1>2 DEF IsDoc, CuesNumbered, cues, SplitInto

LEMMA ImportedDoc ==
    ASSUME NEW blocks, NEW layout
    PROVE  IsDoc(NewImported(CuesOfBlocks(blocks, layout)))
<1> DEFINE cues == CuesOfBlocks(blocks, layout)
<1>1. /\ DOMAIN cues = DOMAIN blocks
      /\ \A c \in DOMAIN blocks : cues[c] = CueOfBlock(blocks[c], c, layout)
  BY DEF CuesOfBlocks
<1> HIDE DEF cues
<1>2. \A c \in DOMAIN blocks : IsCue(cues[c]) /\ cues[c].id = c
  BY <1>1 DEF CueOfBlock, NewCue, IsCue, Fields
<1> QED BY <1>1, <1>2 DEF NewImported, IsDoc, CuesNumbered, cues

LEMMA AsrDoc == \A words : IsDoc(NewAsr(words))
BY DEF NewAsr, IsDoc, CuesNumbered

-----------------------------------------------------------------------------
(* The stages, and which of them have a transcript. *)

LEMMA Places == /\ Place("Asr") = 1 /\ Place("Split") = 2
                /\ Place("Correct") = 3 /\ Place("Translate") = 4
BY DEF Place, Stages

LEMMA LatestIsLast ==
    ASSUME NEW s \in StageNames, Committed(s)
    PROVE  /\ Latest \in StageNames /\ Committed(Latest)
           /\ \A t \in StageNames : Committed(t) => Place(t) <= Place(Latest)
<1> DEFINE Last(x) == Committed(x) /\ \A t \in StageNames : Committed(t) => Place(t) <= Place(x)
<1>1. \E x \in StageNames : Last(x)
  BY Places DEF StageNames
<1> QED BY <1>1 DEF Latest

\* A transcript no stage begins with: it was split or imported.
Real(d) == d.timeline = "ImportedCue" \/ d.revision > 1
LEMMA RealIsCommitted == \A d : Real(d) => d # NoDoc
BY DEF Real, NoDoc, NewAsr
LEMMA RealFollows == ASSUME NEW d, NEW n, IsDoc(d), Real(d), Follows(n, d) PROVE Real(n)
BY DEF Real, Follows, IsDoc

Early == {"Start", "Speak", "Hear", "Split"}
DocsOK ==
    /\ DOMAIN docs = StageNames
    /\ \A s \in StageNames : IsDoc(docs[s])
    /\ docs["Asr"] = NewAsr(docs["Asr"].words)
    /\ \A s \in StageNames \ {"Asr"} : Committed(s) => Real(docs[s])
    /\ pc \in Early \union {"LlmSplit", "Reply"} =>
           \A s \in StageNames \ {"Asr"} : ~Committed(s)
    /\ pc = "Correct" => /\ Committed("Split")
                         /\ ~Committed("Correct") /\ ~Committed("Translate")
    /\ pc = "Translate" => Committed("Correct") /\ ~Committed("Translate")

\* What the user typed is in the transcript it was typed into, and in every
\* one that was made after it.
IsEdit(e) == /\ DOMAIN e = {"stage", "id", "field", "value", "read", "kept"}
             /\ e.stage \in StageNames \ {"Asr"} /\ e.field \in Fields
HasWords(d, e) == /\ e.id \in DOMAIN d.cues
                  /\ d.cues[e.id][e.field] = e.value /\ d.cues[e.id].origin[e.field] = "User"
\* Unless the field was typed into again, in a stage up to this one.
Retyped(e, s) == \E f \in edits : TypedLater(e, f) /\ Place(f.stage) <= Place(s)
EditsKept ==
    /\ pc \in Early => edits = {}
    /\ \A e \in edits : IsEdit(e)
    /\ \A e \in edits : e.kept =>
          /\ Committed(e.stage)
          /\ \A s \in StageNames : Committed(s) /\ Place(s) >= Place(e.stage) =>
                Retyped(e, s) \/ HasWords(docs[s], e)

FlowInv == DocsOK /\ EditsKept

LEMMA InitFlow == Init => FlowInv
<1> SUFFICES ASSUME Init PROVE FlowInv
  OBVIOUS
<1>1. /\ pc = "Start" /\ edits = {} /\ DOMAIN docs = StageNames
      /\ \A s \in StageNames : docs[s] = NoDoc /\ ~Committed(s)
  BY DEF Init, Committed
<1>2. IsDoc(NoDoc) /\ NoDoc = NewAsr(NoDoc.words)
  BY AsrDoc DEF NoDoc, NewAsr
<1> QED BY <1>1, <1>2 DEF FlowInv, DocsOK, EditsKept, StageNames

\* A step that makes no transcript.
LEMMA QuietFlow ==
    ASSUME FlowInv, UNCHANGED <<docs, edits>>,
           \/ pc' = pc \/ pc' \notin Early \union {"LlmSplit", "Reply", "Correct", "Translate"}
           \/ pc \in Early /\ pc' \in Early
           \/ pc = "LlmSplit" /\ pc' = "Reply"
    PROVE  FlowInv'
BY DEF FlowInv, DocsOK, EditsKept, Committed, Early, NoDoc, Retyped

\* The user's words go over from one transcript to one that follows it.
LEMMA FollowsHas ==
    ASSUME NEW d, NEW n, NEW e, IsEdit(e), Follows(n, d), UsersStay(n, d), HasWords(d, e)
    PROVE  HasWords(n, e)
BY DEF Follows, UsersStay, Stays, HasWords, IsEdit

LEMMA EndAsrFlow == ASSUME FlowInv, EndAsr PROVE FlowInv'
<1> USE DEF FlowInv
<1>1. CASE Valid(NewAsr(heard))
  <2>1. /\ docs' = [docs EXCEPT !["Asr"] = NewAsr(heard)] /\ UNCHANGED edits
        /\ pc = "Hear" /\ pc' \in {"LlmSplit", "Split"}
    BY <1>1 DEF EndAsr
  <2>2. DocsOK'
    BY <2>1, AsrDoc DEF DocsOK, Committed, Early, StageNames, NoDoc, NewAsr
  <2>3. EditsKept'
    BY <2>1 DEF EditsKept, Early
  <2> QED BY <2>2, <2>3
<1>2. CASE ~Valid(NewAsr(heard))
  BY <1>2, QuietFlow DEF EndAsr, Early
<1> QED BY <1>1, <1>2

\* A stage commits a transcript, and none behind it has one.
LEMMA CommitFlow ==
    ASSUME FlowInv, NEW s \in StageNames \ {"Asr"}, NEW d, IsDoc(d), Real(d),
           docs' = [docs EXCEPT ![s] = d], UNCHANGED edits,
           pc \in {"Start", "Split", "Reply", "Correct", "Translate"},
           s = IF pc \in {"Correct", "Translate"} THEN pc ELSE "Split",
           pc' \notin Early \union {"LlmSplit", "Reply"},
           pc' = "Correct" => s = "Split", pc' = "Translate" => s = "Correct",
           \A e \in edits : e.kept => Retyped(e, s) \/ HasWords(d, e)
    PROVE  FlowInv'
<1> USE DEF FlowInv
<1>1. /\ docs'[s] = d /\ DOMAIN docs' = StageNames
      /\ \A t \in StageNames \ {s} : docs'[t] = docs[t]
  BY DEF DocsOK
<1>2. Committed(s)' /\ \A t \in StageNames \ {s} : Committed(t)' <=> Committed(t)
  BY <1>1, RealIsCommitted DEF Committed, NoDoc
<1>3. DocsOK'
  BY <1>1, <1>2 DEF DocsOK, Early, StageNames
<1>4. \A e \in edits : e.kept =>
          /\ Committed(e.stage)'
          /\ \A t \in StageNames : Committed(t)' /\ Place(t) >= Place(e.stage) =>
                Retyped(e, t) \/ HasWords(docs'[t], e)
  <2> SUFFICES ASSUME NEW e \in edits, e.kept
               PROVE  /\ Committed(e.stage)'
                      /\ \A t \in StageNames : Committed(t)' /\ Place(t) >= Place(e.stage) =>
                            Retyped(e, t) \/ HasWords(docs'[t], e)
    OBVIOUS
  <2>1. e.stage \in StageNames /\ Committed(e.stage)
    BY DEF EditsKept, IsEdit
  <2>2. \A t \in StageNames : Committed(t) /\ Place(t) >= Place(e.stage) =>
           Retyped(e, t) \/ HasWords(docs[t], e)
    BY DEF EditsKept
  <2>3. Retyped(e, s) \/ HasWords(d, e)
    OBVIOUS
  <2> QED BY <1>1, <1>2, <2>1, <2>2, <2>3
<1>5. EditsKept'
  <2>1. edits' = edits /\ pc' \notin Early
    OBVIOUS
  <2>2. \A e, t : Retyped(e, t)' <=> Retyped(e, t)
    BY <2>1 DEF Retyped
  <2> QED BY <1>4, <2>1, <2>2 DEF EditsKept
<1> QED BY <1>3, <1>5

LEMMA ImportFlow == ASSUME FlowInv, Import PROVE FlowInv'
<1>1. pc = "Start" /\ UNCHANGED edits
  BY DEF Import
<1>2. CASE pc' = "Refused" /\ UNCHANGED docs
  BY <1>1, <1>2, QuietFlow DEF Early
<1>3. ASSUME NEW blocks, NEW layout, pc' = "Imported",
             docs' = [docs EXCEPT !["Split"] = NewImported(CuesOfBlocks(blocks, layout))]
      PROVE  FlowInv'
  <2> DEFINE d == NewImported(CuesOfBlocks(blocks, layout))
  <2>1. IsDoc(d) /\ Real(d)
    BY ImportedDoc DEF NewImported, Real
  <2>2. edits = {}
    BY <1>1 DEF FlowInv, EditsKept, Early
  <2> HIDE DEF d
  <2> QED BY <1>1, <1>3, <2>1, <2>2, CommitFlow DEF Early, StageNames, d
<1> QED BY <1>2, <1>3 DEF Import

\* The transcript of the rules, and what the replies to the split make of it.
LEMMA RuleDoc ==
    ASSUME FlowInv
    PROVE  LET d == RuleSplitOf(docs["Asr"])
           IN  /\ IsDoc(d) /\ Real(d) /\ d.revision = 2
               /\ d.words = docs["Asr"].words /\ d.timeline = "AsrWords"
               /\ DOMAIN d.cues = DOMAIN RuleRanges(d.words)
               /\ \A c \in DOMAIN d.cues : d.cues[c].range = RuleRanges(d.words)[c]
<1> DEFINE asr == docs["Asr"]
           ranges == RuleRanges(asr.words)
           d == SplitInto(asr, ranges, "RuleSplit")
<1>1. IsDoc(asr) /\ asr.revision = 1 /\ asr.timeline = "AsrWords"
  BY DEF FlowInv, DocsOK, StageNames, NewAsr
<1>2. RuleSplitOf(asr) = d
  BY DEF RuleSplitOf, SplitInto
<1> HIDE DEF asr, ranges
<1>3. /\ IsDoc(d) /\ d.words = asr.words /\ d.timeline = asr.timeline
      /\ d.revision = asr.revision + 1
      /\ DOMAIN d.cues = DOMAIN ranges /\ \A c \in DOMAIN ranges : d.cues[c].range = ranges[c]
  BY <1>1, SplitDoc
<1> HIDE DEF d
<1> QED BY <1>1, <1>2, <1>3 DEF Real, asr, ranges

LEMMA ReplyDoc ==
    ASSUME NEW base, IsDoc(base), Real(base), NEW ranges, NEW ids
    PROVE  LET d == MarkFailed(ApplySplit(base, ranges), ids)
           IN  /\ IsDoc(d) /\ Real(d)
               /\ d.words = base.words /\ d.timeline = base.timeline
               /\ DOMAIN d.cues = DOMAIN ranges
               /\ \A c \in DOMAIN ranges : d.cues[c].range = ranges[c]
               /\ \A c \in DOMAIN ranges : c \in ids => d.cues[c].failed
<1> DEFINE split == ApplySplit(base, ranges)
<1>1. /\ IsDoc(split) /\ Real(split) /\ split.words = base.words
      /\ split.timeline = base.timeline /\ DOMAIN split.cues = DOMAIN ranges
      /\ \A c \in DOMAIN ranges : split.cues[c].range = ranges[c]
  <2>1. split = SplitInto(base, ranges, "Llm")
    BY DEF ApplySplit, SplitInto
  <2> QED BY <2>1, SplitDoc DEF Real, IsDoc
<1> HIDE DEF split
<1>2. Follows(MarkFailed(split, ids), split)
      /\ \A c \in DOMAIN split.cues : c \in ids => MarkFailed(split, ids).cues[c].failed
  BY <1>1, MarkFollows
<1>3. Real(MarkFailed(split, ids))
  BY <1>1, <1>2, RealFollows
<1> QED BY <1>1, <1>2, <1>3 DEF Follows, split

LEMMA SplitByRulesFlow == ASSUME FlowInv, SplitByRules PROVE FlowInv'
<1> DEFINE d == RuleSplitOf(docs["Asr"])
<1>1. IsDoc(d) /\ Real(d)
  BY RuleDoc
<1>2. edits = {}
  BY DEF FlowInv, EditsKept, Early, SplitByRules
<1>3. docs' = [docs EXCEPT !["Split"] = d] /\ UNCHANGED edits /\ pc = "Split" /\ pc' = "Plain"
  BY DEF SplitByRules
<1> HIDE DEF d
<1> QED BY <1>1, <1>2, <1>3, CommitFlow DEF Early, StageNames

LEMMA EndSplitFlow == ASSUME FlowInv, EndSplit PROVE FlowInv'
<1> DEFINE base == RuleSplitOf(docs["Asr"])
           split == ApplySplit(base, reply.ranges)
           d == MarkFailed(split, CuesWithin(split, reply.failed))
<1>1. pc = "Reply" /\ UNCHANGED edits
  BY DEF EndSplit
<1>2. CASE docs' = [docs EXCEPT !["Split"] = d] /\ pc' \in {"Correct", "Done"}
  <2>1. IsDoc(d) /\ Real(d)
    BY RuleDoc, ReplyDoc
  <2>2. \A e \in edits : ~e.kept
    BY <1>1 DEF FlowInv, DocsOK, EditsKept, IsEdit
  <2> HIDE DEF d
  <2> QED BY <1>1, <1>2, <2>1, <2>2, CommitFlow DEF Early, StageNames
<1>3. CASE pc' = "Stopped" /\ UNCHANGED docs
  BY <1>1, <1>3, QuietFlow DEF Early
<1> QED BY <1>2, <1>3 DEF EndSplit

LEMMA RewriteFollows ==
    ASSUME NEW input, IsDoc(input), NEW field \in Fields, NEW updates, NEW ids
    PROVE  LET n == MarkFailed(ApplyText(input, field, updates), ids)
           IN  Follows(n, input) /\ UsersStay(n, input)
<1> DEFINE text == ApplyText(input, field, updates)
<1>1. Follows(text, input) /\ UsersStay(text, input)
  BY ApplyTextFollows
<1> HIDE DEF text
<1>2. IsDoc(text) /\ DOMAIN text.cues = DOMAIN input.cues
  BY <1>1 DEF Follows
<1>3. Follows(MarkFailed(text, ids), text) /\ UsersStay(MarkFailed(text, ids), text)
  BY <1>2, MarkFollows
<1> QED BY <1>1, <1>2, <1>3, FollowsOn, UsersStayOn DEF text

\* Correct and Translate: what was typed into the input is in the result.
LEMMA RewriteFlow ==
    ASSUME FlowInv, NEW stage \in {"Correct", "Translate"}, pc = stage,
           NEW field \in Fields, NEW values,
           LET input == docs[IF stage = "Correct" THEN "Split" ELSE "Correct"]
           IN  Rewrite(stage, input, field, values),
           pc' = IF stage = "Correct" THEN "Translate" ELSE "Done"
    PROVE  FlowInv'
<1> DEFINE before == IF stage = "Correct" THEN "Split" ELSE "Correct"
           input == docs[before]
<1>1. /\ before \in StageNames \ {"Asr"} /\ Committed(before)
      /\ \A s \in StageNames : Committed(s) => Place(s) <= Place(before)
  BY Places DEF FlowInv, DocsOK, StageNames
<1>2. IsDoc(input) /\ Real(input)
  BY <1>1 DEF FlowInv, DocsOK
<1>3. PICK updates, ids :
          docs' = [docs EXCEPT ![stage] = MarkFailed(ApplyText(input, field, updates), ids)]
  BY DEF Rewrite
<1> DEFINE d == MarkFailed(ApplyText(input, field, updates), ids)
<1>4. Follows(d, input) /\ UsersStay(d, input)
  BY <1>2, RewriteFollows
<1>5. IsDoc(d) /\ Real(d)
  BY <1>2, <1>4, RealFollows DEF Follows
<1>6. ASSUME NEW e \in edits, e.kept
      PROVE  Retyped(e, stage) \/ HasWords(d, e)
  <2>1. IsEdit(e) /\ Place(e.stage) <= Place(before)
    BY <1>1, <1>6 DEF FlowInv, EditsKept, IsEdit
  <2>2. Place(before) >= Place(e.stage)
    BY <2>1, Places DEF IsEdit, StageNames
  <2>3. Retyped(e, before) \/ HasWords(input, e)
    BY <1>1, <1>6, <2>2 DEF FlowInv, EditsKept
  <2>4. Retyped(e, before) => Retyped(e, stage)
    <3>1. \A f \in edits : IsEdit(f)
      BY DEF FlowInv, EditsKept
    <3> QED BY <3>1, Places DEF Retyped, IsEdit, StageNames
  <2> QED BY <1>4, <2>1, <2>3, <2>4, FollowsHas
<1>7. UNCHANGED edits
  BY DEF Rewrite
<1> HIDE DEF d
<1> QED BY <1>3, <1>5, <1>6, <1>7, CommitFlow DEF Early, StageNames, d

LEMMA CorrectFlow == ASSUME FlowInv, Correct PROVE FlowInv'
<1>1. pc = "Correct" /\ pc' = "Translate"
      /\ Rewrite("Correct", docs["Split"], "text", Corrections)
  BY DEF Correct, Rewrite
<1> QED BY <1>1, RewriteFlow DEF Fields

LEMMA TranslateFlow == ASSUME FlowInv, Translate PROVE FlowInv'
<1>1. pc = "Translate" /\ pc' = "Done"
      /\ Rewrite("Translate", docs["Correct"], "translation", Translations)
  BY DEF Translate, Rewrite
<1> QED BY <1>1, RewriteFlow DEF Fields

\* What an edit is remembered as, and those that it replaces.
EditOf(id, field, value, read) ==
    [stage |-> Latest, id |-> id, field |-> field, value |-> value,
     read |-> read, kept |-> TRUE]
Replaced(edit) == {e \in edits : e.stage = Latest /\ SameField(e, edit)}
Older(e, edit) == [e EXCEPT !.kept = @ /\ e \notin Replaced(edit)]

LEMMA EditSays ==
    ASSUME EditCue
    PROVE  \E field \in Fields, value \in TypedTexts, shown \in StageNames,
              id \in CueIds(docs[Latest]) :
              /\ docs' = [docs EXCEPT ![Latest] = Edit(docs[Latest], id, field, value)]
              /\ LET edit == EditOf(id, field, value, docs[shown].revision)
                 IN  edits' = {Older(e, edit) : e \in edits} \union {edit}
<1>1. PICK shown \in StageNames, field \in Fields, value \in TypedTexts :
         \E id \in CueIds(docs[shown]) :
            /\ CanEdit(docs[Latest], id, docs[shown].revision)
            /\ docs' = [docs EXCEPT ![Latest] = Edit(docs[Latest], id, field, value)]
            /\ LET edit == EditOf(id, field, value, docs[shown].revision)
               IN  edits' = {Older(e, edit) : e \in edits} \union {edit}
  BY Zenon DEF EditCue, EditOf, Replaced, Older
<1>2. PICK id :
            /\ CanEdit(docs[Latest], id, docs[shown].revision)
            /\ docs' = [docs EXCEPT ![Latest] = Edit(docs[Latest], id, field, value)]
            /\ LET edit == EditOf(id, field, value, docs[shown].revision)
               IN  edits' = {Older(e, edit) : e \in edits} \union {edit}
  BY <1>1
<1>3. id \in CueIds(docs[Latest])
  BY <1>2 DEF CanEdit
<1> QED BY <1>2, <1>3

LEMMA EditFlow == ASSUME FlowInv, EditCue PROVE FlowInv'
<1> USE DEF FlowInv
<1>1. PICK s \in StageNames : Committed(s)
  BY DEF EditCue
<1> DEFINE last == Latest
           before == docs[last]
<1>2. /\ last \in StageNames /\ Committed(last)
      /\ \A t \in StageNames : Committed(t) => Place(t) <= Place(last)
  BY <1>1, LatestIsLast
<1>3. IsDoc(before)
  BY <1>2 DEF DocsOK
<1>4. PICK field \in Fields, value \in TypedTexts, shown \in StageNames, id \in CueIds(before) :
          /\ docs' = [docs EXCEPT ![last] = Edit(before, id, field, value)]
          /\ LET edit == EditOf(id, field, value, docs[shown].revision)
             IN  edits' = {Older(e, edit) : e \in edits} \union {edit}
  BY EditSays
<1>5. pc \in {"Stopped", "Done", "Imported"} /\ pc' = pc
  BY DEF EditCue
<1> DEFINE d == Edit(before, id, field, value)
           edit == EditOf(id, field, value, docs[shown].revision)
           old(e) == Older(e, edit)
<1>6. id \in DOMAIN before.cues
  BY <1>3, CuesByNumber
<1>7. last # "Asr"
  BY <1>6 DEF DocsOK, NewAsr
<1>8. Real(before)
  BY <1>2, <1>7 DEF DocsOK
<1>9. /\ Follows(d, before)
      /\ d.cues[id][field] = value /\ d.cues[id].origin[field] = "User"
      /\ \A c \in DOMAIN before.cues, f \in Fields :
            c # id \/ f # field => Stays(d.cues[c], before.cues[c], f)
  BY <1>3, <1>6, EditFollows
<1>10. IsDoc(d) /\ Real(d) /\ DOMAIN d.cues = DOMAIN before.cues
  BY <1>3, <1>8, <1>9, RealFollows DEF Follows
<1>11. /\ IsEdit(edit) /\ edit.stage = last /\ edit.id = id /\ edit.field = field
       /\ edit.kept /\ HasWords(d, edit)
  BY <1>2, <1>6, <1>7, <1>9, <1>10 DEF IsEdit, HasWords, EditOf
<1> HIDE DEF d
<1>12. /\ docs'[last] = d /\ DOMAIN docs' = StageNames
       /\ \A t \in StageNames \ {last} : docs'[t] = docs[t]
  BY <1>2, <1>4 DEF DocsOK, d
<1>13. \A t \in StageNames : Committed(t)' <=> Committed(t)
  BY <1>2, <1>10, <1>12, RealIsCommitted DEF Committed, NoDoc
<1>14. DocsOK'
  BY <1>2, <1>5, <1>7, <1>10, <1>12, <1>13 DEF DocsOK, Early, StageNames
<1>15. \A e \in edits : IsEdit(e) /\ (e.kept => Committed(e.stage) /\ Place(e.stage) <= Place(last))
  BY <1>2 DEF EditsKept, IsEdit
<1>16. \A e \in edits :
          /\ IsEdit(old(e)) /\ old(e).stage = e.stage /\ SameField(old(e), e)
          /\ old(e).value = e.value
          /\ old(e).kept <=> e.kept /\ ~(e.stage = last /\ SameField(e, edit))
  <2> SUFFICES ASSUME NEW e \in edits
               PROVE  /\ IsEdit(old(e)) /\ old(e).stage = e.stage /\ SameField(old(e), e)
                      /\ old(e).value = e.value
                      /\ old(e).kept <=> e.kept /\ ~(e.stage = last /\ SameField(e, edit))
    OBVIOUS
  <2>1. IsEdit(e)
    BY <1>15
  <2>2. e \in Replaced(edit) <=> e.stage = last /\ SameField(e, edit)
    BY DEF Replaced
  <2> HIDE DEF edit
  <2>3. /\ DOMAIN old(e) = DOMAIN e /\ old(e).kept = (e.kept /\ e \notin Replaced(edit))
        /\ \A g \in DOMAIN e \ {"kept"} : old(e)[g] = e[g]
    BY <2>1 DEF IsEdit, Older
  <2> HIDE DEF old
  <2> QED BY <2>1, <2>2, <2>3 DEF IsEdit, SameField
<1>17. edits' = {old(e) : e \in edits} \union {edit}
  BY <1>4
<1> HIDE DEF edit, old, last
<1>18. \A t \in StageNames : Committed(t) /\ Place(t) >= Place(last) => t = last
  BY <1>2, Places DEF StageNames
<1>19. ASSUME NEW e \in edits, NEW o, o = old(e), NEW t \in StageNames, Retyped(e, t),
              t # last \/ ~SameField(e, edit), Place(t) <= Place(last)
       PROVE  Retyped(o, t)'
  <2>1. PICK f \in edits : TypedLater(e, f) /\ Place(f.stage) <= Place(t)
    BY <1>19 DEF Retyped
  <2>2. ~(f.stage = last /\ SameField(f, edit))
    <3>1. SameField(f, edit) => SameField(e, edit)
      BY <2>1 DEF TypedLater, SameField
    <3>2. f.stage = last => t = last
      BY <1>2, <1>19, <2>1, Places DEF StageNames
    <3> QED BY <1>19, <3>1, <3>2
  <2>3. PICK g \in edits' : g = old(f)
    BY <1>17
  <2>4. g.kept /\ g.stage = f.stage /\ SameField(g, f)
    BY <1>16, <2>1, <2>2, <2>3 DEF TypedLater
  <2>5. SameField(o, g)
    BY <1>16, <1>19, <2>1, <2>4 DEF TypedLater, SameField
  <2>6. TypedLater(o, g) /\ Place(g.stage) <= Place(t)
    BY <1>16, <1>19, <2>1, <2>4, <2>5 DEF TypedLater
  <2> QED BY <2>6 DEF Retyped
<1>20. ASSUME NEW e \in edits, NEW o, o = old(e), o.kept, NEW t \in StageNames, Committed(t),
              Place(t) >= Place(e.stage)
       PROVE  Retyped(o, t)' \/ HasWords(docs'[t], o)
  <2>1. e.kept /\ ~(e.stage = last /\ SameField(e, edit)) /\ IsEdit(e)
    BY <1>15, <1>16, <1>20
  <2>2. Retyped(e, t) \/ HasWords(docs[t], e)
    BY <1>20, <2>1 DEF EditsKept
  <2>3. Place(t) <= Place(last)
    BY <1>2, <1>20
  <2>4. CASE t # last
    <3>1. HasWords(docs[t], e) => HasWords(docs'[t], o)
      BY <1>12, <1>16, <1>20, <2>4 DEF HasWords, SameField
    <3> QED BY <1>19, <1>20, <2>2, <2>3, <2>4, <3>1
  <2>5. CASE t = last /\ SameField(e, edit)
    <3>1. Place(e.stage) < Place(last)
      BY <1>2, <1>15, <2>1, <2>5, Places DEF IsEdit, StageNames
    <3>2. TypedLater(o, edit)
      BY <1>11, <1>16, <1>20, <2>5, <3>1 DEF TypedLater, SameField
    <3>3. PICK g \in edits' : g = edit
      BY <1>17
    <3>4. TypedLater(o, g) /\ Place(g.stage) <= Place(t)
      BY <1>2, <1>11, <2>5, <3>2, <3>3, Places DEF StageNames
    <3> QED BY <3>4 DEF Retyped
  <2>6. CASE t = last /\ ~SameField(e, edit)
    <3>1. HasWords(before, e) => HasWords(d, o)
      <4> SUFFICES ASSUME HasWords(before, e) PROVE HasWords(d, o)
        OBVIOUS
      <4>1. e.id \in DOMAIN before.cues /\ (e.id # id \/ e.field # field) /\ e.field \in Fields
        BY <1>11, <2>1, <2>6 DEF HasWords, SameField, IsEdit
      <4>2. Stays(d.cues[e.id], before.cues[e.id], e.field)
        BY <1>9, <4>1
      <4> QED BY <1>10, <1>16, <1>20, <4>1, <4>2 DEF HasWords, Stays, SameField
    <3> QED BY <1>12, <1>19, <1>20, <2>2, <2>3, <2>6, <3>1
  <2> QED BY <2>4, <2>5, <2>6
<1>21. \A e \in edits' : IsEdit(e)
  BY <1>11, <1>16, <1>17
<1>22. ASSUME NEW e \in edits', e.kept
       PROVE  /\ Committed(e.stage)'
              /\ \A t \in StageNames : Committed(t)' /\ Place(t) >= Place(e.stage) =>
                    Retyped(e, t)' \/ HasWords(docs'[t], e)
  <2>1. CASE e = edit
    BY <1>2, <1>11, <1>12, <1>13, <1>18, <2>1
  <2>2. ASSUME NEW o \in edits, e = old(o)
        PROVE  /\ Committed(e.stage)'
               /\ \A t \in StageNames : Committed(t)' /\ Place(t) >= Place(e.stage) =>
                     Retyped(e, t)' \/ HasWords(docs'[t], e)
    <3>1. o.kept /\ e.stage = o.stage /\ Committed(o.stage) /\ o.stage \in StageNames
      BY <1>15, <1>16, <1>22, <2>2 DEF IsEdit
    <3>2. \A t \in StageNames : Committed(t) /\ Place(t) >= Place(o.stage) =>
             Retyped(e, t)' \/ HasWords(docs'[t], e)
      BY <1>20, <1>22, <2>2
    <3> QED BY <1>13, <3>1, <3>2
  <2> QED BY <1>17, <2>1, <2>2
<1>23. EditsKept'
  <2>1. pc' \notin Early
    BY <1>5 DEF Early
  <2> QED BY <1>21, <1>22, <2>1 DEF EditsKept
<1> QED BY <1>14, <1>23

\* A retry takes transcripts away, and of what was typed into those nothing is
\* said any more.
LEMMA RetryFlow == ASSUME FlowInv, Retry PROVE FlowInv'
<1> USE DEF FlowInv
<1>1. PICK stage \in {"Split", "Correct", "Translate"} :
          /\ Committed(Stages[Place(stage) - 1])
          /\ docs' = [s \in StageNames |-> IF s \in Reopened(stage) THEN NoDoc ELSE docs[s]]
          /\ edits' = {[e EXCEPT !.kept = @ /\ e.stage \notin Reopened(stage)] : e \in edits}
          /\ pc' = IF stage = "Split" THEN "LlmSplit" ELSE stage
  BY DEF Retry
<1>2. Reopened(stage) = {s \in StageNames : Place(s) >= Place(stage)}
  BY DEF Reopened
<1>3. \A s \in StageNames : /\ s \in Reopened(stage) => docs'[s] = NoDoc
                            /\ s \notin Reopened(stage) => docs'[s] = docs[s]
  BY <1>1
<1>4. /\ \A s \in StageNames : s \in Reopened(stage) => ~Committed(s)'
      /\ \A s \in StageNames : s \notin Reopened(stage) => (Committed(s)' <=> Committed(s))
  BY <1>3 DEF Committed, NoDoc
<1>5. IsDoc(NoDoc)
  BY AsrDoc DEF NoDoc
<1>6. /\ "Asr" \notin Reopened(stage)
      /\ stage = "Split" => \A s \in StageNames \ {"Asr"} : s \in Reopened(stage)
      /\ stage = "Correct" => /\ Committed("Split") /\ "Split" \notin Reopened(stage)
                              /\ "Correct" \in Reopened(stage)
                              /\ "Translate" \in Reopened(stage)
      /\ stage = "Translate" => /\ Committed("Correct") /\ "Correct" \notin Reopened(stage)
                                /\ "Translate" \in Reopened(stage)
  BY <1>1, <1>2, Places DEF StageNames, Stages
<1>7. DocsOK'
  <2>1. DOMAIN docs' = StageNames
    BY <1>1
  <2>2. \A s \in StageNames : IsDoc(docs'[s])
    BY <1>3, <1>5 DEF DocsOK
  <2>3. docs'["Asr"] = NewAsr(docs'["Asr"].words)
    BY <1>3, <1>6 DEF DocsOK, StageNames
  <2>4. \A s \in StageNames \ {"Asr"} : Committed(s)' => Real(docs'[s])
    BY <1>3, <1>4 DEF DocsOK
  <2>5. /\ pc' \notin Early \union {"Reply"}
        /\ pc' = "LlmSplit" => stage = "Split"
        /\ pc' = "Correct" => stage = "Correct"
        /\ pc' = "Translate" => stage = "Translate"
    BY <1>1 DEF Early
  <2> QED BY <1>4, <1>6, <2>1, <2>2, <2>3, <2>4, <2>5 DEF DocsOK, StageNames
<1> DEFINE cut(e) == [e EXCEPT !.kept = @ /\ e.stage \notin Reopened(stage)]
<1>8. \A e \in edits :
         /\ IsEdit(e) /\ IsEdit(cut(e)) /\ cut(e).stage = e.stage /\ SameField(cut(e), e)
         /\ cut(e).value = e.value
         /\ cut(e).kept <=> e.kept /\ e.stage \notin Reopened(stage)
  <2> SUFFICES ASSUME NEW e \in edits
               PROVE  /\ IsEdit(e) /\ IsEdit(cut(e)) /\ cut(e).stage = e.stage
                      /\ SameField(cut(e), e) /\ cut(e).value = e.value
                      /\ cut(e).kept <=> e.kept /\ e.stage \notin Reopened(stage)
    OBVIOUS
  <2>1. IsEdit(e)
    BY DEF EditsKept
  <2>2. /\ DOMAIN cut(e) = DOMAIN e /\ cut(e).kept = (e.kept /\ e.stage \notin Reopened(stage))
        /\ \A g \in DOMAIN e \ {"kept"} : cut(e)[g] = e[g]
    BY <2>1 DEF IsEdit
  <2> HIDE DEF cut
  <2> QED BY <2>1, <2>2 DEF IsEdit, SameField
<1>9. edits' = {cut(e) : e \in edits}
  BY <1>1
<1> HIDE DEF cut
<1>10. ASSUME NEW e \in edits, cut(e).kept, NEW t \in StageNames, Committed(t)',
              Place(t) >= Place(e.stage)
       PROVE  Retyped(cut(e), t)' \/ HasWords(docs'[t], cut(e))
  <2>1. t \notin Reopened(stage) /\ Committed(t) /\ docs'[t] = docs[t]
    BY <1>3, <1>4, <1>10
  <2>2. Retyped(e, t) \/ HasWords(docs[t], e)
    BY <1>8, <1>10, <2>1 DEF EditsKept
  <2>3. HasWords(docs[t], e) => HasWords(docs'[t], cut(e))
    BY <1>8, <2>1 DEF HasWords, SameField
  <2>4. ASSUME NEW f \in edits, TypedLater(e, f), Place(f.stage) <= Place(t)
        PROVE  Retyped(cut(e), t)'
    <3>1. f.stage \notin Reopened(stage)
      BY <1>2, <1>8, <2>1, <2>4, Places DEF IsEdit, StageNames
    <3>2. cut(f) \in edits' /\ cut(f).kept /\ cut(f).stage = f.stage
      BY <1>8, <1>9, <2>4, <3>1 DEF TypedLater
    <3>3. SameField(cut(e), cut(f))
      BY <1>8, <2>4 DEF TypedLater, SameField
    <3>4. TypedLater(cut(e), cut(f))
      BY <1>8, <2>4, <3>2, <3>3 DEF TypedLater
    <3> QED BY <2>4, <3>2, <3>4 DEF Retyped
  <2> QED BY <2>2, <2>3, <2>4 DEF Retyped
<1>11. ASSUME NEW e \in edits', e.kept
       PROVE  /\ Committed(e.stage)'
              /\ \A t \in StageNames : Committed(t)' /\ Place(t) >= Place(e.stage) =>
                    Retyped(e, t)' \/ HasWords(docs'[t], e)
  <2>1. PICK o \in edits : e = cut(o)
    BY <1>9
  <2>2. o.kept /\ e.stage = o.stage /\ o.stage \in StageNames /\ o.stage \notin Reopened(stage)
    BY <1>8, <1>11, <2>1 DEF IsEdit
  <2>3. Committed(o.stage)
    BY <2>2 DEF EditsKept
  <2> QED BY <1>4, <1>10, <1>11, <2>1, <2>2, <2>3
<1>12. EditsKept'
  <2>1. pc' \notin Early
    BY <1>1 DEF Early
  <2>2. \A e \in edits' : IsEdit(e)
    BY <1>8, <1>9
  <2> QED BY <1>11, <2>1, <2>2 DEF EditsKept
<1> QED BY <1>7, <1>12

LEMMA FlowStep == FlowInv /\ [Next]_vars => FlowInv'
<1> SUFFICES ASSUME FlowInv, [Next]_vars PROVE FlowInv'
  OBVIOUS
<1>1. CASE Record \/ Speak \/ HearChunk \/ HearWhole
  <2>1. /\ UNCHANGED <<docs, edits>> /\ pc \in {"Start", "Speak", "Hear"}
        /\ pc' \in {"Speak", "Hear", "Refused"}
    <3>1. CASE Record \/ Speak
      BY <3>1 DEF Record, Speak
    <3>2. CASE HearChunk
      BY <3>2 DEF HearChunk
    <3>3. CASE HearWhole
      BY <3>3 DEF HearWhole
    <3> QED BY <1>1, <3>1, <3>2, <3>3
  <2> QED BY <2>1, QuietFlow DEF Early
<1>2. CASE BeginSplit
  BY <1>2, QuietFlow DEF BeginSplit, Early
<1>3. CASE AnswerSplit \/ DegradeSplit
  <2>1. /\ UNCHANGED <<docs, edits>>
        /\ pc' \in {pc, "Stopped"}
    BY <1>3 DEF AnswerSplit, DegradeSplit
  <2> QED BY <2>1, QuietFlow DEF Early
<1>4. CASE StageFails \/ UNCHANGED vars
  BY <1>4, QuietFlow DEF StageFails, vars, Early
<1> QED BY <1>1, <1>2, <1>3, <1>4, EndAsrFlow, ImportFlow, SplitByRulesFlow, EndSplitFlow,
           CorrectFlow, TranslateFlow, EditFlow, RetryFlow DEF Next

\* What the user typed last into a field of a cue is in the latest transcript as
\* long as the stage it was typed into is not done again, also where it is empty:
\* the stages write what they are told only where the field is not the user's
\* (apply_llm_text), mark_llm_failed and edits of other fields leave it alone, and a
\* retry takes away later transcripts only.
THEOREM UserWordsAreKept == Spec => []UserWordsStay
<1>1. FlowInv => UserWordsStay
  <2> SUFFICES ASSUME FlowInv, NEW e \in edits, e.kept
               PROVE  /\ Place(e.stage) <= Place(Latest)
                      /\ \/ \E f \in edits : TypedLater(e, f)
                         \/ CueOf(docs[Latest], e.id)[e.field] = e.value
    BY DEF UserWordsStay
  <2>1. IsEdit(e) /\ Committed(e.stage)
    BY DEF FlowInv, EditsKept
  <2>2. /\ Latest \in StageNames /\ Committed(Latest) /\ Place(e.stage) <= Place(Latest)
    BY <2>1, LatestIsLast DEF IsEdit
  <2>3. Retyped(e, Latest) \/ HasWords(docs[Latest], e)
    BY <2>1, <2>2, Places DEF FlowInv, EditsKept, IsEdit, StageNames
  <2>4. IsDoc(docs[Latest])
    BY <2>2 DEF FlowInv, DocsOK
  <2> QED BY <2>2, <2>3, <2>4, CuesByNumber DEF HasWords, Retyped
<1> QED BY <1>1, InitFlow, FlowStep, PTL DEF Spec

\* What an operation keeps of the cues' times.
Keeps(n, d) ==
    /\ DOMAIN n.cues = DOMAIN d.cues
    /\ n.cues = [c \in DOMAIN d.cues |-> n.cues[c]]
    /\ \A c \in DOMAIN d.cues : n.cues[c].times = d.cues[c].times

LEMMA WriteKeeps ==
    ASSUME NEW q, IsCue(q), NEW field \in Fields, NEW value, NEW origin
    PROVE  Write(q, field, value, origin).times = q.times
BY DEF IsCue, Write, Fields

\* A transcript with other cues.
LEMMA BumpedKeeps ==
    ASSUME NEW d, IsDoc(d), NEW cues, CuesNumbered(cues),
           DOMAIN cues = DOMAIN d.cues, cues = [c \in DOMAIN d.cues |-> cues[c]],
           \A c \in DOMAIN d.cues : cues[c].times = d.cues[c].times
    PROVE  Keeps(Bumped(d, cues), d)
<1>1. Bumped(d, cues).cues = cues
  BY BumpedDoc
<1> QED BY <1>1 DEF Keeps

LEMMA ApplyTextKeeps ==
    ASSUME NEW d, IsDoc(d), NEW field \in Fields, NEW updates
    PROVE  Keeps(ApplyText(d, field, updates), d)
<1> DEFINE New(c) == LET cue == d.cues[c]
                     IN  IF cue.id \in DOMAIN updates /\ cue.origin[field] # "User"
                         THEN Write(cue, field, updates[cue.id], "Llm") ELSE cue
           cues == [c \in DOMAIN d.cues |-> New(c)]
<1>1. ASSUME NEW c \in DOMAIN d.cues
      PROVE  /\ IsCue(New(c)) /\ New(c).id = c /\ New(c).times = d.cues[c].times
  <2>1. IsCue(d.cues[c]) /\ d.cues[c].id = c
    BY DEF IsDoc, CuesNumbered
  <2>2. CASE d.cues[c].id \in DOMAIN updates /\ d.cues[c].origin[field] # "User"
    BY <2>1, <2>2, WriteCue, WriteKeeps
  <2>3. CASE ~(d.cues[c].id \in DOMAIN updates /\ d.cues[c].origin[field] # "User")
    BY <2>1, <2>3
  <2> QED BY <2>2, <2>3
<1>2. /\ DOMAIN cues = DOMAIN d.cues /\ \A c \in DOMAIN d.cues : cues[c] = New(c)
      /\ cues = [c \in DOMAIN d.cues |-> cues[c]]
  OBVIOUS
<1>3. ApplyText(d, field, updates) = Bumped(d, cues)
  BY DEF ApplyText
<1> HIDE DEF New, cues
<1>4. CuesNumbered(cues)
  BY <1>1, <1>2 DEF CuesNumbered
<1>5. \A c \in DOMAIN d.cues : cues[c].times = d.cues[c].times
  BY <1>1, <1>2
<1> QED BY <1>2, <1>3, <1>4, <1>5, BumpedKeeps

LEMMA MarkKeeps ==
    ASSUME NEW d, IsDoc(d), NEW ids
    PROVE  Keeps(MarkFailed(d, ids), d)
<1> DEFINE New(c) == [d.cues[c] EXCEPT !.failed = @ \/ d.cues[c].id \in ids]
           cues == [c \in DOMAIN d.cues |-> New(c)]
<1>1. ASSUME NEW c \in DOMAIN d.cues
      PROVE  /\ IsCue(New(c)) /\ New(c).id = c /\ New(c).times = d.cues[c].times
  <2>1. IsCue(d.cues[c]) /\ d.cues[c].id = c
    BY DEF IsDoc, CuesNumbered
  <2>2. \A g \in {"id", "times", "origin"} : New(c)[g] = d.cues[c][g]
    BY <2>1 DEF IsCue
  <2>3. IsCue(New(c))
    BY <2>1 DEF IsCue
  <2> QED BY <2>1, <2>2, <2>3
<1>2. /\ DOMAIN cues = DOMAIN d.cues /\ \A c \in DOMAIN d.cues : cues[c] = New(c)
      /\ cues = [c \in DOMAIN d.cues |-> cues[c]]
  OBVIOUS
<1>3. MarkFailed(d, ids) = Bumped(d, cues)
  BY DEF MarkFailed
<1> HIDE DEF New, cues
<1>4. CuesNumbered(cues)
  BY <1>1, <1>2 DEF CuesNumbered
<1>5. \A c \in DOMAIN d.cues : cues[c].times = d.cues[c].times
  BY <1>1, <1>2
<1> QED BY <1>2, <1>3, <1>4, <1>5, BumpedKeeps

LEMMA EditKeeps ==
    ASSUME NEW d, IsDoc(d), NEW id, NEW field \in Fields, NEW value
    PROVE  Keeps(Edit(d, id, field, value), d)
<1> DEFINE New(c) == IF d.cues[c].id = id
                     THEN Write(d.cues[c], field, value, "User") ELSE d.cues[c]
           cues == [c \in DOMAIN d.cues |-> New(c)]
<1>1. ASSUME NEW c \in DOMAIN d.cues
      PROVE  /\ IsCue(New(c)) /\ New(c).id = c /\ New(c).times = d.cues[c].times
  <2>1. IsCue(d.cues[c]) /\ d.cues[c].id = c
    BY DEF IsDoc, CuesNumbered
  <2>2. CASE c = id
    BY <2>1, <2>2, WriteCue, WriteKeeps
  <2>3. CASE c # id
    BY <2>1, <2>3
  <2> QED BY <2>2, <2>3
<1>2. /\ DOMAIN cues = DOMAIN d.cues /\ \A c \in DOMAIN d.cues : cues[c] = New(c)
      /\ cues = [c \in DOMAIN d.cues |-> cues[c]]
  OBVIOUS
<1>3. Edit(d, id, field, value) = Bumped(d, cues)
  BY DEF Edit
<1> HIDE DEF New, cues
<1>4. CuesNumbered(cues)
  BY <1>1, <1>2 DEF CuesNumbered
<1>5. \A c \in DOMAIN d.cues : cues[c].times = d.cues[c].times
  BY <1>1, <1>2
<1> QED BY <1>2, <1>3, <1>4, <1>5, BumpedKeeps


-----------------------------------------------------------------------------
(* The cues of recognised words, and what was degraded of them. *)

IsSeq(s) == s \in Seq(Elements(s))

\* The cues are ranges of words, one after the other, to the last.
Parted(d) ==
    \E n \in Nat :
        /\ DOMAIN d.cues = 1 .. n
        /\ d.words # <<>> => n > 0
        /\ n > 0 => d.cues[n].range[2] = Len(d.words)
        /\ \A c \in 1 .. n :
              /\ d.cues[c].range \in Nat \X Nat
              /\ d.cues[c].range[1] < d.cues[c].range[2]
              /\ d.cues[c].range[2] - d.cues[c].range[1] <= 2 * MaxWords(d.words)
              /\ d.cues[c].range[1] = IF c = 1 THEN 0 ELSE d.cues[c - 1].range[2]

\* A reader of the transcript sees that these words were given up on.
Tells(d, range) ==
    \A c \in DOMAIN d.cues :
        range[1] <= d.cues[c].range[1] /\ d.cues[c].range[2] <= range[2] => d.cues[c].failed

\* The words of an audio, and of the parts of one, are sequences.
WordsListed ==
    /\ IsSeq(heard) /\ IsSeq(docs["Asr"].words)
    /\ pc = "Speak" => DOMAIN source = {"route", "plan", "duration", "spoken", "chunk"}
    /\ pc = "Hear" =>
          \/ source.plan = <<>> /\ source.chunk = 1
          \/ /\ DOMAIN source = {"route", "plan", "duration", "spoken", "chunk"}
             /\ IsSeq(source.spoken)

CutsOK ==
    /\ pc # "Imported" => \A s \in StageNames : docs[s].timeline = "AsrWords"
    /\ \A s \in StageNames \ {"Asr"} :
          \/ docs[s].timeline = "AsrWords" /\ Parted(docs[s])
          \/ docs[s].timeline = "ImportedCue" /\ docs[s].words = <<>>

\* What the replies so far make of the cues of the rules.
ReplyOK ==
    pc = "Reply" =>
        /\ DOMAIN reply = {"base", "ranges", "next", "failed", "asked", "exact"}
        /\ reply.base = RuleSplitOf(docs["Asr"]).cues
        /\ reply.next \in Nat \ {0}
        /\ reply.ranges \in RangeList
        /\ \A i \in DOMAIN reply.ranges :
              reply.ranges[i][2] - reply.ranges[i][1] <= 2 * MaxWords(docs["Asr"].words)

ToldKept ==
    \A t \in told :
        /\ t[1] \in StageNames \ {"Asr"} /\ Committed(t[1])
        /\ \A s \in StageNames : Committed(s) /\ Place(s) >= Place(t[1]) => Tells(docs[s], t[2])

CueInv == FlowInv /\ WordsListed /\ CutsOK /\ ReplyOK /\ ToldKept

-----------------------------------------------------------------------------
(* Sequences. *)

LEMMA ListIsSeq == ASSUME NEW X, NEW s \in Seq(X) PROVE IsSeq(s)
<1>1. DOMAIN s = 1 .. Len(s) /\ Len(s) \in Nat /\ s = [i \in 1 .. Len(s) |-> s[i]]
  OBVIOUS
<1>2. \A i \in 1 .. Len(s) : s[i] \in Elements(s)
  BY <1>1 DEF Elements
<1> QED BY <1>1, <1>2 DEF IsSeq

LEMMA EmptyIsSeq == IsSeq(<<>>)
BY DEF IsSeq

LEMMA FunctionIsSeq ==
    ASSUME NEW n \in Nat, NEW f, f = [i \in 1 .. n |-> f[i]]
    PROVE  IsSeq(f) /\ Len(f) = n
<1>1. \A i \in 1 .. n : f[i] \in Elements(f)
  BY DEF Elements
<1> QED BY <1>1 DEF IsSeq

LEMMA JoinedIsSeq == ASSUME NEW s, NEW t, IsSeq(s), IsSeq(t) PROVE IsSeq(s \o t)
<1> DEFINE X == Elements(s) \union Elements(t)
<1>1. s \in Seq(X) /\ t \in Seq(X)
  BY DEF IsSeq
<1> HIDE DEF X
<1>2. s \o t \in Seq(X)
  BY <1>1
<1> QED BY <1>2, ListIsSeq

LEMMA ThoseIsSeq == ASSUME NEW s, IsSeq(s), NEW V PROVE IsSeq(Those(s, V))
BY ThoseSeq, ListIsSeq DEF IsSeq

LEMMA DomainOfSeq ==
    ASSUME NEW s, IsSeq(s)
    PROVE  DOMAIN s = 1 .. Len(s) /\ Len(s) \in Nat
BY DEF IsSeq

LEMMA NormalIsSeq == ASSUME NEW raw, IsSeq(raw), NEW duration PROVE IsSeq(Normal(raw, duration))
<1> DEFINE clipped == [i \in DOMAIN raw |-> Clipped(raw[i], duration)]
           Mend(i) == [clipped[i] EXCEPT !.end = Larger(@, clipped[i].start)]
           mended == [i \in DOMAIN raw |-> Mend(i)]
<1>1. DOMAIN raw = 1 .. Len(raw) /\ Len(raw) \in Nat
  BY DomainOfSeq
<1>2. Normal(raw, duration) = Those(mended, {w \in Elements(mended) : w.text # "Blank"})
  BY DEF Normal
<1> HIDE DEF Mend
<1>3. mended = [i \in 1 .. Len(raw) |-> mended[i]]
  BY <1>1
<1> HIDE DEF mended
<1>4. IsSeq(mended)
  BY <1>1, <1>3, FunctionIsSeq
<1> QED BY <1>2, <1>4, ThoseIsSeq

LEMMA ExtractIsSeq ==
    ASSUME NEW spoken, IsSeq(spoken), NEW window, NEW raw \in ExtractRange(spoken, window)
    PROVE  IsSeq(raw)
<1> DEFINE Inside(w) == window[1] <= w.start /\ w.end <= window[2]
           Cut(w) == ~Inside(w) /\ w.start < window[2] /\ w.end > window[1]
           Heard(w) == [w EXCEPT !.start = Larger(@, window[1]) - window[1],
                                 !.end = Smaller(@, window[2]) - window[1]]
           all == [i \in DOMAIN spoken |-> i]
           Chosen(kept) == Those(all, kept \union {i \in DOMAIN spoken : Inside(spoken[i])})
           Made(s) == [j \in DOMAIN s |-> Heard(spoken[s[j]])]
<1>1. DOMAIN spoken = 1 .. Len(spoken) /\ Len(spoken) \in Nat
  BY DomainOfSeq
<1>2. all = [i \in 1 .. Len(spoken) |-> all[i]]
  BY <1>1
<1>3. PICK kept \in SUBSET {i \in DOMAIN spoken : Cut(spoken[i])} : raw = Made(Chosen(kept))
  BY DEF ExtractRange
<1> HIDE DEF all
<1>4. IsSeq(Chosen(kept))
  BY <1>1, <1>2, FunctionIsSeq, ThoseIsSeq
<1> HIDE DEF Chosen, Heard
<1>5. \A s : IsSeq(s) => IsSeq(Made(s))
  <2> SUFFICES ASSUME NEW s, IsSeq(s) PROVE IsSeq(Made(s))
    OBVIOUS
  <2>1. DOMAIN s = 1 .. Len(s) /\ Len(s) \in Nat
    BY DomainOfSeq
  <2> DEFINE made == Made(s)
  <2>2. made = [j \in 1 .. Len(s) |-> made[j]]
    BY <2>1
  <2> HIDE DEF made
  <2>3. IsSeq(made)
    BY <2>1, <2>2, FunctionIsSeq
  <2> QED BY <2>3 DEF made
<1> HIDE DEF Made
<1> QED BY <1>3, <1>4, <1>5

LEMMA AppendedIsSeq ==
    ASSUME NEW words, IsSeq(words), NEW more, IsSeq(more), NEW chunk
    PROVE  IsSeq(AppendChunkWords(words, more, chunk))
<1> DEFINE moved == ApplyChunkOffset(more, chunk.read[1])
<1>1. DOMAIN more = 1 .. Len(more) /\ Len(more) \in Nat
  BY DomainOfSeq
<1>2. moved = [i \in 1 .. Len(more) |-> moved[i]]
  BY <1>1 DEF ApplyChunkOffset
<1> HIDE DEF moved
<1>3. IsSeq(RetainCoreWords(moved, chunk))
  BY <1>1, <1>2, FunctionIsSeq, ThoseIsSeq DEF RetainCoreWords
<1> QED BY <1>3, JoinedIsSeq DEF AppendChunkWords, moved

LEMMA SpreadIsSeq ==
    ASSUME NEW max \in Nat, NEW texts, NEW gaps, NEW raw \in SpreadWords(max, texts, gaps)
    PROVE  IsSeq(raw)
<1>1. PICK n \in 1 .. max : \E t \in [1 .. n -> texts] : \E g : raw = Spread(t, g)
  BY DEF SpreadWords
<1>2. PICK t \in [1 .. n -> texts] : \E g : raw = Spread(t, g)
  BY <1>1
<1>3. DOMAIN t = 1 .. n /\ n \in Nat
  OBVIOUS
<1>4. raw = [i \in 1 .. n |-> raw[i]]
  BY <1>2, <1>3 DEF Spread
<1> QED BY <1>3, <1>4, FunctionIsSeq

LEMMA SpeechIsSeq == ASSUME NEW duration, NEW words \in Speech(duration) PROVE IsSeq(words)
<1>1. PICK S : (\E w \in S : words = <<w>>) \/ words \in S \X S
  BY DEF Speech
<1>2. CASE \E w \in S : words = <<w>>
  <2>1. PICK w \in S : words = <<w>>
    BY <1>2
  <2>2. <<w>> \in Seq(S)
    OBVIOUS
  <2> QED BY <2>1, <2>2, ListIsSeq
<1>3. CASE words \in S \X S
  <2>1. PICK v \in S, w \in S : words = <<v, w>>
    BY <1>3
  <2>2. <<v, w>> \in Seq(S)
    OBVIOUS
  <2> QED BY <2>1, <2>2, ListIsSeq
<1> QED BY <1>1, <1>2, <1>3

-----------------------------------------------------------------------------
(* The words of the transcripts. *)

\* An edit changes the latest transcript, and that has cues.
LEMMA EditedIsLatest ==
    ASSUME FlowInv, EditCue
    PROVE  \E last \in StageNames \ {"Asr"} : \E d :
              /\ Committed(last) /\ \A t \in StageNames : Committed(t) => Place(t) <= Place(last)
              /\ docs' = [docs EXCEPT ![last] = d]
              /\ Follows(d, docs[last]) /\ Keeps(d, docs[last])
<1>1. PICK s \in StageNames : Committed(s)
  BY DEF EditCue
<1> DEFINE last == Latest
           before == docs[last]
<1>2. /\ last \in StageNames /\ Committed(last)
      /\ \A t \in StageNames : Committed(t) => Place(t) <= Place(last)
  BY <1>1, LatestIsLast
<1>3. IsDoc(before)
  BY <1>2 DEF FlowInv, DocsOK
<1>4. PICK field \in Fields, value \in TypedTexts, id \in CueIds(before) :
          docs' = [docs EXCEPT ![last] = Edit(before, id, field, value)]
  BY DEF EditCue, CanEdit
<1>5. id \in DOMAIN before.cues
  BY <1>3, CuesByNumber
<1>6. last # "Asr"
  BY <1>5 DEF FlowInv, DocsOK, NewAsr
<1>7. /\ Follows(Edit(before, id, field, value), before)
      /\ Keeps(Edit(before, id, field, value), before)
  BY <1>3, <1>5, EditFollows, EditKeeps
<1> HIDE DEF last
<1> QED BY <1>2, <1>4, <1>6, <1>7

LEMMA AsrStays ==
    ASSUME FlowInv, [Next]_vars, ~EndAsr
    PROVE  docs'["Asr"] = docs["Asr"]
<1>1. DOMAIN docs = StageNames /\ "Asr" \in StageNames
  BY DEF FlowInv, DocsOK, StageNames
<1>2. CASE UNCHANGED docs
  BY <1>2
<1>3. CASE \E s \in StageNames \ {"Asr"} : \E d : docs' = [docs EXCEPT ![s] = d]
  BY <1>1, <1>3
<1>4. CASE Record \/ Speak \/ HearChunk \/ HearWhole
  <2>1. Record \/ Speak => UNCHANGED docs
    BY DEF Record, Speak
  <2>2. HearChunk => UNCHANGED docs
    BY DEF HearChunk
  <2>3. HearWhole => UNCHANGED docs
    BY DEF HearWhole
  <2> QED BY <1>2, <1>4, <2>1, <2>2, <2>3
<1>5. CASE BeginSplit \/ AnswerSplit \/ DegradeSplit \/ StageFails \/ UNCHANGED vars
  BY <1>2, <1>5 DEF BeginSplit, AnswerSplit, DegradeSplit, StageFails, vars
<1>6. CASE Import
  BY <1>2, <1>3, <1>6 DEF Import, StageNames
<1>7. CASE SplitByRules
  BY <1>3, <1>7 DEF SplitByRules, StageNames
<1>8. CASE EndSplit
  BY <1>2, <1>3, <1>8 DEF EndSplit, StageNames
<1>9. CASE Correct \/ Translate
  <2>1. \E s \in {"Correct", "Translate"} : \E d : docs' = [docs EXCEPT ![s] = d]
    BY <1>9 DEF Correct, Translate, Rewrite
  <2> QED BY <1>3, <2>1 DEF StageNames
<1>10. CASE EditCue
  BY <1>3, <1>10, EditedIsLatest
<1>11. CASE Retry
  <2>1. PICK stage \in {"Split", "Correct", "Translate"} :
            docs' = [s \in StageNames |-> IF s \in Reopened(stage) THEN NoDoc ELSE docs[s]]
    BY <1>11 DEF Retry
  <2>2. "Asr" \notin Reopened(stage)
    BY Places DEF Reopened
  <2> QED BY <1>1, <2>1, <2>2
<1> QED BY <1>4, <1>5, <1>6, <1>7, <1>8, <1>9, <1>10, <1>11 DEF Next

LEMMA WordsStart == Init => WordsListed
<1> SUFFICES ASSUME Init PROVE WordsListed
  OBVIOUS
<1>1. heard = <<>> /\ docs["Asr"] = NoDoc /\ pc = "Start"
  BY DEF Init, StageNames
<1>2. IsSeq(<<>>)
  BY EmptyIsSeq
<1> QED BY <1>1, <1>2 DEF WordsListed, NoDoc, NewAsr

LEMMA WordsStep ==
    ASSUME FlowInv, WordsListed, [Next]_vars
    PROVE  WordsListed'
<1>1. IsSeq(heard) /\ IsSeq(docs["Asr"].words)
  BY DEF WordsListed
<1>2. CASE EndAsr
  <2>1. heard' = <<>> /\ pc' \in {"LlmSplit", "Split", "Refused"}
        /\ \/ docs' = [docs EXCEPT !["Asr"] = NewAsr(heard)]
           \/ docs' = docs
    BY <1>2 DEF EndAsr
  <2>2. IsSeq(docs'["Asr"].words)
    BY <1>1, <2>1 DEF FlowInv, DocsOK, StageNames, NewAsr
  <2>3. IsSeq(<<>>)
    BY EmptyIsSeq
  <2> QED BY <2>1, <2>2, <2>3 DEF WordsListed, IsSeq, Elements
<1> SUFFICES ASSUME ~EndAsr PROVE WordsListed'
  BY <1>2
<1>3. IsSeq(docs'["Asr"].words)
  BY <1>1, AsrStays
<1>4. CASE IsSeq(heard') /\ pc' \notin {"Speak", "Hear"}
  BY <1>3, <1>4 DEF WordsListed, IsSeq, Elements
<1>5. CASE Record
  <2>1. /\ UNCHANGED heard
        /\ \/ /\ DOMAIN source' = {"route", "plan", "duration", "spoken", "chunk"}
              /\ pc' = "Speak"
           \/ pc' = "Refused"
    BY <1>5 DEF Record
  <2> QED BY <1>1, <1>3, <2>1 DEF WordsListed, IsSeq, Elements
<1>6. CASE Speak
  <2>1. PICK words \in Speech(source.duration) :
            source' = [source EXCEPT !.spoken = words, !.chunk = 1]
    BY <1>6 DEF Speak
  <2>2. pc = "Speak" /\ pc' = "Hear" /\ UNCHANGED heard
    BY <1>6 DEF Speak
  <2>3. DOMAIN source' = {"route", "plan", "duration", "spoken", "chunk"}
        /\ source'.spoken = words
    BY <2>1, <2>2 DEF WordsListed
  <2>4. IsSeq(words)
    BY SpeechIsSeq
  <2> QED BY <1>1, <1>3, <2>2, <2>3, <2>4 DEF WordsListed, IsSeq, Elements
<1>7. CASE HearChunk
  <2>1. pc = "Hear" /\ source.chunk <= Len(source.plan)
    BY <1>7 DEF HearChunk
  <2>2. Len(<<>>) = 0
    OBVIOUS
  <2>3. /\ DOMAIN source = {"route", "plan", "duration", "spoken", "chunk"}
        /\ IsSeq(source.spoken)
    BY <2>1, <2>2 DEF WordsListed
  <2> DEFINE chunk == source.plan[source.chunk]
             window == chunk.read
             length == window[2] - window[1]
  <2>4. PICK raw \in ExtractRange(source.spoken, window) :
            \/ /\ heard' = AppendChunkWords(heard, Normal(raw, length), chunk)
               /\ source' = [source EXCEPT !.chunk = @ + 1] /\ pc' = pc
            \/ pc' = "Refused" /\ UNCHANGED <<heard, source>>
    BY <1>7 DEF HearChunk
  <2> HIDE DEF chunk, window, length
  <2>5. IsSeq(AppendChunkWords(heard, Normal(raw, length), chunk))
    BY <1>1, <2>3, ExtractIsSeq, NormalIsSeq, AppendedIsSeq
  <2>6. CASE /\ heard' = AppendChunkWords(heard, Normal(raw, length), chunk)
             /\ source' = [source EXCEPT !.chunk = @ + 1] /\ pc' = pc
    <3>1. IsSeq(heard') /\ IsSeq(source'.spoken)
          /\ DOMAIN source' = {"route", "plan", "duration", "spoken", "chunk"}
      BY <2>3, <2>5, <2>6
    <3> QED BY <1>3, <2>1, <2>6, <3>1 DEF WordsListed, IsSeq, Elements
  <2>7. CASE pc' = "Refused" /\ UNCHANGED <<heard, source>>
    BY <1>1, <1>4, <2>7
  <2> QED BY <2>4, <2>6, <2>7
<1>8. CASE HearWhole
  <2>1. CASE pc' = "Refused" /\ UNCHANGED heard
    BY <1>1, <1>4, <2>1
  <2>2. ASSUME NEW raw, NEW length, IsSeq(raw), pc' = "Hear", heard' = Normal(raw, length),
               source'.plan = <<>>, source'.chunk = 1
        PROVE  WordsListed'
    <3>1. IsSeq(heard')
      BY <2>2, NormalIsSeq
    <3> QED BY <1>3, <2>2, <3>1 DEF WordsListed, IsSeq, Elements
  <2>3. PICK route \in {"Whole", "Llm", "Noisy"} :
          \E raw \in CASE route = "Whole" -> SpreadWords(RuleWords, RuleTexts, RuleGaps)
                       [] route = "Llm" -> SpreadWords(LlmWords, LlmTexts, LlmGaps)
                       [] route = "Noisy" ->
                            [1 .. 2 -> {Word(s, e, t) : s \in NoiseTimes, e \in NoiseTimes,
                                                        t \in {"Letter", "Blank"}}] :
             LET length == IF route = "Noisy" THEN 2 ELSE raw[Len(raw)].end
             IN  IF CanNormalize(raw, length)
                 THEN /\ heard' = Normal(raw, length) /\ pc' = "Hear"
                      /\ source' = [route |-> route, plan |-> <<>>, chunk |-> 1]
                 ELSE pc' = "Refused" /\ UNCHANGED <<heard, source>>
    BY <1>8 DEF HearWhole
  <2> DEFINE noise == {Word(s, e, t) : s \in NoiseTimes, e \in NoiseTimes,
                                       t \in {"Letter", "Blank"}}
  <2>4. PICK raw \in CASE route = "Whole" -> SpreadWords(RuleWords, RuleTexts, RuleGaps)
                       [] route = "Llm" -> SpreadWords(LlmWords, LlmTexts, LlmGaps)
                       [] route = "Noisy" -> [1 .. 2 -> noise] :
          \/ \E length : /\ heard' = Normal(raw, length) /\ pc' = "Hear"
                         /\ source' = [route |-> route, plan |-> <<>>, chunk |-> 1]
          \/ pc' = "Refused" /\ UNCHANGED <<heard, source>>
    BY <2>3
  <2> HIDE DEF noise
  <2>5. IsSeq(raw)
    <3>1. CASE route = "Noisy"
      <4>1. raw \in [1 .. 2 -> noise]
        BY <2>4, <3>1
      <4>2. raw = [i \in 1 .. 2 |-> raw[i]]
        BY <4>1
      <4> QED BY <4>2, FunctionIsSeq
    <3>2. RuleWords \in Nat /\ LlmWords \in Nat
      BY FlowAssumption
    <3>3. CASE route = "Whole"
      BY <2>4, <3>2, <3>3, SpreadIsSeq
    <3>4. CASE route = "Llm"
      BY <2>4, <3>2, <3>4, SpreadIsSeq
    <3> QED BY <3>1, <3>3, <3>4
  <2>6. ASSUME NEW length, heard' = Normal(raw, length), pc' = "Hear",
               source' = [route |-> route, plan |-> <<>>, chunk |-> 1]
        PROVE  WordsListed'
    BY <2>2, <2>5, <2>6
  <2> QED BY <2>1, <2>4, <2>6
<1>9. CASE Import
  BY <1>1, <1>4, <1>9 DEF Import
<1>10. CASE SplitByRules \/ BeginSplit \/ AnswerSplit \/ DegradeSplit \/ EndSplit
  <2>1. UNCHANGED heard /\ pc' \in {"Plain", "Stopped", "Reply", "Correct", "Done", pc}
        /\ pc \in {"Split", "LlmSplit", "Reply"}
    BY <1>10 DEF SplitByRules, BeginSplit, AnswerSplit, DegradeSplit, EndSplit
  <2> QED BY <1>1, <1>4, <2>1
<1>11. CASE Correct \/ Translate \/ StageFails \/ EditCue \/ Retry
  <2>1. UNCHANGED heard /\ pc' \notin {"Speak", "Hear"}
    BY <1>11 DEF Correct, Translate, Rewrite, StageFails, EditCue, Retry
  <2> QED BY <1>1, <1>4, <2>1
<1>12. CASE UNCHANGED vars
  BY <1>12 DEF WordsListed, IsSeq, Elements, vars
<1> QED BY <1>5, <1>6, <1>7, <1>8, <1>9, <1>10, <1>11, <1>12 DEF Next

-----------------------------------------------------------------------------
(* How the cues lie over the words. *)

LEMMA FollowsParted == ASSUME NEW d, NEW n, Parted(d), Follows(n, d) PROVE Parted(n)
<1>1. /\ n.words = d.words /\ DOMAIN n.cues = DOMAIN d.cues
      /\ \A c \in DOMAIN d.cues : n.cues[c].range = d.cues[c].range
  BY DEF Follows
<1>2. PICK k \in Nat :
        /\ DOMAIN d.cues = 1 .. k
        /\ d.words # <<>> => k > 0
        /\ k > 0 => d.cues[k].range[2] = Len(d.words)
        /\ \A c \in 1 .. k :
              /\ d.cues[c].range \in Nat \X Nat
              /\ d.cues[c].range[1] < d.cues[c].range[2]
              /\ d.cues[c].range[2] - d.cues[c].range[1] <= 2 * MaxWords(d.words)
              /\ d.cues[c].range[1] = IF c = 1 THEN 0 ELSE d.cues[c - 1].range[2]
  BY DEF Parted
<1>3. \A c \in 1 .. k : n.cues[c].range = d.cues[c].range
  BY <1>1, <1>2
<1>4. \A c \in 1 .. k : c # 1 => n.cues[c - 1].range = d.cues[c - 1].range
  BY <1>3
<1>5. k > 0 => n.cues[k].range[2] = Len(n.words)
  BY <1>1, <1>2, <1>3
<1>6. \A c \in 1 .. k :
        /\ n.cues[c].range \in Nat \X Nat
        /\ n.cues[c].range[1] < n.cues[c].range[2]
        /\ n.cues[c].range[2] - n.cues[c].range[1] <= 2 * MaxWords(n.words)
        /\ n.cues[c].range[1] = IF c = 1 THEN 0 ELSE n.cues[c - 1].range[2]
  BY <1>1, <1>2, <1>3, <1>4
<1> QED BY <1>1, <1>2, <1>5, <1>6 DEF Parted

LEMMA FollowsTells ==
    ASSUME NEW d, NEW n, NEW range, Tells(d, range), Follows(n, d)
    PROVE  Tells(n, range)
BY DEF Tells, Follows

\* Ranges that are one after the other make such a transcript.
LEMMA RangesParted ==
    ASSUME NEW d, NEW ranges \in RangeList,
           DOMAIN d.cues = DOMAIN ranges,
           \A c \in DOMAIN ranges : d.cues[c].range = ranges[c],
           d.words # <<>> => ranges # <<>>,
           ranges # <<>> => ranges[Len(ranges)][2] = Len(d.words),
           \A c \in DOMAIN ranges :
              /\ ranges[c][1] < ranges[c][2]
              /\ ranges[c][2] - ranges[c][1] <= 2 * MaxWords(d.words)
              /\ ranges[c][1] = IF c = 1 THEN 0 ELSE ranges[c - 1][2]
    PROVE  Parted(d)
<1> DEFINE n == Len(ranges)
<1>1. /\ n \in Nat /\ DOMAIN ranges = 1 .. n
      /\ ranges # <<>> => n > 0
      /\ n > 0 => ranges # <<>>
      /\ \A c \in 1 .. n : ranges[c] \in Nat \X Nat
  BY DEF RangeList
<1> HIDE DEF n
<1>2. \A c \in 1 .. n : ranges[c][1] \in Nat /\ ranges[c][2] \in Nat
  BY <1>1
<1>3. n > 0 => d.cues[n].range[2] = Len(d.words)
  BY <1>1 DEF n
<1>4. \A c \in 1 .. n : d.cues[c].range = ranges[c]
  BY <1>1
<1>5. \A c \in 1 .. n : c # 1 => d.cues[c - 1].range = ranges[c - 1]
  BY <1>1, <1>4
<1>6. \A c \in 1 .. n :
        /\ d.cues[c].range \in Nat \X Nat
        /\ d.cues[c].range[1] < d.cues[c].range[2]
        /\ d.cues[c].range[2] - d.cues[c].range[1] <= 2 * MaxWords(d.words)
        /\ d.cues[c].range[1] = IF c = 1 THEN 0 ELSE d.cues[c - 1].range[2]
  <2> SUFFICES ASSUME NEW c \in 1 .. n
               PROVE  /\ d.cues[c].range \in Nat \X Nat
                      /\ d.cues[c].range[1] < d.cues[c].range[2]
                      /\ d.cues[c].range[2] - d.cues[c].range[1] <= 2 * MaxWords(d.words)
                      /\ d.cues[c].range[1] = IF c = 1 THEN 0 ELSE d.cues[c - 1].range[2]
    OBVIOUS
  <2>1. /\ d.cues[c].range = ranges[c]
        /\ c # 1 => d.cues[c - 1].range = ranges[c - 1]
    BY <1>4, <1>5
  <2>2. ranges[c][1] < ranges[c][2] /\ ranges[c][2] - ranges[c][1] <= 2 * MaxWords(d.words)
    BY <1>1
  <2>3. ranges[c][1] = IF c = 1 THEN 0 ELSE ranges[c - 1][2]
    BY <1>1
  <2>4. ranges[c] \in Nat \X Nat
    BY <1>1
  <2>5. d.cues[c].range[1] = IF c = 1 THEN 0 ELSE d.cues[c - 1].range[2]
    BY <2>1, <2>3
  <2> QED BY <2>1, <2>2, <2>4, <2>5
<1> QED BY <1>1, <1>3, <1>6 DEF Parted

LEMMA RuleIsParted ==
    ASSUME FlowInv, WordsListed
    PROVE  Parted(RuleSplitOf(docs["Asr"]))
<1> DEFINE d == RuleSplitOf(docs["Asr"])
           words == d.words
           ranges == RuleRanges(words)
<1>1. /\ words = docs["Asr"].words /\ DOMAIN d.cues = DOMAIN ranges
      /\ \A c \in DOMAIN d.cues : d.cues[c].range = ranges[c]
  BY RuleDoc
<1>2. IsSeq(words)
  BY <1>1 DEF WordsListed
<1> HIDE DEF d
<1>3. ASSUME words = <<>> PROVE Parted(d)
  <2>1. Groups(words) = <<>>
    BY <1>2, <1>3, GroupsCover DEF IsSeq
  <2>2. ranges = <<>>
    BY <2>1 DEF RuleRanges, MergeShort
  <2> HIDE DEF ranges
  <2>3. DOMAIN d.cues = 1 .. 0
    BY <1>1, <2>2
  <2>4. \A c \in 1 .. 0 : FALSE
    OBVIOUS
  <2>5. 0 \in Nat /\ ~(0 > 0) /\ d.words = <<>>
    BY <1>3
  <2> QED BY <2>3, <2>4, <2>5 DEF Parted
<1>4. ASSUME words # <<>> PROVE Parted(d)
  <2>1. Covers(ranges, 0, Len(words), 2 * MaxWords(words))
    BY <1>2, <1>4, RulesCoverWords DEF IsSeq
  <2> HIDE DEF ranges, words
  <2>2. /\ ranges \in RangeList /\ ranges # <<>>
        /\ ranges[1][1] = 0 /\ ranges[Len(ranges)][2] = Len(words)
        /\ \A i \in DOMAIN ranges : /\ ranges[i][1] < ranges[i][2]
                                    /\ ranges[i][2] - ranges[i][1] <= 2 * MaxWords(words)
        /\ \A i \in 1 .. Len(ranges) - 1 : ranges[i][2] = ranges[i + 1][1]
    BY <2>1 DEF Covers
  <2>3. DOMAIN ranges = 1 .. Len(ranges) /\ Len(ranges) \in Nat
    BY <2>2 DEF RangeList
  <2>4. \A i \in DOMAIN ranges : ranges[i][1] = IF i = 1 THEN 0 ELSE ranges[i - 1][2]
    <3> SUFFICES ASSUME NEW i \in DOMAIN ranges, i # 1 PROVE ranges[i][1] = ranges[i - 1][2]
      BY <2>2
    <3>1. i - 1 \in 1 .. Len(ranges) - 1 /\ (i - 1) + 1 = i
      BY <2>3
    <3> QED BY <2>2, <3>1
  <2>5. d.words = words
    BY DEF words
  <2>6. /\ \A c \in DOMAIN ranges : d.cues[c].range = ranges[c]
        /\ DOMAIN d.cues = DOMAIN ranges
    BY <1>1
  <2>7. \A c \in DOMAIN ranges :
            /\ ranges[c][1] < ranges[c][2]
            /\ ranges[c][2] - ranges[c][1] <= 2 * MaxWords(d.words)
            /\ ranges[c][1] = IF c = 1 THEN 0 ELSE ranges[c - 1][2]
    BY <2>2, <2>4, <2>5
  <2>8. ranges[Len(ranges)][2] = Len(d.words) /\ ranges # <<>> /\ ranges \in RangeList
    BY <2>2, <2>5
  <2> HIDE DEF words
  <2> QED BY <2>6, <2>7, <2>8, RangesParted
<1> QED BY <1>3, <1>4 DEF d

\* The ranges of the replies, when apply_llm_split accepts them.
LEMMA AppliedIsParted ==
    ASSUME NEW base, NEW d, NEW ranges \in RangeList, CanApplySplit(base, ranges),
           d.words = base.words,
           DOMAIN d.cues = DOMAIN ranges, \A c \in DOMAIN ranges : d.cues[c].range = ranges[c],
           \A c \in DOMAIN ranges : ranges[c][2] - ranges[c][1] <= 2 * MaxWords(d.words)
    PROVE  Parted(d)
<1>1. /\ d.words # <<>> => ranges # <<>>
      /\ ranges # <<>> => ranges[Len(ranges)][2] = Len(d.words)
      /\ \A c \in DOMAIN ranges :
            /\ ranges[c][1] < ranges[c][2]
            /\ ranges[c][1] = IF c = 1 THEN 0 ELSE ranges[c - 1][2]
  BY DEF CanApplySplit, RangeIn
<1> QED BY <1>1, RangesParted

\* Every cue is over when the next one starts.
LEMMA PartsInOrder ==
    ASSUME NEW n \in Nat, NEW start \in [1 .. n -> Nat], NEW end \in [1 .. n -> Nat],
           \A i \in 1 .. n : start[i] < end[i],
           \A i \in 1 .. n : i # 1 => start[i] = end[i - 1],
           NEW a \in 1 .. n, NEW b \in 1 .. n, a < b
    PROVE  end[a] <= start[b]
<1> DEFINE D == a + 1 .. n
           m == [i \in D |-> i]
           Good == {i \in D : end[a] <= start[i]}
<1>1. m \in [D -> Nat]
  OBVIOUS
<1>2. \A i \in D : (\A j \in D : m[j] < m[i] => j \in Good) => i \in Good
  <2> SUFFICES ASSUME NEW i \in D, \A j \in D : m[j] < m[i] => j \in Good
               PROVE  end[a] <= start[i]
    OBVIOUS
  <2>1. CASE i = a + 1
    BY <2>1
  <2>2. CASE i # a + 1
    <3>1. i - 1 \in D /\ m[i - 1] < m[i]
      BY <2>2
    <3>2. end[a] <= start[i - 1]
      BY <3>1
    <3>3. start[i - 1] < end[i - 1] /\ start[i] = end[i - 1] /\ i - 1 \in 1 .. n /\ i \in 1 .. n
      BY <3>1
    <3>4. start[i - 1] \in Nat /\ end[i - 1] \in Nat /\ end[a] \in Nat
      BY <3>3
    <3> QED BY <3>2, <3>3, <3>4
  <2> QED BY <2>1, <2>2
<1> HIDE DEF D, m, Good
<1>3. D \subseteq Good
  BY <1>1, <1>2, FromBelow
<1> QED BY <1>3 DEF D, Good

\* Cues do not overlap.
LEMMA PartsAreApart ==
    ASSUME NEW d, Parted(d), NEW c \in DOMAIN d.cues, NEW e \in DOMAIN d.cues,
           d.cues[e].range[1] <= d.cues[c].range[1], d.cues[c].range[2] <= d.cues[e].range[2]
    PROVE  c = e
<1>1. PICK n \in Nat :
        /\ DOMAIN d.cues = 1 .. n
        /\ \A i \in 1 .. n :
              /\ d.cues[i].range \in Nat \X Nat
              /\ d.cues[i].range[1] < d.cues[i].range[2]
              /\ d.cues[i].range[1] = IF i = 1 THEN 0 ELSE d.cues[i - 1].range[2]
  BY DEF Parted
<1> DEFINE start == [i \in 1 .. n |-> d.cues[i].range[1]]
           end == [i \in 1 .. n |-> d.cues[i].range[2]]
<1>11. start \in [1 .. n -> Nat] /\ end \in [1 .. n -> Nat]
  BY <1>1
<1>12. \A i \in 1 .. n : start[i] < end[i]
  BY <1>1
<1>13. ASSUME NEW i \in 1 .. n, i # 1
       PROVE  start[i] = end[i - 1]
  <2>1. i - 1 \in 1 .. n
    BY <1>1, <1>13
  <2>2. start[i] = d.cues[i].range[1] /\ end[i - 1] = d.cues[i - 1].range[2]
    BY <2>1
  <2> HIDE DEF start, end
  <2> QED BY <1>1, <1>13, <2>2
<1>14. c \in 1 .. n /\ e \in 1 .. n /\ start[e] <= start[c] /\ end[c] <= end[e]
  BY <1>1
<1> HIDE DEF start, end
<1>2. /\ start \in [1 .. n -> Nat] /\ end \in [1 .. n -> Nat]
      /\ \A i \in 1 .. n : start[i] < end[i]
      /\ \A i \in 1 .. n : i # 1 => start[i] = end[i - 1]
      /\ c \in 1 .. n /\ e \in 1 .. n /\ start[e] <= start[c] /\ end[c] <= end[e]
  BY <1>11, <1>12, <1>13, <1>14
<1> HIDE DEF start, end
<1>3. ASSUME NEW a \in 1 .. n, NEW b \in 1 .. n, a < b
      PROVE  end[a] <= start[b]
  BY <1>2, <1>3, PartsInOrder
<1>4. /\ start[c] \in Nat /\ end[c] \in Nat /\ start[e] \in Nat /\ end[e] \in Nat
      /\ start[c] < end[c] /\ start[e] < end[e]
  BY <1>2
<1>5. CASE c < e
  <2>1. end[c] <= start[e]
    BY <1>2, <1>3, <1>5
  <2> QED BY <1>2, <1>4, <2>1
<1>6. CASE e < c
  <2>1. end[e] <= start[c]
    BY <1>2, <1>3, <1>6
  <2> QED BY <1>2, <1>4, <2>1
<1> QED BY <1>2, <1>5, <1>6

-----------------------------------------------------------------------------
(* The replies to the split requests. *)

LEMMA BoundariesAreInside ==
    ASSUME NEW words, NEW L \in Nat, Len(words) = L, NEW clean, NEW position
    PROVE  WordsBefore(words, clean, position) \subseteq 1 .. L - 1
BY DEF WordsBefore

\* The ranges of a reply lie in the cue that was asked about.
LEMMA RangesInCue ==
    ASSUME NEW words, NEW L \in Nat, Len(words) = L, NEW first \in Nat, NEW clean,
           NEW S, NEW n \in Nat, NEW breaks \in [1 .. n -> S],
           AllAligned(words, clean, breaks)
    PROVE  LET made == RangesFor(words, first, clean, breaks)
           IN  /\ made \in RangeList
               /\ \A i \in DOMAIN made : made[i][2] - made[i][1] <= L
<1> DEFINE At(b) == CHOOSE k \in WordsBefore(words, clean, breaks[b]) :
                       \A j \in WordsBefore(words, clean, breaks[b]) : k <= j
           ends == [b \in 1 .. Len(breaks) + 1 |->
                      first + IF b > Len(breaks) THEN Len(words) ELSE At(b)]
           One(b) == <<IF b = 1 THEN first ELSE ends[b - 1], ends[b]>>
           made == [b \in DOMAIN ends |-> One(b)]
<1>1. RangesFor(words, first, clean, breaks) = made
  BY DEF RangesFor
<1>2. Len(breaks) = n /\ DOMAIN breaks = 1 .. n
  OBVIOUS
<1>3. ASSUME NEW b \in 1 .. n PROVE At(b) \in 1 .. L
  <2> DEFINE K == WordsBefore(words, clean, breaks[b])
  <2>1. K # {} /\ K \subseteq 1 .. L - 1
    BY <1>2, BoundariesAreInside DEF AllAligned
  <2> HIDE DEF K
  <2>2. K \in SUBSET Nat
    BY <2>1
  <2>3. \E k \in K : \A j \in K : k <= j
    BY <2>1, <2>2, LeastOf
  <2>4. (CHOOSE k \in K : \A j \in K : k <= j) \in K
    BY <2>3
  <2> DEFINE least == CHOOSE k \in K : \A j \in K : k <= j
  <2>5. At(b) = least
    BY DEF K
  <2>6. least \in K
    BY <2>4
  <2> HIDE DEF least
  <2>7. least \in 1 .. L
    BY <2>1, <2>6
  <2> QED BY <2>5, <2>7
<1> HIDE DEF At
<1>4. DOMAIN ends = 1 .. n + 1 /\ \A b \in 1 .. n + 1 :
          ends[b] = IF b > n THEN first + L ELSE first + At(b)
  BY <1>2
<1> HIDE DEF ends
<1>5. \A b \in 1 .. n + 1 : ends[b] \in first .. first + L
  <2> SUFFICES ASSUME NEW b \in 1 .. n + 1 PROVE ends[b] \in first .. first + L
    OBVIOUS
  <2>1. CASE b > n
    BY <1>4, <2>1
  <2>2. CASE ~(b > n)
    BY <1>3, <1>4, <2>2
  <2> QED BY <2>1, <2>2
<1>6. ASSUME NEW b \in 1 .. n + 1
      PROVE  /\ One(b) \in Nat \X Nat
             /\ One(b)[2] - One(b)[1] <= L
  <2>1. ends[b] \in first .. first + L
    BY <1>5
  <2>2. b = 1 \/ b - 1 \in 1 .. n + 1
    OBVIOUS
  <2>3. (IF b = 1 THEN first ELSE ends[b - 1]) \in first .. first + L
    BY <1>5, <2>2
  <2> QED BY <2>1, <2>3
<1> HIDE DEF One
<1>7. /\ DOMAIN made = 1 .. n + 1 /\ n + 1 \in Nat /\ made = [b \in 1 .. n + 1 |-> made[b]]
      /\ \A b \in 1 .. n + 1 : made[b] = One(b)
  BY <1>4
<1> HIDE DEF made
<1>8. made \in RangeList
  <2>1. \A b \in 1 .. n + 1 : made[b] \in Nat \X Nat
    BY <1>6, <1>7
  <2>2. made \in [1 .. n + 1 -> Nat \X Nat]
    BY <1>7, <2>1
  <2> QED BY <1>7, <2>2 DEF RangeList
<1>9. \A b \in DOMAIN made : made[b][2] - made[b][1] <= L
  BY <1>6, <1>7
<1> QED BY <1>1, <1>8, <1>9

\* The cues that are asked about, of which none is too long.
LEMMA BaseCue ==
    ASSUME FlowInv, WordsListed, ReplyOK, pc = "Reply", reply.next <= Len(reply.base)
    PROVE  LET range == reply.base[reply.next].range
               words == docs["Asr"].words
           IN  /\ range \in Nat \X Nat
               /\ range[2] - range[1] <= 2 * MaxWords(words)
               /\ range[2] - range[1] \in Nat
               /\ Len(WordsOf(reply.base[reply.next], words)) = range[2] - range[1]
               /\ range[1] < range[2] /\ range[2] <= Len(words)
<1> DEFINE d == RuleSplitOf(docs["Asr"])
           ranges == RuleRanges(d.words)
           words == docs["Asr"].words
           c == reply.next
<1>1. Parted(d) /\ IsSeq(words)
  BY RuleIsParted DEF WordsListed
<1>2. d.words = words /\ DOMAIN d.cues = DOMAIN ranges
      /\ \A i \in DOMAIN d.cues : d.cues[i].range = ranges[i]
  BY RuleDoc
<1>3. reply.base = d.cues /\ c \in Nat \ {0} /\ c <= Len(d.cues)
  BY DEF ReplyOK
<1> HIDE DEF d
<1>4. PICK n \in Nat :
        /\ DOMAIN d.cues = 1 .. n
        /\ n > 0 => d.cues[n].range[2] = Len(d.words)
        /\ \A i \in 1 .. n :
              /\ d.cues[i].range \in Nat \X Nat
              /\ d.cues[i].range[1] < d.cues[i].range[2]
              /\ d.cues[i].range[2] - d.cues[i].range[1] <= 2 * MaxWords(d.words)
              /\ d.cues[i].range[1] = IF i = 1 THEN 0 ELSE d.cues[i - 1].range[2]
  BY <1>1 DEF Parted
<1>5. Len(d.cues) = n /\ c \in 1 .. n
  BY <1>3, <1>4
<1> DEFINE range == d.cues[c].range
           start == [i \in 1 .. n |-> d.cues[i].range[1]]
           end == [i \in 1 .. n |-> d.cues[i].range[2]]
<1>6. /\ start \in [1 .. n -> Nat] /\ end \in [1 .. n -> Nat]
      /\ \A i \in 1 .. n : start[i] < end[i]
      /\ \A i \in 1 .. n : i # 1 => start[i] = end[i - 1]
      /\ range[2] = end[c] /\ end[n] = Len(d.words)
  <2>1. \A i \in 1 .. n : d.cues[i].range[1] \in Nat /\ d.cues[i].range[2] \in Nat
    BY <1>4
  <2>2. start \in [1 .. n -> Nat] /\ end \in [1 .. n -> Nat]
    BY <2>1
  <2>3. \A i \in 1 .. n : start[i] < end[i]
    BY <1>4
  <2>4. \A i \in 1 .. n : i # 1 => start[i] = end[i - 1]
    BY <1>4
  <2>5. range[2] = end[c] /\ end[n] = Len(d.words)
    BY <1>4, <1>5
  <2> QED BY <2>2, <2>3, <2>4, <2>5
<1>7. /\ range \in Nat \X Nat /\ range[1] < range[2]
      /\ range[2] - range[1] <= 2 * MaxWords(words)
  BY <1>2, <1>4, <1>5
<1> HIDE DEF start, end
<1>8. range[2] <= Len(words)
  <2>1. CASE c = n
    <3>1. range[2] = Len(words) /\ end[c] \in Nat
      BY <1>2, <1>5, <1>6, <2>1
    <3> QED BY <1>6, <3>1
  <2>2. CASE c # n
    <3>1. c < n /\ n \in 1 .. n
      BY <1>5, <2>2
    <3>2. end[c] <= start[n]
      BY <1>5, <1>6, <3>1, PartsInOrder
    <3>3. start[n] < end[n] /\ start[n] \in Nat /\ end[n] \in Nat /\ end[c] \in Nat
      BY <1>5, <1>6, <3>1
    <3> QED BY <1>2, <1>6, <3>2, <3>3
  <2> QED BY <2>1, <2>2
<1> HIDE DEF range, words
<1>9. range[1] \in Nat /\ range[2] \in Nat
  BY <1>7
<1>10. Len(SubSeq(words, range[1] + 1, range[2])) = range[2] - range[1]
  BY <1>1, <1>7, <1>8, <1>9 DEF IsSeq
<1>11. reply.base[c].range = range
  BY <1>3 DEF range
<1>12. WordsOf(reply.base[c], words) = SubSeq(words, range[1] + 1, range[2])
  BY <1>11 DEF WordsOf
<1> QED BY <1>7, <1>8, <1>9, <1>10, <1>11, <1>12 DEF words

-----------------------------------------------------------------------------
(* Every step keeps the cues over the words, and the marks on them. *)

\* A stage commits a transcript, or the latest one is edited.
LEMMA CommitCuts ==
    ASSUME FlowInv, CutsOK, ToldKept, NEW s \in StageNames \ {"Asr"}, NEW d, Real(d),
           docs' = [docs EXCEPT ![s] = d],
           \/ d.timeline = "AsrWords" /\ Parted(d)
           \/ d.timeline = "ImportedCue" /\ d.words = <<>>,
           pc' # "Imported" => d.timeline = "AsrWords" /\ pc # "Imported",
           \A x \in StageNames : Committed(x) => Place(x) <= Place(s),
           \A t \in told : Tells(d, t[2]),
           \A t \in told' : t \in told \/ (t[1] = s /\ Tells(d, t[2]))
    PROVE  CutsOK' /\ ToldKept'
<1>1. /\ docs'[s] = d /\ \A x \in StageNames \ {s} : docs'[x] = docs[x]
  BY DEF FlowInv, DocsOK
<1>2. Committed(s)' /\ \A x \in StageNames \ {s} : Committed(x)' <=> Committed(x)
  BY <1>1, RealIsCommitted DEF Committed, NoDoc
<1>3. CutsOK'
  <2>1. pc' # "Imported" => \A x \in StageNames : docs'[x].timeline = "AsrWords"
    BY <1>1 DEF CutsOK
  <2>2. ASSUME NEW x \in StageNames \ {"Asr"}
        PROVE  \/ docs'[x].timeline = "AsrWords" /\ Parted(docs'[x])
               \/ docs'[x].timeline = "ImportedCue" /\ docs'[x].words = <<>>
    BY <1>1 DEF CutsOK
  <2> QED BY <2>1, <2>2 DEF CutsOK, Parted
<1>4. ASSUME NEW t \in told'
      PROVE  /\ t[1] \in StageNames \ {"Asr"} /\ Committed(t[1])'
             /\ \A x \in StageNames : Committed(x)' /\ Place(x) >= Place(t[1]) =>
                   Tells(docs'[x], t[2])
  <2>1. CASE t \in told
    <3>1. /\ t[1] \in StageNames \ {"Asr"} /\ Committed(t[1])
          /\ \A x \in StageNames : Committed(x) /\ Place(x) >= Place(t[1]) => Tells(docs[x], t[2])
      BY <2>1 DEF ToldKept
    <3> QED BY <1>1, <1>2, <2>1, <3>1
  <2>2. CASE t[1] = s /\ Tells(d, t[2])
    <3>1. \A x \in StageNames : x # s /\ Committed(x) => ~(Place(x) >= Place(s))
      BY Places DEF StageNames
    <3> QED BY <1>1, <1>2, <2>2, <3>1
  <2> QED BY <2>1, <2>2
<1>5. ToldKept'
  BY <1>4 DEF ToldKept, Tells
<1> QED BY <1>3, <1>5

\* A step that makes no transcript.
LEMMA QuietCuts ==
    ASSUME CutsOK, ToldKept, UNCHANGED <<docs, told>>, pc # "Imported" \/ pc' = pc
    PROVE  CutsOK' /\ ToldKept'
<1>1. CutsOK'
  BY DEF CutsOK, Parted
<1>2. ToldKept'
  BY DEF ToldKept, Tells, Committed, NoDoc
<1> QED BY <1>1, <1>2

LEMMA EndAsrCuts == ASSUME FlowInv, CutsOK, ToldKept, EndAsr PROVE CutsOK' /\ ToldKept'
<1>1. CASE UNCHANGED docs
  BY <1>1, QuietCuts DEF EndAsr
<1>2. CASE docs' = [docs EXCEPT !["Asr"] = NewAsr(heard)]
  <2>1. pc = "Hear" /\ pc' # "Imported" /\ UNCHANGED told
    BY DEF EndAsr
  <2>2. docs'["Asr"] = NewAsr(heard) /\ \A s \in StageNames \ {"Asr"} : docs'[s] = docs[s]
    BY <1>2 DEF FlowInv, DocsOK, StageNames
  <2>3. CutsOK'
    <3>1. \A s \in StageNames : docs'[s].timeline = "AsrWords"
      BY <2>1, <2>2 DEF CutsOK, NewAsr
    <3>2. \A s \in StageNames \ {"Asr"} :
             \/ docs'[s].timeline = "AsrWords" /\ Parted(docs'[s])
             \/ docs'[s].timeline = "ImportedCue" /\ docs'[s].words = <<>>
      BY <2>2 DEF CutsOK
    <3> QED BY <3>1, <3>2 DEF CutsOK, Parted
  <2>4. told' = {}
    <3>1. \A s \in StageNames \ {"Asr"} : ~Committed(s)
      BY <2>1 DEF FlowInv, DocsOK, Early
    <3>2. \A t \in told : FALSE
      BY <3>1 DEF ToldKept
    <3> QED BY <2>1, <3>2
  <2>5. ToldKept'
    BY <2>4 DEF ToldKept
  <2> QED BY <2>3, <2>5
<1> QED BY <1>1, <1>2 DEF EndAsr

\* Before the Split stage is done, nothing is degraded.
LEMMA NothingTold ==
    ASSUME FlowInv, ToldKept, pc \in Early \union {"LlmSplit", "Reply"}
    PROVE  /\ \A t \in told : FALSE
           /\ \A x \in StageNames : Committed(x) => Place(x) <= Place("Split")
<1>1. \A s \in StageNames \ {"Asr"} : ~Committed(s)
  BY DEF FlowInv, DocsOK
<1>2. \A t \in told : FALSE
  BY <1>1 DEF ToldKept
<1> QED BY <1>1, <1>2, Places DEF StageNames

LEMMA ImportCuts == ASSUME FlowInv, CutsOK, ToldKept, Import PROVE CutsOK' /\ ToldKept'
<1>1. pc = "Start" /\ UNCHANGED told
  BY DEF Import
<1>2. CASE UNCHANGED docs
  BY <1>1, <1>2, QuietCuts
<1>3. ASSUME NEW blocks, NEW layout, pc' = "Imported",
             docs' = [docs EXCEPT !["Split"] = NewImported(CuesOfBlocks(blocks, layout))]
      PROVE  CutsOK' /\ ToldKept'
  <2> DEFINE d == NewImported(CuesOfBlocks(blocks, layout))
  <2>1. Real(d) /\ d.timeline = "ImportedCue" /\ d.words = <<>>
    BY DEF NewImported, Real
  <2>2. /\ \A t \in told : FALSE
        /\ \A x \in StageNames : Committed(x) => Place(x) <= Place("Split")
    BY <1>1, NothingTold DEF Early
  <2> HIDE DEF d
  <2> QED BY <1>1, <1>3, <2>1, <2>2, CommitCuts DEF StageNames, d
<1> QED BY <1>2, <1>3 DEF Import

LEMMA SplitByRulesCuts ==
    ASSUME FlowInv, WordsListed, CutsOK, ToldKept, SplitByRules
    PROVE  CutsOK' /\ ToldKept'
<1> DEFINE d == RuleSplitOf(docs["Asr"])
<1>1. Real(d) /\ d.timeline = "AsrWords" /\ Parted(d)
  BY RuleDoc, RuleIsParted
<1>2. /\ docs' = [docs EXCEPT !["Split"] = d] /\ UNCHANGED told
      /\ pc = "Split" /\ pc' = "Plain"
  BY DEF SplitByRules
<1>3. /\ \A t \in told : FALSE
      /\ \A x \in StageNames : Committed(x) => Place(x) <= Place("Split")
  BY <1>2, NothingTold DEF Early
<1> HIDE DEF d
<1> QED BY <1>1, <1>2, <1>3, CommitCuts DEF StageNames

\* The cues of a degraded one are marked when the replies are applied.
LEMMA EndSplitCuts ==
    ASSUME FlowInv, WordsListed, ReplyOK, CutsOK, ToldKept, EndSplit
    PROVE  CutsOK' /\ ToldKept'
<1> DEFINE base == RuleSplitOf(docs["Asr"])
           split == ApplySplit(base, reply.ranges)
           ids == CuesWithin(split, reply.failed)
           d == MarkFailed(split, ids)
<1>1. pc = "Reply"
  BY DEF EndSplit
<1>2. /\ \A t \in told : FALSE
      /\ \A x \in StageNames : Committed(x) => Place(x) <= Place("Split")
  BY <1>1, NothingTold
<1>3. CASE pc' = "Stopped" /\ UNCHANGED <<docs, told>>
  BY <1>1, <1>3, QuietCuts
<1>4. CASE /\ CanApplySplit(base, reply.ranges)
           /\ docs' = [docs EXCEPT !["Split"] = d] /\ pc' \in {"Correct", "Done"}
           /\ told' = told \union {<<"Split", r>> : r \in reply.failed}
  <2>1. IsDoc(base) /\ Real(base) /\ base.words = docs["Asr"].words /\ base.timeline = "AsrWords"
    BY RuleDoc
  <2>2. /\ IsDoc(d) /\ Real(d) /\ d.words = base.words /\ d.timeline = "AsrWords"
        /\ DOMAIN d.cues = DOMAIN reply.ranges
        /\ \A c \in DOMAIN reply.ranges : d.cues[c].range = reply.ranges[c]
        /\ \A c \in DOMAIN reply.ranges : c \in ids => d.cues[c].failed
    BY <2>1, ReplyDoc
  <2>3. /\ IsDoc(split) /\ DOMAIN split.cues = DOMAIN reply.ranges
        /\ \A c \in DOMAIN reply.ranges : split.cues[c].range = reply.ranges[c]
    <3>1. split = SplitInto(base, reply.ranges, "Llm")
      BY DEF ApplySplit, SplitInto
    <3> QED BY <2>1, <3>1, SplitDoc
  <2> HIDE DEF d, split
  <2>4. Parted(d)
    <3>1. /\ reply.ranges \in RangeList
          /\ \A i \in DOMAIN reply.ranges :
                reply.ranges[i][2] - reply.ranges[i][1] <= 2 * MaxWords(d.words)
      BY <1>1, <2>1, <2>2 DEF ReplyOK
    <3> HIDE DEF base
    <3> QED BY <1>4, <2>2, <3>1, AppliedIsParted
  <2>5. ASSUME NEW r \in reply.failed
        PROVE  Tells(d, r)
    <3>1. ASSUME NEW c \in DOMAIN d.cues, r[1] <= d.cues[c].range[1], d.cues[c].range[2] <= r[2]
          PROVE  c \in ids
      <4>1. c \in DOMAIN split.cues /\ split.cues[c].range = d.cues[c].range
            /\ split.cues[c].id = c
        BY <2>2, <2>3 DEF IsDoc, CuesNumbered
      <4> QED BY <3>1, <4>1 DEF CuesWithin
    <3> QED BY <2>2, <3>1 DEF Tells
  <2>6. \A t \in told' : t[1] = "Split" /\ Tells(d, t[2])
    <3>1. \A t \in told' : \E r \in reply.failed : t = <<"Split", r>>
      BY <1>2, <1>4
    <3> QED BY <2>5, <3>1
  <2>7. pc # "Imported" /\ pc' # "Imported"
    BY <1>1, <1>4
  <2>8. docs' = [docs EXCEPT !["Split"] = d]
    BY <1>4
  <2> HIDE DEF base, ids
  <2> QED BY <1>2, <2>2, <2>4, <2>6, <2>7, <2>8, CommitCuts DEF StageNames
<1> QED BY <1>3, <1>4 DEF EndSplit

\* Correct and Translate: a cue that is not answered is marked, and it is the
\* only one that lies where it lies.
LEMMA RewriteCuts ==
    ASSUME FlowInv, CutsOK, ToldKept, NEW stage \in {"Correct", "Translate"}, pc = stage,
           NEW field \in Fields, NEW values,
           LET input == docs[IF stage = "Correct" THEN "Split" ELSE "Correct"]
           IN  Rewrite(stage, input, field, values),
           pc' # "Imported"
    PROVE  CutsOK' /\ ToldKept'
<1> DEFINE before == IF stage = "Correct" THEN "Split" ELSE "Correct"
           input == docs[before]
           New(answered, updates) == MarkFailed(ApplyText(input, field, updates),
                                                CueIds(input) \ answered)
<1>1. /\ before \in StageNames \ {"Asr"} /\ Committed(before)
      /\ \A s \in StageNames : Committed(s) => Place(s) <= Place(before)
      /\ Place(before) <= Place(stage) /\ stage \in StageNames \ {"Asr"}
  BY Places DEF FlowInv, DocsOK, StageNames
<1>2. IsDoc(input) /\ Real(input) /\ input.timeline = "AsrWords" /\ Parted(input)
  <2>1. IsDoc(input) /\ Real(input)
    BY <1>1 DEF FlowInv, DocsOK
  <2>2. pc # "Imported"
    OBVIOUS
  <2> QED BY <1>1, <2>1, <2>2 DEF CutsOK
<1>3. PICK answered \in SUBSET CueIds(input) : \E updates \in [answered -> values] :
          /\ docs' = [docs EXCEPT ![stage] = New(answered, updates)]
          /\ told' = told \union
                 {<<stage, CueOf(input, id).range>> : id \in CueIds(input) \ answered}
  BY DEF Rewrite
<1>3a. PICK updates \in [answered -> values] :
          /\ docs' = [docs EXCEPT ![stage] = New(answered, updates)]
          /\ told' = told \union
                 {<<stage, CueOf(input, id).range>> : id \in CueIds(input) \ answered}
  BY <1>3
<1> DEFINE rest == CueIds(input) \ answered
           text == ApplyText(input, field, updates)
           d == New(answered, updates)
<1>4. Follows(text, input)
  BY <1>2, ApplyTextFollows
<1>5. IsDoc(text)
  BY <1>4 DEF Follows
<1>6. /\ Follows(d, text)
      /\ \A c \in DOMAIN text.cues : c \in rest => d.cues[c].failed
  <2> HIDE DEF text, rest
  <2>1. d = MarkFailed(text, rest)
    BY DEF text, rest
  <2> HIDE DEF d
  <2> QED BY <1>5, <2>1, MarkFollows
<1> HIDE DEF text, d, New
<1>7. Follows(d, input)
  BY <1>2, <1>4, <1>6, FollowsOn
<1>8. IsDoc(d) /\ Real(d) /\ Parted(d) /\ d.timeline = "AsrWords"
  BY <1>2, <1>7, RealFollows, FollowsParted DEF Follows
<1>9. ASSUME NEW t \in told PROVE Tells(d, t[2])
  <2>1. /\ t[1] \in StageNames \ {"Asr"} /\ Committed(t[1])
        /\ \A s \in StageNames : Committed(s) /\ Place(s) >= Place(t[1]) => Tells(docs[s], t[2])
    BY DEF ToldKept
  <2>2. Place(before) >= Place(t[1])
    BY <1>1, <2>1, Places DEF StageNames
  <2>3. Tells(input, t[2])
    BY <1>1, <2>1, <2>2
  <2> QED BY <1>7, <2>3, FollowsTells
<1>10. ASSUME NEW id \in rest PROVE Tells(d, CueOf(input, id).range)
  <2>1. id \in DOMAIN input.cues /\ CueOf(input, id) = input.cues[id]
    BY <1>2, CuesByNumber DEF rest
  <2>2. ASSUME NEW c \in DOMAIN d.cues,
               input.cues[id].range[1] <= d.cues[c].range[1],
               d.cues[c].range[2] <= input.cues[id].range[2]
        PROVE  d.cues[c].failed
    <3>1. c \in DOMAIN input.cues /\ d.cues[c].range = input.cues[c].range
      BY <1>7, <2>2 DEF Follows
    <3>2. c = id
      BY <1>2, <2>1, <2>2, <3>1, PartsAreApart
    <3>3. c \in DOMAIN text.cues
      BY <1>4, <3>1 DEF Follows
    <3> QED BY <1>6, <1>10, <3>2, <3>3
  <2> QED BY <2>1, <2>2 DEF Tells
<1>11. \A t \in told' : t \in told \/ (t[1] = stage /\ Tells(d, t[2]))
  <2>1. \A t \in told' : t \in told \/ \E id \in rest : t = <<stage, CueOf(input, id).range>>
    BY <1>3a
  <2> QED BY <1>10, <2>1
<1>12. \A s \in StageNames : Committed(s) => Place(s) <= Place(stage)
  BY <1>1, Places DEF StageNames
<1>13. docs' = [docs EXCEPT ![stage] = d] /\ pc # "Imported"
  BY <1>3a DEF d
<1> QED BY <1>1, <1>8, <1>9, <1>11, <1>12, <1>13, CommitCuts

LEMMA EditCuts == ASSUME FlowInv, CutsOK, ToldKept, EditCue PROVE CutsOK' /\ ToldKept'
<1>1. PICK last \in StageNames \ {"Asr"} : \E d :
          /\ Committed(last) /\ \A t \in StageNames : Committed(t) => Place(t) <= Place(last)
          /\ docs' = [docs EXCEPT ![last] = d] /\ Follows(d, docs[last])
  BY EditedIsLatest
<1>2. PICK d : /\ docs' = [docs EXCEPT ![last] = d] /\ Follows(d, docs[last])
  BY <1>1
<1>3. IsDoc(docs[last]) /\ Real(docs[last])
  BY <1>1 DEF FlowInv, DocsOK
<1>4. Real(d)
  BY <1>2, <1>3, RealFollows
<1>5. pc' = pc /\ told' = told
  BY DEF EditCue
<1>6. /\ \/ d.timeline = "AsrWords" /\ Parted(d)
         \/ d.timeline = "ImportedCue" /\ d.words = <<>>
      /\ pc # "Imported" => d.timeline = "AsrWords"
  <2>1. d.timeline = docs[last].timeline /\ d.words = docs[last].words
    BY <1>2 DEF Follows
  <2>2. Parted(docs[last]) => Parted(d)
    BY <1>2, FollowsParted
  <2> QED BY <2>1, <2>2 DEF CutsOK
<1>7. ASSUME NEW t \in told PROVE Tells(d, t[2])
  <2>1. /\ t[1] \in StageNames \ {"Asr"} /\ Committed(t[1])
        /\ \A s \in StageNames : Committed(s) /\ Place(s) >= Place(t[1]) => Tells(docs[s], t[2])
    BY DEF ToldKept
  <2>2. Place(last) >= Place(t[1])
    BY <1>1, <2>1, Places DEF StageNames
  <2>3. Tells(docs[last], t[2])
    BY <1>1, <2>1, <2>2
  <2> QED BY <1>2, <2>3, FollowsTells
<1> QED BY <1>1, <1>2, <1>4, <1>5, <1>6, <1>7, CommitCuts

LEMMA NoDocParted == Parted(NoDoc) /\ NoDoc.timeline = "AsrWords"
<1>1. NoDoc.words = <<>> /\ NoDoc.timeline = "AsrWords" /\ DOMAIN NoDoc.cues = 1 .. 0
  BY DEF NoDoc, NewAsr
<1>2. \A c \in 1 .. 0 : FALSE
  OBVIOUS
<1>3. 0 \in Nat /\ ~(0 > 0)
  OBVIOUS
<1> QED BY <1>1, <1>2, <1>3 DEF Parted

LEMMA RetryCuts == ASSUME FlowInv, CutsOK, ToldKept, Retry PROVE CutsOK' /\ ToldKept'
<1>1. PICK stage \in {"Split", "Correct", "Translate"} :
          /\ docs' = [s \in StageNames |-> IF s \in Reopened(stage) THEN NoDoc ELSE docs[s]]
          /\ told' = {t \in told : t[1] \notin Reopened(stage)}
          /\ pc' = IF stage = "Split" THEN "LlmSplit" ELSE stage
  BY DEF Retry
<1>2. pc # "Imported" /\ pc' # "Imported"
  BY <1>1 DEF Retry
<1>3. \A s \in StageNames : /\ s \in Reopened(stage) => docs'[s] = NoDoc
                            /\ s \notin Reopened(stage) => docs'[s] = docs[s]
  BY <1>1
<1>4. /\ \A s \in StageNames : s \in Reopened(stage) => ~Committed(s)'
      /\ \A s \in StageNames : s \notin Reopened(stage) => (Committed(s)' <=> Committed(s))
  BY <1>3 DEF Committed, NoDoc
<1>5. CutsOK'
  <2>1. \A s \in StageNames : docs'[s].timeline = "AsrWords"
    BY <1>2, <1>3, NoDocParted DEF CutsOK
  <2>2. \A s \in StageNames \ {"Asr"} : Parted(docs'[s])
    BY <1>2, <1>3, NoDocParted DEF CutsOK
  <2> QED BY <2>1, <2>2 DEF CutsOK, Parted
<1>6. ASSUME NEW t \in told'
      PROVE  /\ t[1] \in StageNames \ {"Asr"} /\ Committed(t[1])'
             /\ \A x \in StageNames : Committed(x)' /\ Place(x) >= Place(t[1]) =>
                   Tells(docs'[x], t[2])
  <2>1. t \in told /\ t[1] \notin Reopened(stage)
    BY <1>1
  <2>2. /\ t[1] \in StageNames \ {"Asr"} /\ Committed(t[1])
        /\ \A s \in StageNames : Committed(s) /\ Place(s) >= Place(t[1]) => Tells(docs[s], t[2])
    BY <2>1 DEF ToldKept
  <2> QED BY <1>3, <1>4, <2>1, <2>2
<1>7. ToldKept'
  BY <1>6 DEF ToldKept, Tells
<1> QED BY <1>5, <1>7

LEMMA CuesStart == Init => CueInv
<1> SUFFICES ASSUME Init PROVE CueInv
  OBVIOUS
<1>1. FlowInv /\ WordsListed
  BY InitFlow, WordsStart
<1>2. pc = "Start" /\ told = {} /\ \A s \in StageNames : docs[s] = NoDoc
  BY DEF Init
<1>3. CutsOK
  BY <1>2, NoDocParted DEF CutsOK
<1> QED BY <1>1, <1>2, <1>3 DEF CueInv, ReplyOK, ToldKept

LEMMA ReplyBreaks ==
    ASSUME NEW words, NEW r \in Replies(words)
    PROVE  \E n \in Nat : \E S : r.breaks \in [1 .. n -> S]
<1>1. PICK clean : \E length : \E b \in BreakLists(length) : r = [clean |-> clean, breaks |-> b]
  BY DEF Replies
<1>2. PICK length : \E b \in BreakLists(length) : r.breaks = b
  BY <1>1
<1>3. PICK n \in 0 .. MaxBreaks : r.breaks \in [1 .. n -> 0 .. length]
  BY <1>2 DEF BreakLists
<1>4. n \in Nat
  BY FlowAssumption
<1> QED BY <1>3, <1>4

\* The replies, one by one.
LEMMA MoreReplies ==
    ASSUME ReplyOK, pc = "Reply", pc' = pc, UNCHANGED docs,
           NEW more \in RangeList,
           \A i \in DOMAIN more : more[i][2] - more[i][1] <= 2 * MaxWords(docs["Asr"].words),
           DOMAIN reply' = DOMAIN reply, reply'.base = reply.base,
           reply'.ranges = reply.ranges \o more, reply'.next = reply.next + 1
    PROVE  ReplyOK'
<1> DEFINE R == reply.ranges
           max == 2 * MaxWords(docs["Asr"].words)
<1>1. R \in RangeList /\ \A i \in DOMAIN R : R[i][2] - R[i][1] <= max
  BY DEF ReplyOK
<1>2. \A i \in DOMAIN more : more[i][2] - more[i][1] <= max
  OBVIOUS
<1> HIDE DEF R, max
<1>3. R \o more \in RangeList
  BY <1>1 DEF RangeList
<1>4. /\ DOMAIN R = 1 .. Len(R) /\ DOMAIN more = 1 .. Len(more)
      /\ Len(R) \in Nat /\ Len(more) \in Nat
      /\ DOMAIN (R \o more) = 1 .. Len(R) + Len(more)
      /\ \A i \in 1 .. Len(R) : (R \o more)[i] = R[i]
      /\ \A i \in Len(R) + 1 .. Len(R) + Len(more) : (R \o more)[i] = more[i - Len(R)]
  BY <1>1 DEF RangeList
<1> DEFINE Q == R \o more
<1>5. ASSUME NEW i \in DOMAIN Q
      PROVE  Q[i][2] - Q[i][1] <= max
  <2>1. CASE i \in 1 .. Len(R)
    BY <1>1, <1>4, <2>1
  <2>2. CASE i \notin 1 .. Len(R)
    <3>1. i \in Len(R) + 1 .. Len(R) + Len(more) /\ i - Len(R) \in 1 .. Len(more)
      BY <1>4, <2>2
    <3>2. Q[i] = more[i - Len(R)] /\ i - Len(R) \in DOMAIN more
      BY <1>4, <3>1
    <3> QED BY <1>2, <3>2
  <2> QED BY <2>1, <2>2
<1>6. reply'.ranges = Q /\ docs' = docs
  BY DEF R
<1> HIDE DEF Q
<1>7. reply'.ranges \in RangeList
      /\ \A i \in DOMAIN reply'.ranges :
            reply'.ranges[i][2] - reply'.ranges[i][1] <= 2 * MaxWords(docs'["Asr"].words)
  BY <1>3, <1>5, <1>6 DEF max, Q
<1>8. /\ DOMAIN reply' = {"base", "ranges", "next", "failed", "asked", "exact"}
      /\ reply'.base = RuleSplitOf(docs'["Asr"]).cues
      /\ reply'.next \in Nat \ {0}
  BY <1>6 DEF ReplyOK
<1> QED BY <1>7, <1>8 DEF ReplyOK

LEMMA AnswerReplies ==
    ASSUME FlowInv, WordsListed, ReplyOK, AnswerSplit
    PROVE  ReplyOK'
<1> DEFINE cue == reply.base[reply.next]
           asr == docs["Asr"].words
           words == WordsOf(cue, asr)
           length == cue.range[2] - cue.range[1]
           Made(r) == RangesFor(words, cue.range[1], r.clean, r.breaks)
<1>1. pc = "Reply" /\ reply.next <= Len(reply.base) /\ UNCHANGED docs
  BY DEF AnswerSplit
<1>2. CASE pc' = "Stopped"
  BY <1>2 DEF ReplyOK
<1>3. CASE pc' # "Stopped"
  <2>1. PICK r \in Replies(words) :
            /\ AllAligned(words, r.clean, r.breaks)
            /\ pc' = pc
            /\ reply' = [reply EXCEPT
                  !.ranges = @ \o Made(r),
                  !.asked = @ \o [b \in DOMAIN r.breaks |->
                      {cue.range[1] + k : k \in WordsAsked(words, r.clean, r.breaks[b])}],
                  !.exact = @ /\ r.clean = JoinWords(words), !.next = @ + 1]
    BY <1>3 DEF AnswerSplit
  <2>2. /\ cue.range \in Nat \X Nat /\ length <= 2 * MaxWords(asr)
        /\ length \in Nat /\ Len(words) = length
    BY <1>1, BaseCue
  <2>3. PICK n \in Nat : \E S : r.breaks \in [1 .. n -> S]
    BY ReplyBreaks
  <2>4. PICK S : r.breaks \in [1 .. n -> S]
    BY <2>3
  <2>5. cue.range[1] \in Nat
    BY <2>2
  <2> DEFINE more == Made(r)
  <2>6. more \in RangeList /\ \A i \in DOMAIN more : more[i][2] - more[i][1] <= length
    <3> DEFINE first == cue.range[1]
               clean == r.clean
               breaks == r.breaks
    <3>1. AllAligned(words, clean, breaks) /\ breaks \in [1 .. n -> S] /\ first \in Nat
          /\ length \in Nat /\ Len(words) = length
      BY <2>1, <2>2, <2>4, <2>5
    <3> HIDE DEF words, first, length, clean, breaks
    <3>2. LET made == RangesFor(words, first, clean, breaks)
          IN  /\ made \in RangeList
              /\ \A i \in DOMAIN made : made[i][2] - made[i][1] <= length
      BY <3>1, RangesInCue
    <3> QED BY <3>2 DEF first, clean, breaks
  <2>7. DOMAIN reply = {"base", "ranges", "next", "failed", "asked", "exact"}
    BY <1>1 DEF ReplyOK
  <2> HIDE DEF more, words, cue
  <2>8. /\ DOMAIN reply' = DOMAIN reply /\ reply'.base = reply.base
        /\ reply'.ranges = reply.ranges \o more /\ reply'.next = reply.next + 1
    BY <2>1, <2>7 DEF more
  <2>9. \A i \in DOMAIN more : more[i][2] - more[i][1] <= 2 * MaxWords(asr)
    <3>1. 2 * MaxWords(asr) \in Nat
      BY MaxWordsType
    <3>2. ASSUME NEW i \in DOMAIN more PROVE more[i][2] - more[i][1] <= 2 * MaxWords(asr)
      <4>1. i \in 1 .. Len(more) /\ more[i] \in Nat \X Nat
        BY <2>6 DEF RangeList
      <4>2. more[i][2] - more[i][1] \in Int /\ more[i][2] - more[i][1] <= length
        BY <2>6, <4>1
      <4> QED BY <2>2, <3>1, <4>2
    <3> QED BY <3>2
  <2> QED BY <1>1, <2>1, <2>6, <2>8, <2>9, MoreReplies
<1> QED BY <1>2, <1>3

LEMMA DegradeReplies ==
    ASSUME FlowInv, WordsListed, ReplyOK, DegradeSplit
    PROVE  ReplyOK'
<1> DEFINE range == reply.base[reply.next].range
           more == <<range>>
<1>1. pc = "Reply" /\ reply.next <= Len(reply.base) /\ UNCHANGED <<pc, docs>>
  BY DEF DegradeSplit
<1>2. range \in Nat \X Nat /\ range[2] - range[1] <= 2 * MaxWords(docs["Asr"].words)
  BY <1>1, BaseCue
<1>3. reply.ranges \in RangeList /\ DOMAIN reply = {"base", "ranges", "next", "failed", "asked", "exact"}
  BY <1>1 DEF ReplyOK
<1>4. reply' = [reply EXCEPT !.ranges = Append(@, range),
                             !.failed = @ \union {range}, !.next = @ + 1]
  BY DEF DegradeSplit
<1> HIDE DEF range
<1>5. more \in RangeList /\ DOMAIN more = 1 .. 1 /\ more[1] = range
  BY <1>2 DEF RangeList
<1>6. Append(reply.ranges, range) = reply.ranges \o more
  <2>1. reply.ranges \in Seq(Nat \X Nat)
    BY <1>3 DEF RangeList
  <2> QED BY <1>2, <2>1, AppendIsJoin
<1> HIDE DEF more
<1>7. /\ DOMAIN reply' = DOMAIN reply /\ reply'.base = reply.base
      /\ reply'.ranges = reply.ranges \o more /\ reply'.next = reply.next + 1
  BY <1>3, <1>4, <1>6
<1>8. \A i \in DOMAIN more : more[i][2] - more[i][1] <= 2 * MaxWords(docs["Asr"].words)
  <2>1. \A i \in DOMAIN more : more[i] = range
    BY <1>5
  <2> QED BY <1>2, <2>1
<1> QED BY <1>1, <1>5, <1>7, <1>8, MoreReplies

LEMMA ReplyStep ==
    ASSUME FlowInv, WordsListed, ReplyOK, [Next]_vars
    PROVE  ReplyOK'
<1>1. CASE pc' # "Reply"
  BY <1>1 DEF ReplyOK
<1>2. CASE UNCHANGED vars
  BY <1>2 DEF ReplyOK, vars
<1>3. CASE BeginSplit
  <2>1. CASE pc' = "Reply"
    <3>1. reply' = [NoReply EXCEPT !.base = RuleSplitOf(docs["Asr"]).cues] /\ UNCHANGED docs
      BY <1>3, <2>1 DEF BeginSplit
    <3>2. /\ DOMAIN reply' = {"base", "ranges", "next", "failed", "asked", "exact"}
          /\ reply'.base = RuleSplitOf(docs["Asr"]).cues
          /\ reply'.ranges = <<>> /\ reply'.next = 1
      BY <3>1 DEF NoReply
    <3>3. <<>> \in RangeList /\ \A i \in DOMAIN <<>> : FALSE
      BY DEF RangeList
    <3> QED BY <3>1, <3>2, <3>3 DEF ReplyOK
  <2> QED BY <1>1, <2>1
<1>4. CASE Record \/ Speak \/ HearChunk \/ HearWhole \/ EndAsr \/ Import \/ SplitByRules
  <2>1. pc' # "Reply"
    <3>1. CASE Record \/ Speak
      BY <3>1 DEF Record, Speak
    <3>2. CASE HearChunk
      BY <3>2 DEF HearChunk
    <3>3. CASE HearWhole
      BY <3>3 DEF HearWhole
    <3>4. CASE EndAsr \/ Import \/ SplitByRules
      BY <3>4 DEF EndAsr, Import, SplitByRules
    <3> QED BY <1>4, <3>1, <3>2, <3>3, <3>4
  <2> QED BY <1>1, <2>1
<1>5. CASE EndSplit \/ Correct \/ Translate \/ StageFails \/ EditCue \/ Retry
  <2>1. pc' # "Reply"
    BY <1>5 DEF EndSplit, Correct, Translate, StageFails, EditCue, Retry
  <2> QED BY <1>1, <2>1
<1> QED BY <1>2, <1>3, <1>4, <1>5, AnswerReplies, DegradeReplies DEF Next

LEMMA CueStep == CueInv /\ [Next]_vars => CueInv'
<1> SUFFICES ASSUME CueInv, [Next]_vars PROVE CueInv'
  OBVIOUS
<1>1. FlowInv /\ WordsListed /\ CutsOK /\ ReplyOK /\ ToldKept
  BY DEF CueInv
<1>2. FlowInv' /\ WordsListed' /\ ReplyOK'
  BY <1>1, FlowStep, WordsStep, ReplyStep
<1>3. CASE Record \/ Speak \/ HearChunk \/ HearWhole
  <2>1. UNCHANGED <<docs, told>> /\ pc # "Imported"
    <3>1. CASE Record \/ Speak
      BY <3>1 DEF Record, Speak
    <3>2. CASE HearChunk
      BY <3>2 DEF HearChunk
    <3>3. CASE HearWhole
      BY <3>3 DEF HearWhole
    <3> QED BY <1>3, <3>1, <3>2, <3>3
  <2> QED BY <1>1, <1>2, <2>1, QuietCuts DEF CueInv
<1>4. CASE BeginSplit \/ AnswerSplit \/ DegradeSplit \/ StageFails \/ UNCHANGED vars
  <2>1. UNCHANGED <<docs, told>> /\ (pc # "Imported" \/ pc' = pc)
    BY <1>4 DEF BeginSplit, AnswerSplit, DegradeSplit, StageFails, vars
  <2> QED BY <1>1, <1>2, <2>1, QuietCuts DEF CueInv
<1>5. CASE Correct
  <2>1. pc = "Correct" /\ pc' # "Imported" /\ Rewrite("Correct", docs["Split"], "text", Corrections)
    BY <1>5 DEF Correct, Rewrite
  <2>2. CutsOK' /\ ToldKept'
    BY <1>1, <2>1, RewriteCuts DEF Fields
  <2> QED BY <1>2, <2>2 DEF CueInv
<1>6. CASE Translate
  <2>1. /\ pc = "Translate" /\ pc' # "Imported"
        /\ Rewrite("Translate", docs["Correct"], "translation", Translations)
    BY <1>6 DEF Translate, Rewrite
  <2>2. CutsOK' /\ ToldKept'
    BY <1>1, <2>1, RewriteCuts DEF Fields
  <2> QED BY <1>2, <2>2 DEF CueInv
<1>7. CASE EndAsr \/ Import \/ SplitByRules \/ EndSplit \/ EditCue \/ Retry
  <2>1. CutsOK' /\ ToldKept'
    BY <1>1, <1>7, EndAsrCuts, ImportCuts, SplitByRulesCuts, EndSplitCuts, EditCuts, RetryCuts
  <2> QED BY <1>2, <2>1 DEF CueInv
<1> QED BY <1>3, <1>4, <1>5, <1>6, <1>7 DEF Next

\* The cues of a transcript of recognised words are ranges of its words, one
\* after the other from the first to the last, none longer than two cues may be,
\* however the replies were cut, degraded and retried: split_oversized and
\* merge_short_ranges make such ranges, a reply is cut within one of them, and
\* apply_llm_split refuses what leaves a gap.
THEOREM CuesCoverTheWords == Spec => []CuesCoverWords
<1>1. CueInv => CuesCoverWords
  <2> SUFFICES ASSUME CueInv, NEW s \in StageNames,
                      docs[s].cues # <<>>, docs[s].words # <<>>
               PROVE  LET cues == docs[s].cues
                          words == docs[s].words
                      IN  /\ cues[1].range[1] = 0 /\ cues[Len(cues)].range[2] = Len(words)
                          /\ \A c \in DOMAIN cues :
                                /\ c < Len(cues) => cues[c].range[2] = cues[c + 1].range[1]
                                /\ cues[c].range[2] - cues[c].range[1] <= 2 * MaxWords(words)
    BY DEF CuesCoverWords
  <2> DEFINE d == docs[s]
  <2>1. s # "Asr"
    BY DEF CueInv, FlowInv, DocsOK, NewAsr
  <2>2. Parted(d)
    BY <2>1 DEF CueInv, CutsOK
  <2> HIDE DEF d
  <2>3. PICK n \in Nat :
          /\ DOMAIN d.cues = 1 .. n
          /\ d.words # <<>> => n > 0
          /\ n > 0 => d.cues[n].range[2] = Len(d.words)
          /\ \A c \in 1 .. n :
                /\ d.cues[c].range[2] - d.cues[c].range[1] <= 2 * MaxWords(d.words)
                /\ d.cues[c].range[1] = IF c = 1 THEN 0 ELSE d.cues[c - 1].range[2]
    BY <2>2 DEF Parted
  <2>4. n > 0 /\ Len(d.cues) = n
    BY <2>3 DEF d
  <2>5. d.cues[1].range[1] = 0 /\ d.cues[n].range[2] = Len(d.words)
    BY <2>3, <2>4
  <2>6. ASSUME NEW c \in 1 .. n, c < n
        PROVE  d.cues[c].range[2] = d.cues[c + 1].range[1]
    <3>1. c + 1 \in 1 .. n /\ c + 1 # 1 /\ (c + 1) - 1 = c
      BY <2>6
    <3> QED BY <2>3, <3>1
  <2> QED BY <2>3, <2>4, <2>5, <2>6 DEF d
<1> QED BY <1>1, CuesStart, CueStep, PTL DEF Spec

\* Whoever reads the latest transcript sees which words a stage gave up on: the
\* cues of a degraded reply, and those that were not corrected or translated, are
\* marked, and a mark goes over to every transcript that is made from it
\* (mark_llm_failed, apply_llm_text).
THEOREM DegradedStaysTold == Spec => []DegradedIsTold
<1>1. CueInv => DegradedIsTold
  <2> SUFFICES ASSUME CueInv, NEW t \in told
               PROVE  Tells(docs[Latest], t[2])
    BY DEF DegradedIsTold, Tells
  <2>1. /\ t[1] \in StageNames \ {"Asr"} /\ Committed(t[1])
        /\ \A s \in StageNames : Committed(s) /\ Place(s) >= Place(t[1]) => Tells(docs[s], t[2])
    BY DEF CueInv, ToldKept
  <2>2. Latest \in StageNames /\ Committed(Latest) /\ Place(t[1]) <= Place(Latest)
    BY <2>1, LatestIsLast
  <2>3. Place(Latest) >= Place(t[1])
    BY <2>1, <2>2, Places DEF StageNames
  <2> QED BY <2>1, <2>2, <2>3
<1> QED BY <1>1, CuesStart, CueStep, PTL DEF Spec
-----------------------------------------------------------------------------
(* What the chunks keep of the words, put together. *)

\* What a function makes of the elements of a sequence.
Said(f, s) == [j \in DOMAIN s |-> f[s[j]]]

LEMMA SaidOfNone == ASSUME NEW f PROVE Said(f, <<>>) = <<>>
BY DEF Said

LEMMA SaidSeq ==
    ASSUME NEW X, NEW Y, NEW f \in [X -> Y], NEW s \in Seq(X)
    PROVE  Said(f, s) \in Seq(Y)
<1>1. DOMAIN s = 1 .. Len(s) /\ Len(s) \in Nat /\ \A i \in 1 .. Len(s) : s[i] \in X
  OBVIOUS
<1>2. \A i \in 1 .. Len(s) : f[s[i]] \in Y
  BY <1>1
<1> QED BY <1>1, <1>2 DEF Said

LEMMA SaidAppend ==
    ASSUME NEW X, NEW Y, NEW f \in [X -> Y], NEW s \in Seq(X), NEW x \in X
    PROVE  Said(f, Append(s, x)) = Append(Said(f, s), f[x])
<1> DEFINE n == Len(s)
           t == Append(s, x)
           a == Said(f, s)
           b == Append(a, f[x])
<1>1. n \in Nat /\ DOMAIN s = 1 .. n /\ \A i \in 1 .. n : s[i] \in X
  OBVIOUS
<1>2. /\ DOMAIN t = 1 .. n + 1 /\ t[n + 1] = x
      /\ \A i \in 1 .. n : t[i] = s[i]
  BY <1>1
<1> HIDE DEF t
<1>3. a = [i \in 1 .. n |-> f[s[i]]]
  BY <1>1 DEF Said
<1>4. \A i \in 1 .. n : f[s[i]] \in Y
  BY <1>1
<1>5. a \in Seq(Y) /\ Len(a) = n
  BY <1>1, <1>3, <1>4
<1>6. Said(f, t) = [i \in 1 .. n + 1 |-> f[t[i]]]
  BY <1>2 DEF Said
<1>7. \A i \in 1 .. n : a[i] = f[s[i]]
  BY <1>3
<1> HIDE DEF a
<1>8. /\ b = [i \in 1 .. n + 1 |-> b[i]] /\ b[n + 1] = f[x]
      /\ \A i \in 1 .. n : b[i] = a[i]
  BY <1>1, <1>5
<1> HIDE DEF b
<1>9. \A i \in 1 .. n + 1 : f[t[i]] = b[i]
  <2> SUFFICES ASSUME NEW i \in 1 .. n + 1 PROVE f[t[i]] = b[i]
    OBVIOUS
  <2>1. i \in 1 .. n \/ i = n + 1
    BY <1>1
  <2>2. CASE i \in 1 .. n
    BY <1>2, <1>7, <1>8, <2>2
  <2>3. CASE i = n + 1
    BY <1>2, <1>8, <2>3
  <2> QED BY <2>1, <2>2, <2>3
<1>10. Said(f, t) = b
  BY <1>6, <1>8, <1>9
<1> QED BY <1>10 DEF t, b, a

\* To select what a function makes of some elements is to select the elements.
FoundIn(W, f, V) == \A x \in DOMAIN f : x \in W <=> f[x] \in V
Maps(f, s, X, Y) == f \in [X -> Y] /\ s \in Seq(X)
LEMMA ThoseSaid ==
    ASSUME NEW X, NEW Y, NEW f, NEW s, NEW V, NEW W, Maps(f, s, X, Y), FoundIn(W, f, V)
    PROVE  Those(Said(f, s), V) = Said(f, Those(s, W))
<1> f \in [X -> Y] /\ s \in Seq(X)
  BY DEF Maps
<1> DEFINE Good == {t \in Seq(X) : Those(Said(f, t), V) = Said(f, Those(t, W))}
<1>1. <<>> \in Good
  BY ThoseOfNone, SaidOfNone
<1>2. ASSUME NEW t \in Seq(X), NEW x \in X, t \in Good
      PROVE  Append(t, x) \in Good
  <2>1. /\ Append(t, x) \in Seq(X) /\ f[x] \in Y /\ (x \in W <=> f[x] \in V)
        /\ Those(Said(f, t), V) = Said(f, Those(t, W))
    BY <1>2 DEF FoundIn
  <2> DEFINE r == Said(f, t)
             y == f[x]
             u == Those(t, W)
  <2>2. r \in Seq(Y) /\ y \in Y
    <3>1. r \in Seq(Y)
      BY SaidSeq
    <3> QED BY <3>1
  <2>3. Said(f, Append(t, x)) = Append(r, y)
    BY SaidAppend
  <2>4. u \in Seq(X)
    BY ThoseSeq
  <2>5. Those(Append(t, x), W) = IF x \in W THEN Append(u, x) ELSE u
    BY ThoseAppend
  <2> HIDE DEF r, u
  <2>7. Said(f, Append(u, x)) = Append(Said(f, u), y)
    BY <2>4, SaidAppend
  <2> HIDE DEF y
  <2>8. Those(Append(r, y), V) = IF y \in V THEN Append(Those(r, V), y) ELSE Those(r, V)
    BY <2>2, ThoseAppend
  <2>6. Those(Said(f, Append(t, x)), V) = Said(f, Those(Append(t, x), W))
    <3>0. Those(r, V) = Said(f, u) /\ (x \in W <=> y \in V)
      BY <2>1 DEF r, u, y
    <3>1. CASE x \in W
      <4>1. Those(Append(r, y), V) = Append(Said(f, u), y)
        BY <2>8, <3>0, <3>1
      <4>2. Those(Append(t, x), W) = Append(u, x)
        BY <2>5, <3>1
      <4> QED BY <2>3, <2>7, <4>1, <4>2
    <3>2. CASE x \notin W
      <4>1. Those(Append(r, y), V) = Said(f, u)
        BY <2>8, <3>0, <3>2
      <4>2. Those(Append(t, x), W) = u
        BY <2>5, <3>2
      <4> QED BY <2>3, <4>1, <4>2
    <3> QED BY <3>1, <3>2
  <2> QED BY <2>1, <2>6
<1>3. Seq(X) \subseteq Good
  <2> HIDE DEF Good
  <2>1. \A t \in Seq(X), x \in X : t \in Good => Append(t, x) \in Good
    BY <1>2
  <2> QED BY <1>1, <2>1, FromShorter
<1> QED BY <1>3


LEMMA SaidJoined ==
    ASSUME NEW X, NEW Y, NEW f, NEW s, NEW t, Maps(f, s, X, Y), Maps(f, t, X, Y)
    PROVE  Said(f, s \o t) = Said(f, s) \o Said(f, t)
<1>0. f \in [X -> Y] /\ s \in Seq(X) /\ t \in Seq(X)
  BY DEF Maps
<1> DEFINE n == Len(s)
           m == Len(t)
           j == s \o t
           a == Said(f, s)
           b == Said(f, t)
           k == a \o b
<1>1. n \in Nat /\ m \in Nat /\ DOMAIN s = 1 .. n /\ DOMAIN t = 1 .. m
  BY <1>0
<1>2. a = [i \in 1 .. n |-> f[s[i]]] /\ b = [i \in 1 .. m |-> f[t[i]]]
  BY <1>1 DEF Said
<1>3. /\ \A i \in 1 .. n : s[i] \in X /\ f[s[i]] \in Y
      /\ \A i \in 1 .. m : t[i] \in X /\ f[t[i]] \in Y
  BY <1>0, <1>1
<1>4. a \in Seq(Y) /\ Len(a) = n /\ b \in Seq(Y) /\ Len(b) = m
  BY <1>1, <1>2, <1>3
<1>5. DOMAIN j = 1 .. n + m
  BY <1>0, <1>1
<1>6. /\ \A i \in 1 .. n : j[i] = s[i]
      /\ \A i \in n + 1 .. n + m : j[i] = t[i - n]
  BY <1>0, <1>1
<1> HIDE DEF j
<1>7. /\ \A i \in 1 .. n : a[i] = f[s[i]]
      /\ \A i \in 1 .. m : b[i] = f[t[i]]
  BY <1>2
<1> HIDE DEF a, b
<1>8. /\ k = [i \in 1 .. n + m |-> k[i]]
      /\ \A i \in 1 .. n : k[i] = a[i]
      /\ \A i \in n + 1 .. n + m : k[i] = b[i - n]
  <2> HIDE DEF n, m
  <2>1. k \in Seq(Y)
    BY <1>4
  <2>2. Len(k) = n + m
    BY <1>4
  <2>3. \A i \in 1 .. n : k[i] = a[i]
    BY <1>1, <1>4
  <2>4. \A i \in n + 1 .. n + m : k[i] = b[i - n]
    BY <1>1, <1>4
  <2>5. k = [i \in 1 .. Len(k) |-> k[i]]
    <3> HIDE DEF k
    <3> QED BY <2>1
  <2> QED BY <2>2, <2>3, <2>4, <2>5
<1> HIDE DEF k
<1>9. \A i \in 1 .. n + m : f[j[i]] = k[i]
  <2> SUFFICES ASSUME NEW i \in 1 .. n + m PROVE f[j[i]] = k[i]
    OBVIOUS
  <2>1. i \in 1 .. n \/ (i \in n + 1 .. n + m /\ i - n \in 1 .. m)
    BY <1>1
  <2> QED BY <2>1, <1>6, <1>7, <1>8
<1>10. Said(f, j) = [i \in 1 .. n + m |-> f[j[i]]]
  BY <1>5 DEF Said
<1>11. Said(f, j) = k
  BY <1>8, <1>9, <1>10
<1> QED BY <1>11 DEF j, k, a, b

LEMMA ThoseNone ==
    ASSUME NEW X, NEW s \in Seq(X), NEW V, X \intersect V = {}
    PROVE  Those(s, V) = <<>>
<1> DEFINE Good == {t \in Seq(X) : Those(t, V) = <<>>}
<1>1. <<>> \in Good
  BY ThoseOfNone
<1>2. ASSUME NEW t \in Seq(X), NEW x \in X, t \in Good
      PROVE  Append(t, x) \in Good
  <2>1. Append(t, x) \in Seq(X) /\ x \notin V /\ Those(t, V) = <<>>
    BY <1>2
  <2> QED BY <2>1, ThoseAppend
<1>3. Seq(X) \subseteq Good
  <2> HIDE DEF Good
  <2>1. \A t \in Seq(X), x \in X : t \in Good => Append(t, x) \in Good
    BY <1>2
  <2> QED BY <1>1, <2>1, FromShorter
<1> QED BY <1>3

\* No element of B is followed by one of A, nor is in it.
InFront(s, A, B) == \A i, j \in DOMAIN s : s[i] \in B /\ s[j] \in A => j < i

\* A selection is made of those of its elements that come first and the others.
LEMMA ThoseJoined ==
    ASSUME NEW X, NEW s \in Seq(X), NEW A, NEW B, InFront(s, A, B)
    PROVE  Those(s, A) \o Those(s, B) = Those(s, A \union B)
<1> DEFINE U == A \union B
           Good == {t \in Seq(X) : InFront(t, A, B) => Those(t, A) \o Those(t, B) = Those(t, U)}
<1>1. <<>> \in Good
  <2>1. Those(<<>>, A) = <<>> /\ Those(<<>>, B) = <<>> /\ Those(<<>>, U) = <<>>
    BY ThoseOfNone
  <2>2. <<>> \o <<>> = <<>> /\ <<>> \in Seq(X)
    OBVIOUS
  <2> QED BY <2>1, <2>2
<1>2. ASSUME NEW t \in Seq(X), NEW x \in X, t \in Good
      PROVE  Append(t, x) \in Good
  <2> DEFINE t2 == Append(t, x)
             n == Len(t)
  <2>0. t2 \in Seq(X)
    OBVIOUS
  <2> SUFFICES ASSUME InFront(t2, A, B)
               PROVE  Those(t2, A) \o Those(t2, B) = Those(t2, U)
    <3> HIDE DEF t2, U
    <3> QED BY <2>0 DEF t2
  <2>1. /\ n \in Nat /\ DOMAIN t = 1 .. n /\ DOMAIN t2 = 1 .. n + 1 /\ t2[n + 1] = x
        /\ \A i \in 1 .. n : t2[i] = t[i]
    OBVIOUS
  <2>11. Those(t2, A) = IF x \in A THEN Append(Those(t, A), x) ELSE Those(t, A)
    BY ThoseAppend
  <2>12. Those(t2, B) = IF x \in B THEN Append(Those(t, B), x) ELSE Those(t, B)
    BY ThoseAppend
  <2>13. Those(t, A) \in Seq(X) /\ Those(t, B) \in Seq(X)
    BY ThoseSeq
  <2>2. /\ Those(t2, A) = IF x \in A THEN Append(Those(t, A), x) ELSE Those(t, A)
        /\ Those(t2, B) = IF x \in B THEN Append(Those(t, B), x) ELSE Those(t, B)
        /\ Those(t, A) \in Seq(X) /\ Those(t, B) \in Seq(X)
    BY <2>11, <2>12, <2>13
  <2> HIDE DEF U
  <2>3. Those(t2, U) = IF x \in U THEN Append(Those(t, U), x) ELSE Those(t, U)
    BY ThoseAppend
  <2> HIDE DEF t2
  <2>4. InFront(t, A, B)
    <3> SUFFICES ASSUME NEW i \in 1 .. n, NEW j \in 1 .. n, t[i] \in B, t[j] \in A
                 PROVE  j < i
      BY <2>1 DEF InFront
    <3>1. i \in 1 .. n + 1 /\ j \in 1 .. n + 1 /\ t2[i] \in B /\ t2[j] \in A
      BY <2>1
    <3> QED BY <2>1, <3>1 DEF InFront
  <2>5. Those(t, A) \o Those(t, B) = Those(t, U)
    BY <1>2, <2>4
  <2>6. n + 1 \in 1 .. n + 1 /\ ~(n + 1 < n + 1)
    BY <2>1
  <2>7. ~(x \in A /\ x \in B)
    BY <2>1, <2>6 DEF InFront
  <2>8. CASE x \in A
    <3>1. \A i \in 1 .. n : t[i] \notin B
      <4> SUFFICES ASSUME NEW i \in 1 .. n, t[i] \in B PROVE FALSE
        OBVIOUS
      <4>1. i \in 1 .. n + 1 /\ t2[i] \in B /\ t2[n + 1] \in A
        BY <2>1, <2>8
      <4>2. n + 1 < i
        BY <2>1, <2>6, <4>1 DEF InFront
      <4> QED BY <2>1, <4>2
    <3> DEFINE Y == X \ B
    <3>2. t \in Seq(Y)
      BY <2>1, <3>1
    <3>3. Y \intersect B = {}
      OBVIOUS
    <3> HIDE DEF Y
    <3>4. Those(t, B) = <<>>
      BY <3>2, <3>3, ThoseNone
    <3>5. x \in U /\ x \notin B
      BY <2>7, <2>8 DEF U
    <3>6. Those(t2, A) = Append(Those(t, A), x) /\ Those(t2, B) = <<>>
      BY <2>2, <2>8, <3>4, <3>5
    <3>7. Those(t, A) = Those(t, U)
      BY <2>2, <2>5, <3>4
    <3>8. Append(Those(t, A), x) \o <<>> = Append(Those(t, A), x)
      BY <2>2
    <3> QED BY <2>3, <3>5, <3>6, <3>7, <3>8
  <2>9. CASE x \in B
    <3>1. x \in U /\ x \notin A
      BY <2>7, <2>9 DEF U
    <3> DEFINE p == Those(t, A)
               q == Those(t, B)
    <3>2. p \o Append(q, x) = Append(p \o q, x)
      <4>1. p \in Seq(X) /\ q \in Seq(X)
        BY <2>2
      <4> HIDE DEF p, q
      <4> QED BY <4>1
    <3> QED BY <2>2, <2>3, <2>5, <2>9, <3>1, <3>2
  <2>10. CASE x \notin A /\ x \notin B
    <3>1. x \notin U
      BY <2>10 DEF U
    <3> QED BY <2>2, <2>3, <2>5, <2>10, <3>1
  <2> QED BY <2>8, <2>9, <2>10
<1>3. Seq(X) \subseteq Good
  <2> HIDE DEF Good
  <2>1. \A t \in Seq(X), x \in X : t \in Good => Append(t, x) \in Good
    BY <1>2
  <2> QED BY <1>1, <2>1, FromShorter
<1> QED BY <1>3

-----------------------------------------------------------------------------
(* What one chunk adds: the words whose middle is in its core, as they are *)
(* spoken, whatever it hears of the others.                                *)

LEMMA ThoseWithin ==
    ASSUME NEW X, NEW s \in Seq(X), NEW V
    PROVE  Those(s, V) \in Seq(X \intersect V)
<1> DEFINE Z == X \intersect V
           Good == {t \in Seq(X) : Those(t, V) \in Seq(Z)}
<1>1. <<>> \in Good
  <2>1. <<>> \in Seq(X) /\ <<>> \in Seq(Z)
    OBVIOUS
  <2> QED BY <2>1, ThoseOfNone
<1>2. ASSUME NEW t \in Seq(X), NEW x \in X, t \in Good
      PROVE  Append(t, x) \in Good
  <2>1. Append(t, x) \in Seq(X) /\ (x \in V => x \in Z) /\ Those(t, V) \in Seq(Z)
    BY <1>2
  <2>2. Those(Append(t, x), V) = IF x \in V THEN Append(Those(t, V), x) ELSE Those(t, V)
    BY ThoseAppend
  <2> HIDE DEF Z
  <2>3. x \in V => Append(Those(t, V), x) \in Seq(Z)
    BY <2>1
  <2>4. Those(Append(t, x), V) \in Seq(Z)
    BY <2>1, <2>2, <2>3
  <2> QED BY <2>1, <2>4
<1>3. Seq(X) \subseteq Good
  <2> HIDE DEF Good
  <2>1. \A t \in Seq(X), x \in X : t \in Good => Append(t, x) \in Good
    BY <1>2
  <2> QED BY <1>1, <2>1, FromShorter
<1> QED BY <1>3

Timed == [start : Nat, end : Nat, text : {"Letter"}]
Utterance(duration) == {w \in Timed : w.start < w.end /\ w.end <= duration /\ Short(w)}

\* A word that the window of its chunk cuts has the middle of what is left of
\* it outside the core.
LEMMA CutIsNotKept ==
    ASSUME NEW duration \in Nat, NEW a \in Nat, NEW b \in Nat, NEW from \in Nat, NEW to \in Nat,
           a <= b, from <= a, b <= to,
           from = 0 \/ from = a - Padding, to = duration \/ to = b + Padding,
           NEW w \in Utterance(duration),
           ~(from <= w.start /\ w.end <= to), w.start < to, w.end > from,
           NEW v \in Timed, v.start = Larger(w.start, from), v.end = Smaller(w.end, to)
    PROVE  ~(a <= Center(v) /\ Center(v) < b)
<1>1. /\ Padding \in Nat /\ w.start \in Nat /\ w.end \in Nat /\ w.start < w.end
      /\ w.end <= duration /\ w.end - w.start <= 2 * Padding
  BY ChunkAssumption DEF Utterance, Short, Timed
<1>2. v.start \in Nat /\ v.end \in Nat
  BY DEF Timed
<1> DEFINE length == v.end - v.start
           half == length \div 2
<1>3. v.start < v.end \/ v.start = v.end
  <2>1. v.start <= v.end
    BY <1>1, <1>2 DEF Larger, Smaller
  <2> QED BY <1>2, <2>1
<1>4. length \in Nat
  BY <1>2, <1>3
<1>5. half \in Nat /\ (length = 2 * half \/ length = 2 * half + 1)
  BY <1>4
<1>6. Center(v) = v.start + half
  BY DEF Center
<1> HIDE DEF half
<1>7. CASE w.start < from
  <2>1. v.start = from /\ v.end <= w.end /\ from = a - Padding
    BY <1>1, <1>7 DEF Larger, Smaller
  <2>2. v.end - v.start < 2 * Padding
    BY <1>1, <1>2, <1>7, <2>1
  <2>3. half < Padding
    BY <1>1, <1>2, <1>5, <2>2
  <2> QED BY <1>1, <1>2, <1>5, <1>6, <2>1, <2>3
<1>8. CASE ~(w.start < from)
  <2>1. v.start = w.start /\ w.end > to /\ v.end = to
    BY <1>1, <1>8 DEF Larger, Smaller
  <2>2. to = b + Padding
    BY <1>1, <2>1
  <2>3. length < 2 * Padding /\ v.start + length = b + Padding
    BY <1>1, <1>2, <2>1, <2>2
  <2> HIDE DEF length
  <2>4. length - half <= Padding
    BY <1>1, <1>4, <1>5, <2>3
  <2> QED BY <1>1, <1>2, <1>4, <1>5, <1>6, <2>3, <2>4
<1> QED BY <1>7, <1>8

\* Nothing is clipped, mended or left out of words that are within the audio.
LEMMA NormalOfWithin ==
    ASSUME NEW length \in Nat,
           NEW raw \in Seq({w \in Timed : w.start <= w.end /\ w.end <= length})
    PROVE  Normal(raw, length) = raw
<1> DEFINE X == {w \in Timed : w.start <= w.end /\ w.end <= length}
           clipped == [i \in DOMAIN raw |-> Clipped(raw[i], length)]
           mended == [i \in DOMAIN raw |->
                        [clipped[i] EXCEPT !.end = Larger(@, clipped[i].start)]]
<1>1. ASSUME NEW w \in X PROVE Clipped(w, length) = w /\ [w EXCEPT !.end = Larger(@, w.start)] = w
  <2>1. w \in Timed /\ w.start \in Nat /\ w.end \in Nat /\ w.start <= w.end /\ w.end <= length
    BY DEF Timed
  <2>2. Smaller(w.start, length) = w.start /\ Smaller(w.end, length) = w.end
        /\ Larger(w.end, w.start) = w.end
    BY <2>1 DEF Smaller, Larger
  <2>3. [w EXCEPT !.start = w.start, !.end = w.end] = w /\ [w EXCEPT !.end = w.end] = w
    BY <2>1 DEF Timed
  <2>4. /\ Clipped(w, length) = [w EXCEPT !.start = Smaller(w.start, length),
                                          !.end = Smaller(w.end, length)]
        /\ [w EXCEPT !.end = Larger(@, w.start)] = [w EXCEPT !.end = Larger(w.end, w.start)]
    BY DEF Clipped
  <2> QED BY <2>2, <2>3, <2>4
<1>2. /\ DOMAIN raw = 1 .. Len(raw) /\ Len(raw) \in Nat /\ raw = [i \in 1 .. Len(raw) |-> raw[i]]
      /\ \A i \in DOMAIN raw : raw[i] \in X
  OBVIOUS
<1> HIDE DEF X
<1>3. \A i \in DOMAIN raw : clipped[i] = raw[i]
  BY <1>1, <1>2
<1> HIDE DEF clipped
<1>4. \A i \in DOMAIN raw : mended[i] = raw[i]
  BY <1>1, <1>2, <1>3
<1>5. mended = raw
  BY <1>2, <1>4
<1>6. Normal(raw, length) = Those(mended, {w \in Elements(mended) : w.text # "Blank"})
  BY DEF Normal, clipped
<1> HIDE DEF mended
<1> DEFINE E == Elements(raw)
           V == {w \in E : w.text # "Blank"}
<1>7. \A w \in E : w \in X
  BY <1>2 DEF Elements
<1>8. raw \in Seq(E)
  BY <1>2 DEF Elements
<1>9. E \subseteq V
  BY <1>7 DEF X, Timed
<1> HIDE DEF E, V
<1>10. Those(raw, V) = raw
  BY <1>8, <1>9, ThoseAll
<1> QED BY <1>5, <1>6, <1>10 DEF V, E

IndexList(s) == [i \in DOMAIN s |-> i]
OwnedBy(spoken, first, end) == {i \in DOMAIN spoken : /\ first <= Center(spoken[i])
                                                       /\ Center(spoken[i]) < end}

LEMMA ChunkKeepsItsWords ==
    ASSUME NEW duration \in Nat, NEW chunk \in ChunkSet(duration),
           NEW spoken \in Seq(Utterance(duration)),
           NEW raw \in ExtractRange(spoken, chunk.read), NEW words
    PROVE  AppendChunkWords(words, Normal(raw, chunk.read[2] - chunk.read[1]), chunk)
             = words \o Said(spoken, Those(IndexList(spoken),
                                           OwnedBy(spoken, chunk.core[1], chunk.core[2])))
<1>1. PICK p \in (0 .. duration) \X (0 .. duration) :
         p[1] <= p[2] /\ chunk = MakeChunk(p[1], p[2], duration)
  BY DEF ChunkSet
<1> DEFINE a == p[1]
           b == p[2]
           from == chunk.read[1]
           to == chunk.read[2]
<1>2. /\ a \in Nat /\ b \in Nat /\ a <= b /\ b <= duration
      /\ Padding \in Nat
  BY <1>1, ChunkAssumption
<1>3. /\ chunk.core[1] = a /\ chunk.core[2] = b
      /\ from \in Nat /\ to \in Nat /\ from <= a /\ b <= to /\ to <= duration
      /\ from = 0 \/ from = a - Padding
      /\ to = duration \/ to = b + Padding
  BY <1>1, <1>2 DEF MakeChunk, Minus, Smaller
<1>4. \A w \in Utterance(duration) : a <= Center(w) /\ Center(w) < b => from <= w.start /\ w.end <= to
  <2> SUFFICES ASSUME NEW w \in Utterance(duration), a <= Center(w), Center(w) < b
               PROVE  from <= w.start /\ w.end <= to
    OBVIOUS
  <2>1. /\ w.start \in Nat /\ w.end \in Nat /\ w.start <= w.end /\ w.end <= duration
        /\ Short(w)
    BY DEF Utterance, Timed
  <2>2. LET read == MakeChunk(a, b, duration).read IN read[1] <= w.start /\ w.end <= read[2]
    <3> HIDE DEF a, b
    <3> QED BY <1>2, <2>1, OwnedWordsAreHeardWhole
  <2> QED BY <1>1, <2>2
<1> HIDE DEF a, b
<1> DEFINE window == chunk.read
           I == DOMAIN spoken
           Inside(w) == window[1] <= w.start /\ w.end <= window[2]
           Cut(w) == ~Inside(w) /\ w.start < window[2] /\ w.end > window[1]
           Heard(w) == [w EXCEPT !.start = Larger(@, window[1]) - window[1],
                                 !.end = Smaller(@, window[2]) - window[1]]
           all == IndexList(spoken)
           whole == {i \in I : Inside(spoken[i])}
<1>5. PICK kept \in SUBSET {i \in I : Cut(spoken[i])} :
         LET indices == Those(all, kept \union whole)
         IN  raw = [j \in DOMAIN indices |-> Heard(spoken[indices[j]])]
  BY DEF ExtractRange, IndexList
<1> DEFINE A == kept \union whole
           indices == Those(all, A)
           H == [i \in A |-> Heard(spoken[i])]
           O == [i \in A |-> [H[i] EXCEPT !.start = @ + from, !.end = @ + from]]
           Piece == {w \in Timed : w.start <= w.end /\ w.end <= to - from}
<1>6. all \in Seq(I)
  BY DEF IndexList
<1>7. A \subseteq I /\ I \intersect A = A
  OBVIOUS
<1>8. indices \in Seq(A)
  <2> HIDE DEF A, I, all
  <2> QED BY <1>6, <1>7, ThoseWithin
<1>9. ASSUME NEW i \in A
      PROVE  /\ spoken[i] \in Utterance(duration)
             /\ Inside(spoken[i]) \/ Cut(spoken[i])
             /\ H[i] \in Piece
             /\ O[i] \in Timed
             /\ O[i].start = Larger(spoken[i].start, from)
             /\ O[i].end = Smaller(spoken[i].end, to)
             /\ Inside(spoken[i]) => O[i] = spoken[i]
  <2>1. spoken[i] \in Utterance(duration)
    OBVIOUS
  <2>2. Inside(spoken[i]) \/ Cut(spoken[i])
    OBVIOUS
  <2> DEFINE w == spoken[i]
             lo == Larger(w.start, from)
             hi == Smaller(w.end, to)
  <2>3. w.start \in Nat /\ w.end \in Nat /\ w.start < w.end /\ w.text = "Letter"
        /\ w = [start |-> w.start, end |-> w.end, text |-> "Letter"]
    BY <2>1 DEF Utterance, Timed
  <2>4. H[i] = [w EXCEPT !.start = lo - from, !.end = hi - from]
    OBVIOUS
  <2>5. (from <= w.start /\ w.end <= to) \/ (w.start < to /\ w.end > from)
    BY <2>2
  <2>51. Inside(w) => from <= w.start /\ w.end <= to
    OBVIOUS
  <2>6. /\ lo - from \in Nat /\ hi - from \in Nat /\ lo - from <= hi - from
        /\ hi - from <= to - from
        /\ (lo - from) + from = lo /\ (hi - from) + from = hi
    <3>1. CASE from <= w.start /\ w.end <= to
      <4>1. lo = w.start /\ hi = w.end
        BY <1>3, <2>3, <3>1 DEF Larger, Smaller
      <4> HIDE DEF lo, hi
      <4> QED BY <1>3, <2>3, <3>1, <4>1
    <3>2. CASE w.start < to /\ w.end > from
      <4>2. lo >= from /\ lo >= w.start /\ hi <= w.end /\ hi <= to
        BY <1>3, <2>3 DEF Larger, Smaller
      <4>3. lo \in Nat /\ hi \in Nat
        BY <1>3, <2>3 DEF Larger, Smaller
      <4>4. (lo = w.start \/ lo = from) /\ (hi = w.end \/ hi = to)
        BY DEF Larger, Smaller
      <4>5. a <= b
        BY <1>2
      <4>6. lo <= hi
        <5> HIDE DEF lo, hi
        <5>1. a \in Nat /\ b \in Nat /\ from <= a /\ b <= to
          BY <1>2, <1>3
        <5> HIDE DEF from, to
        <5>2. from \in Nat /\ to \in Nat /\ from <= to
          BY <1>3, <4>5, <5>1
        <5>3. w.start <= w.end /\ w.start <= to /\ from <= w.end
          BY <2>3, <3>2, <5>2
        <5> HIDE DEF w
        <5> QED BY <4>4, <5>2, <5>3
      <4> HIDE DEF lo, hi
      <4>7. from \in Nat /\ to \in Nat
        BY <1>3
      <4> HIDE DEF from, to
      <4> QED BY <4>2, <4>3, <4>6, <4>7
    <3> QED BY <2>5, <3>1, <3>2
  <2>7. from <= w.start /\ w.end <= to => lo = w.start /\ hi = w.end
    BY <1>3, <2>3 DEF Larger, Smaller
  <2>8. O[i] = [H[i] EXCEPT !.start = @ + from, !.end = @ + from]
    OBVIOUS
  <2> HIDE DEF H, O, Inside, Cut
  <2> HIDE DEF w, lo, hi
  <2>9. H[i] = [start |-> lo - from, end |-> hi - from, text |-> "Letter"]
    BY <2>3, <2>4
  <2>10. O[i] = [start |-> (lo - from) + from, end |-> (hi - from) + from, text |-> "Letter"]
    <3> DEFINE x == lo - from
               y == hi - from
               v == [start |-> x, end |-> y, text |-> "Letter"]
    <3> HIDE DEF from, x, y
    <3>1. v.start = x /\ v.end = y
      OBVIOUS
    <3>2. [v EXCEPT !.start = x + from, !.end = y + from]
             = [start |-> x + from, end |-> y + from, text |-> "Letter"]
      <4>1. \A k, m \in Nat : \A u \in Timed :
               [u EXCEPT !.start = k, !.end = m] = [start |-> k, end |-> m, text |-> "Letter"]
        <5> SUFFICES ASSUME NEW k \in Nat, NEW m \in Nat, NEW u \in Timed
                     PROVE  [u EXCEPT !.start = k, !.end = m]
                               = [start |-> k, end |-> m, text |-> "Letter"]
          OBVIOUS
        <5> DEFINE r == [u EXCEPT !.start = k, !.end = m]
        <5>1. r \in Timed
          BY DEF Timed
        <5>2. r.start = k /\ r.end = m /\ r.text = "Letter"
          BY DEF Timed
        <5> HIDE DEF r
        <5>3. r = [start |-> r.start, end |-> r.end, text |-> r.text]
          BY <5>1 DEF Timed
        <5> QED BY <5>2, <5>3 DEF r
      <4>2. v \in Timed /\ x + from \in Nat /\ y + from \in Nat
        BY <1>3, <2>6 DEF Timed, x, y
      <4> HIDE DEF v
      <4> QED BY <4>1, <4>2
    <3>3. [v EXCEPT !.start = @ + from, !.end = @ + from]
             = [v EXCEPT !.start = x + from, !.end = y + from]
      BY <3>1
    <3>4. H[i] = v
      BY <2>9 DEF x, y
    <3>5. O[i] = [start |-> x + from, end |-> y + from, text |-> "Letter"]
      BY <2>8, <3>2, <3>3, <3>4
    <3> QED BY <3>5 DEF x, y
  <2>11. O[i] = [start |-> lo, end |-> hi, text |-> "Letter"]
    BY <2>6, <2>10
  <2>12. H[i] \in Piece
    BY <2>6, <2>9 DEF Timed
  <2>13. lo \in Nat /\ hi \in Nat
    BY <1>3, <2>3 DEF lo, hi, Larger, Smaller
  <2>14. O[i] \in Timed
    BY <2>11, <2>13 DEF Timed
  <2>15. O[i].start = lo /\ O[i].end = hi
    BY <2>11
  <2>16. Inside(w) => O[i] = w
    BY <2>3, <2>51, <2>7, <2>11
  <2> QED BY <2>1, <2>2, <2>12, <2>14, <2>15, <2>16 DEF w, lo, hi
<1>10. raw = Said(H, indices)
  <2>1. \A j \in DOMAIN indices : indices[j] \in A
    BY <1>8
  <2>2. \A i \in A : H[i] = Heard(spoken[i])
    OBVIOUS
  <2>3. raw = [j \in DOMAIN indices |-> Heard(spoken[indices[j]])]
    BY <1>5
  <2> HIDE DEF indices, H, Heard, A
  <2> QED BY <2>1, <2>2, <2>3 DEF Said
<1>11. H \in [A -> Piece] /\ O \in [A -> Timed]
  <2>1. (\A i \in A : H[i] \in Piece) /\ (\A i \in A : O[i] \in Timed)
    BY <1>9
  <2>2. H = [i \in A |-> H[i]] /\ O = [i \in A |-> O[i]]
    OBVIOUS
  <2> HIDE DEF H, O, A, Piece
  <2> QED BY <2>1, <2>2
<1>12. Normal(raw, to - from) = raw
  <2>1. raw \in Seq(Piece)
    <3> HIDE DEF H, A, Piece, indices
    <3> QED BY <1>8, <1>10, <1>11, SaidSeq
  <2>2. to - from \in Nat
    <3> HIDE DEF from, to, H, O, A, Piece, indices, Heard, Cut, Inside
    <3>1. from \in Nat /\ to \in Nat /\ from <= to
      BY <1>2, <1>3
    <3> QED BY <3>1
  <2> QED BY <2>1, <2>2, NormalOfWithin
<1> DEFINE moved == ApplyChunkOffset(raw, from)
<1>13. moved = Said(O, indices)
  <2>1. \A j \in DOMAIN indices : indices[j] \in A
    BY <1>8
  <2>2. \A i \in A : O[i] = [H[i] EXCEPT !.start = @ + from, !.end = @ + from]
    OBVIOUS
  <2> HIDE DEF O, H, A, indices, from
  <2>3. /\ DOMAIN raw = DOMAIN indices
        /\ \A j \in DOMAIN indices : raw[j] = H[indices[j]]
    BY <1>10 DEF Said
  <2>4. moved = [j \in DOMAIN indices |->
                   [H[indices[j]] EXCEPT !.start = @ + from, !.end = @ + from]]
    BY <2>3 DEF ApplyChunkOffset
  <2> HIDE DEF moved
  <2>5. \A j \in DOMAIN indices :
           O[indices[j]] = [H[indices[j]] EXCEPT !.start = @ + from, !.end = @ + from]
    BY <2>1, <2>2
  <2> QED BY <2>4, <2>5 DEF Said
<1> DEFINE V == {w \in Elements(moved) : chunk.core[1] <= Center(w) /\ Center(w) < chunk.core[2]}
           V2 == {w \in Timed : a <= Center(w) /\ Center(w) < b}
           P == OwnedBy(spoken, chunk.core[1], chunk.core[2])
<1>14. RetainCoreWords(moved, chunk) = Those(moved, V)
  BY DEF RetainCoreWords
<1>15. Those(moved, V) = Those(moved, V2)
  <2>1. moved \in Seq(Timed)
    <3> HIDE DEF moved, O, A, indices
    <3> QED BY <1>8, <1>11, <1>13, SaidSeq
  <2> DEFINE E == Elements(moved)
  <2> HIDE DEF moved
  <2>2. moved \in Seq(E) /\ E \subseteq Timed
    BY <2>1 DEF Elements
  <2>3. V \intersect E = V2 \intersect E
    BY <1>3, <2>2
  <2> HIDE DEF E, V, V2
  <2> QED BY <2>2, <2>3, ThoseSame
<1>16. {i \in A : O[i] \in V2} = P
  <2>1. ASSUME NEW i \in P PROVE i \in A /\ O[i] \in V2
    <3>1. /\ i \in I /\ a <= Center(spoken[i]) /\ Center(spoken[i]) < b
          /\ spoken[i] \in Utterance(duration)
      BY <1>3 DEF OwnedBy
    <3>2. Inside(spoken[i]) /\ i \in A
      BY <1>4, <3>1
    <3>3. O[i] = spoken[i] /\ O[i] \in Timed
      BY <1>9, <3>2
    <3> HIDE DEF O
    <3> QED BY <3>1, <3>2, <3>3
  <2>2. ASSUME NEW i \in A, O[i] \in V2 PROVE i \in P
    <3> DEFINE w == spoken[i]
               v == O[i]
    <3>1. /\ w \in Utterance(duration) /\ (Inside(w) \/ Cut(w))
          /\ v \in Timed /\ v.start = Larger(w.start, from) /\ v.end = Smaller(w.end, to)
          /\ Inside(w) => v = w
      BY <1>9
    <3>2. a <= Center(v) /\ Center(v) < b
      BY <2>2
    <3>3. i \in I
      BY <1>7
    <3>4. Cut(w) => ~(from <= w.start /\ w.end <= to) /\ w.start < to /\ w.end > from
      OBVIOUS
    <3> HIDE DEF v, O, Cut
    <3>5. CASE Inside(w)
      <4>1. a <= Center(spoken[i]) /\ Center(spoken[i]) < b
        BY <3>1, <3>2, <3>5
      <4> QED BY <1>3, <3>3, <4>1 DEF OwnedBy
    <3>6. CASE Cut(w)
      <4>1. ~(from <= w.start /\ w.end <= to) /\ w.start < to /\ w.end > from
        BY <3>4, <3>6
      <4> HIDE DEF w, from, to, Inside
      <4> QED BY <1>2, <1>3, <3>1, <3>2, <4>1, CutIsNotKept
    <3> QED BY <3>1, <3>5, <3>6
  <2>3. P \subseteq {i \in A : O[i] \in V2}
    BY <2>1
  <2>4. {i \in A : O[i] \in V2} \subseteq P
    BY <2>2
  <2> QED BY <2>3, <2>4
<1> DEFINE t == Those(all, P)
<1>17. Those(moved, V2) = Said(O, Those(indices, P))
  <2>1. \A i \in A : i \in P <=> O[i] \in V2
    BY <1>16
  <2> HIDE DEF moved, O, A, indices, V2, P
  <2>2. FoundIn(P, O, V2)
    BY <1>11, <2>1 DEF FoundIn
  <2>3. indices \in Seq(A) /\ O \in [A -> Timed]
    BY <1>8, <1>11
  <2>4. Those(Said(O, indices), V2) = Said(O, Those(indices, P))
    <3>1. Maps(O, indices, A, Timed)
      BY <2>3 DEF Maps
    <3> QED BY <2>2, <3>1, ThoseSaid
  <2> QED BY <1>13, <2>4
<1>18. Those(indices, P) = t
  <2>1. A \intersect P = P
    BY <1>16
  <2> HIDE DEF A, P, I, all
  <2>2. Those(Those(all, A), P) = Those(all, A \intersect P)
    BY <1>6, ThoseTwice
  <2> QED BY <2>1, <2>2
<1>19. Said(O, t) = Said(spoken, t)
  <2>1. \A i \in P : O[i] = spoken[i]
    <3> SUFFICES ASSUME NEW i \in P PROVE O[i] = spoken[i]
      OBVIOUS
    <3>1. /\ i \in I /\ a <= Center(spoken[i]) /\ Center(spoken[i]) < b
          /\ spoken[i] \in Utterance(duration)
      BY <1>3 DEF OwnedBy
    <3>2. Inside(spoken[i]) /\ i \in A
      BY <1>4, <3>1
    <3> QED BY <1>9, <3>2
  <2>2. t \in Seq(I \intersect P)
    <3> HIDE DEF I, P, all
    <3> QED BY <1>6, ThoseWithin
  <2> HIDE DEF t, O, P
  <2>3. \A j \in DOMAIN t : O[t[j]] = spoken[t[j]]
    BY <2>1, <2>2
  <2> QED BY <2>3 DEF Said
<1>20. RetainCoreWords(moved, chunk) = Said(spoken, t)
  <2> HIDE DEF moved, O, V, V2, P, t, indices
  <2> QED BY <1>14, <1>15, <1>17, <1>18, <1>19
<1>21. AppendChunkWords(words, raw, chunk) = words \o RetainCoreWords(moved, chunk)
  BY DEF AppendChunkWords
<1> HIDE DEF moved, t
<1> QED BY <1>12, <1>20, <1>21 DEF t

-----------------------------------------------------------------------------
(* The words of all chunks. *)

LEMMA CenterInside ==
    ASSUME NEW duration, NEW w \in Utterance(duration)
    PROVE  Center(w) \in Nat /\ w.start <= Center(w) /\ Center(w) < w.end
<1>1. w.start \in Nat /\ w.end \in Nat /\ w.start < w.end
  BY DEF Utterance, Timed
<1> DEFINE length == w.end - w.start
           half == length \div 2
<1>2. length \in Nat /\ length > 0
  BY <1>1
<1>3. half \in Nat /\ (length = 2 * half \/ length = 2 * half + 1)
  BY <1>2
<1>4. Center(w) = w.start + half
  BY DEF Center
<1> HIDE DEF half
<1> QED BY <1>1, <1>2, <1>3, <1>4

\* The words of a recording, one after the other.
Sentence(words, duration) ==
    /\ words \in Seq(Utterance(duration))
    /\ \A i, j \in DOMAIN words : i < j => words[i].end <= words[j].start

LEMMA SpeechIsSentence ==
    ASSUME NEW duration \in Nat, NEW words \in Speech(duration)
    PROVE  Sentence(words, duration)
<1> DEFINE single == {Word(p[1], p[2], "Letter") :
                        p \in {q \in (0 .. duration) \X (0 .. duration) :
                                 q[2] - q[1] \in 1 .. 2 * Padding}}
<1>1. single \subseteq Utterance(duration)
  <2> SUFFICES ASSUME NEW q \in (0 .. duration) \X (0 .. duration),
                      q[2] - q[1] \in 1 .. 2 * Padding
               PROVE  Word(q[1], q[2], "Letter") \in Utterance(duration)
    OBVIOUS
  <2> DEFINE w == Word(q[1], q[2], "Letter")
  <2>1. w.start = q[1] /\ w.end = q[2] /\ w \in Timed
    BY DEF Word, Timed
  <2>2. q[1] \in Nat /\ q[2] \in Nat /\ q[2] <= duration /\ q[1] < q[2] /\ q[2] - q[1] <= 2 * Padding
    BY ChunkAssumption
  <2> HIDE DEF w
  <2>3. w \in Utterance(duration)
    BY <2>1, <2>2 DEF Utterance, Short
  <2> QED BY <2>3 DEF w
<1>2. (\E w \in single : words = <<w>>)
      \/ (words \in single \X single /\ words[1].end <= words[2].start)
  BY DEF Speech
<1> HIDE DEF single
<1>3. CASE \E w \in single : words = <<w>>
  <2>1. PICK w \in single : words = <<w>>
    BY <1>3
  <2>2. words \in Seq(Utterance(duration))
    BY <1>1, <2>1
  <2>3. \A i \in DOMAIN words : i = 1
    BY <2>1
  <2>4. \A i, j \in DOMAIN words : ~(i < j)
    BY <2>3
  <2> QED BY <2>2, <2>4 DEF Sentence
<1>4. CASE words \in single \X single /\ words[1].end <= words[2].start
  <2>1. words \in Seq(Utterance(duration)) /\ DOMAIN words = 1 .. 2
    <3>1. PICK first \in single, second \in single : words = <<first, second>>
      BY <1>4
    <3>2. first \in Utterance(duration) /\ second \in Utterance(duration)
      BY <1>1
    <3> QED BY <3>1, <3>2
  <2>2. \A i, j \in 1 .. 2 : i < j => i = 1 /\ j = 2
    OBVIOUS
  <2> QED BY <1>4, <2>1, <2>2 DEF Sentence
<1> QED BY <1>2, <1>3, <1>4

\* What the chunks keep whose cores end at some time.
KeptUpto(spoken, time) == Said(spoken, Those(IndexList(spoken), OwnedBy(spoken, 0, time)))

LEMMA ListOfIndexes ==
    ASSUME NEW X, NEW s \in Seq(X)
    PROVE  /\ IndexList(s) \in Seq(DOMAIN s) /\ DOMAIN IndexList(s) = DOMAIN s
           /\ \A i \in DOMAIN s : IndexList(s)[i] = i
           /\ s \in [DOMAIN s -> X]
BY DEF IndexList

LEMMA NextCore ==
    ASSUME NEW duration \in Nat, NEW spoken, Sentence(spoken, duration),
           NEW mid \in Nat, NEW end \in Nat, mid <= end
    PROVE  KeptUpto(spoken, mid)
             \o Said(spoken, Those(IndexList(spoken), OwnedBy(spoken, mid, end)))
             = KeptUpto(spoken, end)
<1> DEFINE all == IndexList(spoken)
           I == DOMAIN spoken
           A == OwnedBy(spoken, 0, mid)
           B == OwnedBy(spoken, mid, end)
           U == OwnedBy(spoken, 0, end)
           Y == Utterance(duration)
<1>1. spoken \in Seq(Y)
  BY DEF Sentence
<1>2. /\ all \in Seq(I) /\ DOMAIN all = I /\ (\A i \in I : all[i] = i)
      /\ spoken \in [I -> Y]
  <2> HIDE DEF Y
  <2> QED BY <1>1, ListOfIndexes
<1>3. \A i \in I : /\ spoken[i] \in Y
                   /\ Center(spoken[i]) \in Nat /\ spoken[i].start <= Center(spoken[i])
                   /\ Center(spoken[i]) < spoken[i].end
                   /\ spoken[i].start \in Nat /\ spoken[i].end \in Nat
  <2> SUFFICES ASSUME NEW i \in I
               PROVE  /\ spoken[i] \in Y
                      /\ Center(spoken[i]) \in Nat /\ spoken[i].start <= Center(spoken[i])
                      /\ Center(spoken[i]) < spoken[i].end
                      /\ spoken[i].start \in Nat /\ spoken[i].end \in Nat
    OBVIOUS
  <2>1. spoken[i] \in Y
    BY <1>1
  <2>2. spoken[i].start \in Nat /\ spoken[i].end \in Nat
    BY <2>1 DEF Utterance, Timed
  <2> QED BY <2>1, <2>2, CenterInside
<1>4. \A i, j \in I : i < j => spoken[i].end <= spoken[j].start
  BY DEF Sentence
<1>5. \A i \in B, j \in A : j < i
  <2> SUFFICES ASSUME NEW i \in B, NEW j \in A, ~(j < i) PROVE FALSE
    OBVIOUS
  <2>1. i \in I /\ j \in I /\ Center(spoken[j]) < mid /\ mid <= Center(spoken[i])
    BY DEF OwnedBy
  <2>2. I \subseteq Nat
    BY <1>1
  <2>3. i < j \/ i = j
    BY <2>1, <2>2
  <2>4. i # j
    BY <1>3, <2>1
  <2>5. spoken[i].end <= spoken[j].start
    BY <1>4, <2>1, <2>3, <2>4
  <2> QED BY <1>3, <2>1, <2>5
<1>6. A \union B = U
  <2> SUFFICES ASSUME NEW i \in I
               PROVE  (i \in A \/ i \in B) <=> i \in U
    BY DEF OwnedBy
  <2>1. Center(spoken[i]) \in Nat
    BY <1>3
  <2> QED BY <2>1 DEF OwnedBy
<1> HIDE DEF I, A, B, U, Y, all
<1>7. InFront(all, A, B)
  BY <1>2, <1>5 DEF InFront
<1>8. Those(all, A) \o Those(all, B) = Those(all, U)
  BY <1>2, <1>6, <1>7, ThoseJoined
<1>9. Those(all, A) \in Seq(I) /\ Those(all, B) \in Seq(I)
  BY <1>2, ThoseSeq
<1> DEFINE p == Those(all, A)
           q == Those(all, B)
<1>10. Said(spoken, p \o q) = Said(spoken, p) \o Said(spoken, q)
  <2>1. Maps(spoken, p, I, Y) /\ Maps(spoken, q, I, Y)
    BY <1>2, <1>9 DEF Maps
  <2> HIDE DEF p, q
  <2> QED BY <2>1, SaidJoined
<1> QED BY <1>8, <1>10 DEF KeptUpto, all, A, B, U

LEMMA NothingYet ==
    ASSUME NEW duration \in Nat, NEW spoken, Sentence(spoken, duration)
    PROVE  KeptUpto(spoken, 0) = <<>>
<1>1. spoken \in Seq(Utterance(duration))
  BY DEF Sentence
<1> DEFINE U == OwnedBy(spoken, 0, 0)
           I == DOMAIN spoken
<1>2. \A i \in I : Center(spoken[i]) \in Nat
  <2>1. \A i \in I : spoken[i] \in Utterance(duration)
    BY <1>1
  <2> QED BY <2>1, CenterInside
<1>3. I \intersect U = {}
  BY <1>2 DEF OwnedBy
<1>4. IndexList(spoken) \in Seq(I)
  <2> DEFINE Y == Utterance(duration)
  <2> HIDE DEF Y
  <2> QED BY <1>1, ListOfIndexes DEF Y
<1> HIDE DEF U, I
<1>5. Those(IndexList(spoken), U) = <<>>
  BY <1>3, <1>4, ThoseNone
<1> QED BY <1>5, SaidOfNone DEF KeptUpto, U

LEMMA AllOfThem ==
    ASSUME NEW duration \in Nat, NEW spoken, Sentence(spoken, duration)
    PROVE  KeptUpto(spoken, duration) = spoken
<1> DEFINE Y == Utterance(duration)
           U == OwnedBy(spoken, 0, duration)
           I == DOMAIN spoken
           all == IndexList(spoken)
<1>1. spoken \in Seq(Y)
  BY DEF Sentence
<1>2. I \subseteq U
  <2> SUFFICES ASSUME NEW i \in I PROVE i \in U
    OBVIOUS
  <2>1. spoken[i] \in Y
    BY <1>1
  <2>2. /\ Center(spoken[i]) \in Nat /\ Center(spoken[i]) < spoken[i].end
        /\ spoken[i].end <= duration /\ spoken[i].end \in Nat
    BY <2>1, CenterInside DEF Utterance, Timed
  <2>3. 0 <= Center(spoken[i]) /\ Center(spoken[i]) < duration
    BY <2>2
  <2> QED BY <2>3 DEF OwnedBy
<1>3. all \in Seq(I) /\ DOMAIN all = I /\ (\A i \in I : all[i] = i)
  <2> HIDE DEF Y
  <2> QED BY <1>1, ListOfIndexes
<1>4. spoken = [i \in I |-> spoken[i]]
  BY <1>1
<1> HIDE DEF U, I, all
<1>5. Those(all, U) = all
  BY <1>2, <1>3, ThoseAll
<1>6. Said(spoken, all) = spoken
  BY <1>3, <1>4 DEF Said
<1> QED BY <1>5, <1>6 DEF KeptUpto, all, U

LEMMA AnalysisTypes ==
    ASSUME NEW duration \in Nat, NEW loudness \in [1 .. duration -> Nat]
    PROVE  Silences(loudness, duration) \subseteq SilenceSet /\ Samples(loudness) \subseteq SampleSet
<1>1. Len(loudness) = duration /\ loudness \in Seq(Nat)
  OBVIOUS
<1>2. Samples(loudness) \subseteq SampleSet
  BY DEF Samples, SampleSet
<1> DEFINE EndOf(b) == IF b = duration + 1 THEN duration ELSE Smaller(b - 1, duration)
<1>3. \A r \in Silences(loudness, duration) : \E ab \in (1 .. duration) \X (2 .. duration + 1) :
         r = <<ab[1] - 1, EndOf(ab[2])>>
  BY <1>1 DEF Silences
<1>4. \A ab \in (1 .. duration) \X (2 .. duration + 1) : ab[1] - 1 \in Nat /\ EndOf(ab[2]) \in Nat
  BY DEF Smaller
<1> HIDE DEF EndOf
<1>5. Silences(loudness, duration) \subseteq SilenceSet
  BY <1>3, <1>4 DEF SilenceSet
<1> QED BY <1>2, <1>5

\* A recording and its plan.
IsRecording(s) ==
    /\ s = [route |-> "Chunked", plan |-> s.plan, duration |-> s.duration,
            spoken |-> s.spoken, chunk |-> s.chunk]
    /\ s.duration \in Nat /\ s.plan \in Seq(ChunkSet(s.duration))
    /\ ValidPlan(s.plan, s.duration)

\* Where the core of the next chunk begins, or the audio ends.
Reached(s) == IF s.chunk > Len(s.plan) THEN s.duration ELSE s.plan[s.chunk].core[1]

\* Between two chunks exactly the words are heard whose middle is in the
\* cores so far.
HeardInv ==
    /\ pc \in {"Start", "Speak"} => heard = <<>>
    /\ pc = "Speak" => source.route = "Chunked"
    /\ pc \in {"Speak", "Hear"} /\ source.route = "Chunked" => IsRecording(source)
    /\ pc = "Hear" /\ source.route = "Chunked" =>
          /\ Sentence(source.spoken, source.duration)
          /\ source.chunk \in 1 .. Len(source.plan) + 1
          /\ heard = KeptUpto(source.spoken, Reached(source))

LEMMA RecordHeard == ASSUME HeardInv, Record PROVE HeardInv'
<1>1. PICK duration \in Durations, limit \in Limits :
      \E loudness \in [1 .. duration -> Loudness] :
          LET max == Smaller(GlobalMax, limit)
              plan == Build(duration, max, Silences(loudness, duration), Samples(loudness))
          IN  IF ValidOptions(duration, max) /\ ValidPlan(plan, duration)
              THEN /\ source' = [route |-> "Chunked", plan |-> plan, duration |-> duration,
                                 spoken |-> <<>>, chunk |-> 0]
                   /\ pc' = "Speak"
              ELSE source' = NoSource /\ pc' = "Refused"
  BY DEF Record
<1>2. PICK loudness \in [1 .. duration -> Loudness] :
          LET max == Smaller(GlobalMax, limit)
              plan == Build(duration, max, Silences(loudness, duration), Samples(loudness))
          IN  IF ValidOptions(duration, max) /\ ValidPlan(plan, duration)
              THEN /\ source' = [route |-> "Chunked", plan |-> plan, duration |-> duration,
                                 spoken |-> <<>>, chunk |-> 0]
                   /\ pc' = "Speak"
              ELSE source' = NoSource /\ pc' = "Refused"
  BY <1>1
<1>3. duration \in Nat /\ limit \in Nat /\ loudness \in [1 .. duration -> Nat] /\ GlobalMax \in Nat
  BY FlowAssumption, ChunkAssumption
<1> DEFINE max == Smaller(GlobalMax, limit)
           silences == Silences(loudness, duration)
           samples == Samples(loudness)
           plan == Build(duration, max, silences, samples)
           X == ChunkSet(duration)
<1>4. max \in Nat
  BY <1>3 DEF Smaller
<1>5. silences \subseteq SilenceSet /\ samples \subseteq SampleSet
  BY <1>3, AnalysisTypes
<1>6. plan \in Seq(X)
  <2> HIDE DEF max, silences, samples
  <2> QED BY <1>3, <1>4, <1>5, PlanChunks
<1>7. heard' = <<>>
  BY DEF Record, HeardInv
<1>8. \/ /\ ValidPlan(plan, duration)
         /\ source' = [route |-> "Chunked", plan |-> plan, duration |-> duration,
                       spoken |-> <<>>, chunk |-> 0]
         /\ pc' = "Speak"
      \/ pc' = "Refused"
  BY <1>2
<1> HIDE DEF plan, X
<1>9. CASE /\ ValidPlan(plan, duration)
           /\ source' = [route |-> "Chunked", plan |-> plan, duration |-> duration,
                         spoken |-> <<>>, chunk |-> 0]
           /\ pc' = "Speak"
  <2>1. /\ source'.route = "Chunked" /\ source'.plan = plan /\ source'.duration = duration
        /\ source'.spoken = <<>> /\ source'.chunk = 0
    BY <1>9
  <2>2. IsRecording(source')
    BY <1>3, <1>6, <1>9, <2>1 DEF IsRecording, X
  <2> QED BY <1>7, <1>9, <2>1, <2>2 DEF HeardInv, IsRecording
<1>10. CASE pc' = "Refused"
  BY <1>10 DEF HeardInv
<1> QED BY <1>8, <1>9, <1>10

LEMMA SpeakHeard == ASSUME HeardInv, Speak PROVE HeardInv'
<1>1. PICK words \in Speech(source.duration) :
         source' = [source EXCEPT !.spoken = words, !.chunk = 1]
  BY DEF Speak
<1>2. IsRecording(source) /\ heard = <<>> /\ heard' = heard /\ pc' = "Hear"
  BY DEF Speak, HeardInv
<1> DEFINE plan == source.plan
           duration == source.duration
<1>3. source = [route |-> "Chunked", plan |-> plan, duration |-> duration,
                spoken |-> source.spoken, chunk |-> source.chunk]
  BY <1>2 DEF IsRecording
<1>31. duration \in Nat /\ plan \in Seq(ChunkSet(duration)) /\ ValidPlan(plan, duration)
  BY <1>2 DEF IsRecording
<1> HIDE DEF plan, duration
<1>4. source' = [route |-> "Chunked", plan |-> plan, duration |-> duration,
                 spoken |-> words, chunk |-> 1]
  <2> DEFINE spoken == source.spoken
             k == source.chunk
  <2>1. source = [route |-> "Chunked", plan |-> plan, duration |-> duration,
                  spoken |-> spoken, chunk |-> k]
    BY <1>3
  <2>2. source' = [source EXCEPT !.spoken = words, !.chunk = 1]
    BY <1>1
  <2> HIDE DEF spoken, k
  <2> QED BY <2>1, <2>2
<1>5. /\ source'.route = "Chunked" /\ source'.plan = plan /\ source'.duration = duration
      /\ source'.spoken = words /\ source'.chunk = 1
  BY <1>4
<1>6. IsRecording(source')
  BY <1>31, <1>4, <1>5 DEF IsRecording
<1>7. Sentence(words, duration)
  BY <1>31, SpeechIsSentence DEF duration
<1>8. Len(plan) \in Nat /\ 1 \in 1 .. Len(plan) + 1
  BY <1>31
<1>9. IF 1 > Len(plan) THEN duration = 0 ELSE plan[1].core[1] = 0
  <2>1. CASE Len(plan) = 0
    <3>1. plan = <<>>
      <4> DEFINE X == ChunkSet(duration)
      <4> HIDE DEF X
      <4> QED BY <1>31, <2>1 DEF X
    <3> QED BY <1>8, <1>31, <2>1, <3>1 DEF ValidPlan
  <2>2. CASE Len(plan) # 0
    <3>1. 1 \in DOMAIN plan
      BY <1>8, <1>31, <2>2
    <3> QED BY <1>8, <1>31, <2>2, <3>1 DEF ValidPlan
  <2> QED BY <2>1, <2>2
<1>10. Reached(source') = 0
  BY <1>5, <1>9 DEF Reached
<1>11. KeptUpto(words, 0) = <<>>
  BY <1>31, <1>7, NothingYet
<1> QED BY <1>2, <1>5, <1>6, <1>7, <1>8, <1>10, <1>11 DEF HeardInv

LEMMA HearHeard == ASSUME HeardInv, HearChunk PROVE HeardInv'
<1> DEFINE plan == source.plan
           duration == source.duration
           spoken == source.spoken
           k == source.chunk
           chunk == plan[k]
           length == chunk.read[2] - chunk.read[1]
<1>1. pc = "Hear" /\ k <= Len(plan)
  BY DEF HearChunk
<1>2. PICK raw \in ExtractRange(spoken, chunk.read) :
         IF CanNormalize(raw, length)
         THEN /\ heard' = AppendChunkWords(heard, Normal(raw, length), chunk)
              /\ source' = [source EXCEPT !.chunk = @ + 1] /\ pc' = pc
         ELSE pc' = "Refused" /\ UNCHANGED <<heard, source>>
  BY DEF HearChunk
<1>3. CASE pc' = "Refused"
  BY <1>3 DEF HeardInv
<1>4. CASE source' = [source EXCEPT !.chunk = @ + 1] /\ source.route # "Chunked" /\ pc' = pc
  <2>1. source'.route = source.route
    BY <1>4
  <2> QED BY <1>1, <1>4, <2>1 DEF HeardInv
<1>5. CASE /\ heard' = AppendChunkWords(heard, Normal(raw, length), chunk)
           /\ source' = [source EXCEPT !.chunk = @ + 1] /\ source.route = "Chunked" /\ pc' = pc
  <2>1. /\ IsRecording(source) /\ Sentence(spoken, duration)
        /\ k \in 1 .. Len(plan) + 1 /\ heard = KeptUpto(spoken, Reached(source))
    BY <1>1, <1>5 DEF HeardInv
  <2>2. source = [route |-> "Chunked", plan |-> plan, duration |-> duration,
                  spoken |-> spoken, chunk |-> k]
    BY <2>1 DEF IsRecording
  <2>3. duration \in Nat /\ plan \in Seq(ChunkSet(duration)) /\ ValidPlan(plan, duration)
    BY <2>1 DEF IsRecording
  <2>4. /\ source'.route = "Chunked" /\ source'.plan = plan /\ source'.duration = duration
        /\ source'.spoken = spoken /\ source'.chunk = k + 1
        /\ source' = [route |-> "Chunked", plan |-> plan, duration |-> duration,
                      spoken |-> spoken, chunk |-> k + 1]
    <3>1. source' = [source EXCEPT !.chunk = k + 1]
      BY <1>5
    <3> HIDE DEF plan, duration, spoken, k
    <3>2. source' = [route |-> "Chunked", plan |-> plan, duration |-> duration,
                     spoken |-> spoken, chunk |-> k + 1]
      BY <2>2, <3>1
    <3> QED BY <3>2
  <2> DEFINE n == Len(plan)
  <2>5. n \in Nat /\ DOMAIN plan = 1 .. n /\ k \in 1 .. n /\ k + 1 \in 1 .. n + 1
    <3>1. n \in Nat /\ DOMAIN plan = 1 .. n
      BY <2>3
    <3> HIDE DEF plan, n
    <3> QED BY <1>1, <2>1, <3>1 DEF n
  <2>6. chunk \in ChunkSet(duration)
    BY <2>3, <2>5
  <2>7. chunk.core[1] \in Nat /\ chunk.core[2] \in Nat /\ chunk.core[1] <= chunk.core[2]
    <3>1. PICK p \in (0 .. duration) \X (0 .. duration) :
             p[1] <= p[2] /\ chunk = MakeChunk(p[1], p[2], duration)
      BY <2>6 DEF ChunkSet
    <3>2. chunk.core[1] = p[1] /\ chunk.core[2] = p[2]
      BY <3>1 DEF MakeChunk
    <3> HIDE DEF chunk
    <3> QED BY <2>3, <3>1, <3>2
  <2>8. Reached(source) = chunk.core[1]
    BY <1>1, <2>5 DEF Reached
  <2>9. Reached(source') = chunk.core[2]
    <3>1. CASE k = n
      <4>1. k + 1 > n
        BY <2>5, <3>1
      <4>2. duration # 0 => plan[n].core[2] = duration
        BY <2>3 DEF ValidPlan
      <4>3. chunk.core[1] < chunk.core[2] /\ chunk.core[2] <= duration
        BY <2>3, <2>5 DEF ValidPlan
      <4>4. duration # 0
        BY <2>3, <2>7, <4>3
      <4>5. Reached(source') = duration
        <5> HIDE DEF plan, duration
        <5> QED BY <2>4, <4>1 DEF Reached, n
      <4> QED BY <3>1, <4>2, <4>4, <4>5
    <3>2. CASE k # n
      <4>1. k + 1 \in 1 .. n /\ k + 1 # 1 /\ ~(k + 1 > n) /\ (k + 1) - 1 = k
        BY <2>5, <3>2
      <4>2. plan[k + 1].core[1] = plan[(k + 1) - 1].core[2]
        BY <2>3, <2>5, <4>1 DEF ValidPlan
      <4>3. Reached(source') = plan[k + 1].core[1]
        <5> HIDE DEF plan, k
        <5> QED BY <2>4, <4>1 DEF Reached, n
      <4> QED BY <4>1, <4>2, <4>3
    <3> QED BY <3>1, <3>2
  <2> DEFINE mid == chunk.core[1]
             end == chunk.core[2]
  <2>10. AppendChunkWords(heard, Normal(raw, length), chunk)
           = heard \o Said(spoken, Those(IndexList(spoken), OwnedBy(spoken, mid, end)))
    <3>1. spoken \in Seq(Utterance(duration))
      BY <2>1 DEF Sentence
    <3> HIDE DEF plan, duration, spoken, k, chunk
    <3> QED BY <2>3, <2>6, <3>1, ChunkKeepsItsWords DEF length
  <2>11. KeptUpto(spoken, mid)
           \o Said(spoken, Those(IndexList(spoken), OwnedBy(spoken, mid, end)))
           = KeptUpto(spoken, end)
    <3>1. mid \in Nat /\ end \in Nat /\ mid <= end
      BY <2>7
    <3> HIDE DEF plan, duration, spoken, k, chunk, mid, end
    <3> QED BY <2>1, <2>3, <3>1, NextCore
  <2>12. heard' = KeptUpto(spoken, Reached(source'))
    <3> HIDE DEF plan, duration, spoken, k, chunk, mid, end, length
    <3> QED BY <1>5, <2>1, <2>8, <2>9, <2>10, <2>11 DEF mid, end
  <2>13. IsRecording(source')
    <3> HIDE DEF plan, duration, spoken, k
    <3> QED BY <2>3, <2>4 DEF IsRecording
  <2> HIDE DEF plan, duration, spoken, k
  <2> QED BY <1>1, <1>5, <2>1, <2>4, <2>5, <2>12, <2>13 DEF HeardInv, n
<1> QED BY <1>2, <1>3, <1>4, <1>5

LEMMA HeardStep == ASSUME HeardInv, [Next]_vars PROVE HeardInv'
<1>1. CASE Record
  BY <1>1, RecordHeard
<1>2. CASE Speak
  BY <1>2, SpeakHeard
<1>3. CASE HearChunk
  BY <1>3, HearHeard
<1>4. CASE HearWhole
  <2>1. pc' \in {"Hear", "Refused"} /\ (pc' = "Hear" => source'.route # "Chunked")
    BY <1>4 DEF HearWhole
  <2> QED BY <2>1 DEF HeardInv
<1>5. CASE EndAsr \/ Import \/ SplitByRules \/ BeginSplit
  <2>1. pc' \notin {"Start", "Speak", "Hear"}
    BY <1>5 DEF EndAsr, Import, SplitByRules, BeginSplit
  <2> QED BY <2>1 DEF HeardInv
<1>6. CASE AnswerSplit \/ DegradeSplit \/ EndSplit
  <2>1. pc' \notin {"Start", "Speak", "Hear"}
    BY <1>6 DEF AnswerSplit, DegradeSplit, EndSplit
  <2> QED BY <2>1 DEF HeardInv
<1>7. CASE Correct \/ Translate \/ StageFails
  <2>1. pc' \notin {"Start", "Speak", "Hear"}
    BY <1>7 DEF Correct, Translate, StageFails
  <2> QED BY <2>1 DEF HeardInv
<1>8. CASE EditCue
  <2>1. pc' \notin {"Start", "Speak", "Hear"}
    BY <1>8 DEF EditCue
  <2> QED BY <2>1 DEF HeardInv
<1>9. CASE Retry
  <2>1. pc' \notin {"Start", "Speak", "Hear"}
    <3>1. PICK stage \in {"Split", "Correct", "Translate"} :
             pc' = IF stage = "Split" THEN "LlmSplit" ELSE stage
      BY <1>9 DEF Retry
    <3> QED BY <3>1
  <2> QED BY <2>1 DEF HeardInv
<1>10. CASE UNCHANGED vars
  BY <1>10 DEF HeardInv, vars
<1> QED BY <1>1, <1>2, <1>3, <1>4, <1>5, <1>6, <1>7, <1>8, <1>9, <1>10 DEF Next

\* Whatever the plan, the words and what the engine makes of those that the
\* edge of a chunk cuts: a word no longer than the context on both sides of a
\* chunk is in the transcript once, at its place (ChunkPlan::build,
\* extract_audio_range_wav, retain_core_words, append_chunk_words).
THEOREM WordsAreOwnedOnce == Spec => []WordsOwnedOnce
<1>1. Init => HeardInv
  BY DEF Init, HeardInv
<1>2. HeardInv /\ [Next]_vars => HeardInv'
  BY HeardStep
<1>3. HeardInv => WordsOwnedOnce
  <2> SUFFICES ASSUME HeardInv, pc = "Hear", source.route = "Chunked",
                      source.chunk = Len(source.plan) + 1
               PROVE  heard = source.spoken
    BY DEF WordsOwnedOnce
  <2>1. /\ IsRecording(source) /\ Sentence(source.spoken, source.duration)
        /\ heard = KeptUpto(source.spoken, Reached(source))
    BY DEF HeardInv
  <2>2. source.duration \in Nat /\ Len(source.plan) \in Nat
    BY <2>1 DEF IsRecording
  <2>3. Reached(source) = source.duration
    BY <2>2 DEF Reached
  <2>4. KeptUpto(source.spoken, source.duration) = source.spoken
    BY <2>1, <2>2, AllOfThem
  <2> QED BY <2>1, <2>3, <2>4
<1> QED BY <1>1, <1>2, <1>3, PTL DEF Spec


-----------------------------------------------------------------------------
(* The times and texts of the cues, and the files that are written of them. *)

\* Words in order, none of which ends before it starts.
WordsTimed(words) ==
    /\ \A i \in DOMAIN words : /\ words[i].start \in Nat /\ words[i].end \in Nat
                               /\ words[i].start <= words[i].end
    /\ \A i \in 1 .. Len(words) - 1 : words[i].start <= words[i + 1].start

\* An imported cue has times in order.
Readable(d) ==
    /\ IsSeq(d.words) /\ WordsTimed(d.words)
    /\ IsSeq(d.cues)
    /\ d.timeline = "ImportedCue" =>
           \A c \in DOMAIN d.cues : d.cues[c].times[1] <= d.cues[c].times[2]

LEMMA KeepsReadable ==
    ASSUME NEW d, NEW n, Readable(d), Follows(n, d), Keeps(n, d)
    PROVE  Readable(n)
<1>1. n.words = d.words /\ n.timeline = d.timeline
  BY DEF Follows
<1>2. DOMAIN d.cues = 1 .. Len(d.cues) /\ Len(d.cues) \in Nat
  BY DomainOfSeq DEF Readable
<1>3. n.cues = [c \in DOMAIN d.cues |-> n.cues[c]] /\ DOMAIN n.cues = DOMAIN d.cues
  BY DEF Keeps
<1>4. n.cues = [c \in 1 .. Len(d.cues) |-> n.cues[c]]
  BY <1>2, <1>3
<1>5. IsSeq(n.cues)
  BY <1>2, <1>4, FunctionIsSeq
<1>6. n.timeline = "ImportedCue" =>
         \A c \in DOMAIN n.cues : n.cues[c].times[1] <= n.cues[c].times[2]
  BY <1>1, <1>3 DEF Keeps, Readable
<1> QED BY <1>1, <1>5, <1>6 DEF Readable

LEMMA LaterStarts ==
    ASSUME NEW words, IsSeq(words), WordsTimed(words)
    PROVE  \A i, j \in DOMAIN words : i <= j => words[i].start <= words[j].start
<1> DEFINE D == 1 .. Len(words)
           m == [j \in D |-> j]
           Good == {j \in D : \A i \in D : i <= j => words[i].start <= words[j].start}
<1>1. DOMAIN words = D /\ Len(words) \in Nat
  BY DomainOfSeq
<1>2. m \in [D -> Nat] /\ \A j \in D : m[j] = j
  OBVIOUS
<1>3. ASSUME NEW j \in D, \A e \in D : m[e] < m[j] => e \in Good
      PROVE  j \in Good
  <2> SUFFICES ASSUME NEW i \in D, i <= j PROVE words[i].start <= words[j].start
    OBVIOUS
  <2>1. CASE i = j
    <3>1. words[j].start \in Nat
      BY <1>1 DEF WordsTimed
    <3> QED BY <2>1, <3>1
  <2>2. CASE i # j
    <3>1. j - 1 \in D /\ i <= j - 1 /\ m[j - 1] < m[j]
      BY <1>1, <1>2, <2>2
    <3>2. words[i].start <= words[j - 1].start
      BY <1>3, <3>1
    <3>3. j - 1 \in 1 .. Len(words) - 1 /\ (j - 1) + 1 = j
      BY <1>1, <3>1
    <3>4. words[j - 1].start <= words[j].start
      BY <3>3 DEF WordsTimed
    <3>5. words[i].start \in Nat /\ words[j - 1].start \in Nat /\ words[j].start \in Nat
      BY <1>1, <3>1 DEF WordsTimed
    <3> QED BY <3>2, <3>4, <3>5
  <2> QED BY <2>1, <2>2
<1> HIDE DEF m, Good
<1>4. \A j \in D : (\A e \in D : m[e] < m[j] => e \in Good) => j \in Good
  BY <1>3
<1>5. D \subseteq Good
  <2> HIDE DEF D
  <2> QED BY <1>2, <1>4, FromBelow
<1> QED BY <1>1, <1>5 DEF Good

\* No cue ends after the last word.
LEMMA PartEnds ==
    ASSUME NEW d, Parted(d)
    PROVE  \A c \in DOMAIN d.cues :
              /\ d.cues[c].range[1] \in Nat /\ d.cues[c].range[2] \in Nat
              /\ d.cues[c].range[1] < d.cues[c].range[2]
              /\ d.cues[c].range[2] <= Len(d.words)
<1>1. PICK n \in Nat :
        /\ DOMAIN d.cues = 1 .. n
        /\ d.words # <<>> => n > 0
        /\ n > 0 => d.cues[n].range[2] = Len(d.words)
        /\ \A c \in 1 .. n :
              /\ d.cues[c].range \in Nat \X Nat
              /\ d.cues[c].range[1] < d.cues[c].range[2]
              /\ d.cues[c].range[2] - d.cues[c].range[1] <= 2 * MaxWords(d.words)
              /\ d.cues[c].range[1] = IF c = 1 THEN 0 ELSE d.cues[c - 1].range[2]
  BY DEF Parted
<1> DEFINE D == 1 .. n
           m == [c \in D |-> n - c]
           Good == {c \in D : d.cues[c].range[2] <= Len(d.words)}
<1>2. m \in [D -> Nat] /\ \A c \in D : m[c] = n - c
  OBVIOUS
<1>3. \A c \in D : d.cues[c].range[1] \in Nat /\ d.cues[c].range[2] \in Nat
  BY <1>1
<1>4. ASSUME NEW c \in D, \A e \in D : m[e] < m[c] => e \in Good
      PROVE  c \in Good
  <2>1. CASE c = n
    <3>1. d.cues[c].range[2] = Len(d.words) /\ d.cues[c].range[2] \in Nat
      BY <1>1, <1>3, <2>1
    <3> QED BY <3>1
  <2>2. CASE c # n
    <3>1. c + 1 \in D /\ m[c + 1] < m[c] /\ c + 1 # 1 /\ (c + 1) - 1 = c
      BY <1>2, <2>2
    <3>2. d.cues[c + 1].range[2] <= Len(d.words)
      BY <1>4, <3>1
    <3>3. d.cues[c + 1].range[1] = d.cues[c].range[2]
      BY <1>1, <3>1
    <3>4. d.cues[c + 1].range[1] < d.cues[c + 1].range[2]
      BY <1>1, <3>1
    <3>5. d.cues[n].range[2] = Len(d.words) /\ d.cues[n].range[2] \in Nat
      BY <1>1, <1>3
    <3>6. d.cues[c].range[2] <= Len(d.words)
      BY <1>3, <3>1, <3>2, <3>3, <3>4, <3>5
    <3> QED BY <3>6
  <2> QED BY <2>1, <2>2
<1> HIDE DEF m, Good
<1>5. \A c \in D : (\A e \in D : m[e] < m[c] => e \in Good) => c \in Good
  BY <1>4
<1>6. D \subseteq Good
  <2> HIDE DEF D
  <2> QED BY <1>2, <1>5, FromBelow
<1>7. \A c \in D : d.cues[c].range[2] <= Len(d.words)
  BY <1>6 DEF Good
<1> QED BY <1>1, <1>3, <1>7

\* The words of a cue and its times.
Placed(d) ==
    \/ d.timeline = "AsrWords" /\ Parted(d)
    \/ d.timeline = "ImportedCue"

LEMMA TimesInOrder ==
    ASSUME NEW d, Readable(d), Placed(d), NEW c \in DOMAIN d.cues
    PROVE  CueTimes(d, d.cues[c])[1] <= CueTimes(d, d.cues[c])[2]
<1>1. CASE d.timeline = "ImportedCue"
  BY <1>1 DEF CueTimes, Readable
<1>2. CASE d.timeline = "AsrWords" /\ Parted(d)
  <2> DEFINE a == d.cues[c].range[1] + 1
             b == d.cues[c].range[2]
  <2>1. /\ d.cues[c].range[1] \in Nat /\ d.cues[c].range[2] \in Nat
        /\ d.cues[c].range[1] < d.cues[c].range[2] /\ d.cues[c].range[2] <= Len(d.words)
    BY <1>2, PartEnds
  <2>2. IsSeq(d.words) /\ WordsTimed(d.words) /\ DOMAIN d.words = 1 .. Len(d.words)
        /\ Len(d.words) \in Nat
    BY DomainOfSeq DEF Readable
  <2>3. a \in DOMAIN d.words /\ b \in DOMAIN d.words /\ a <= b
    <3>1. \A x, y, n \in Nat : x < y /\ y <= n => x + 1 \in 1 .. n /\ y \in 1 .. n /\ x + 1 <= y
      OBVIOUS
    <3>2. \A x, y \in Nat : x < y /\ y <= Len(d.words) =>
              x + 1 \in DOMAIN d.words /\ y \in DOMAIN d.words /\ x + 1 <= y
      BY <2>2, <3>1
    <3> QED BY <2>1, <3>2, Zenon
  <2>4. CueTimes(d, d.cues[c])[1] = d.words[a].start /\ CueTimes(d, d.cues[c])[2] = d.words[b].end
    BY <1>2 DEF CueTimes
  <2> HIDE DEF a, b
  <2>5. d.words[a].start <= d.words[b].start
    BY <2>2, <2>3, LaterStarts
  <2>6. /\ d.words[b].start <= d.words[b].end /\ d.words[a].start \in Nat
        /\ d.words[b].start \in Nat /\ d.words[b].end \in Nat
    BY <2>2, <2>3 DEF WordsTimed
  <2> QED BY <2>4, <2>5, <2>6
<1> QED BY <1>1, <1>2 DEF Placed

\* A document of cues only, with lines and with times in order, is read whole.
LEMMA CueBlocksAreRead ==
    ASSUME NEW blocks, IsSeq(blocks),
           \A i \in DOMAIN blocks : HasLines(blocks[i]) /\ InOrderTimes(blocks[i])
    PROVE  SrtCues(blocks) = blocks /\ VttCues(blocks) = blocks
<1> DEFINE X == Elements(blocks)
           n == Len(blocks)
<1>1. blocks \in Seq(X) /\ n \in Nat /\ DOMAIN blocks = 1 .. n
  BY DomainOfSeq DEF IsSeq
<1>2. \A b \in X : HasLines(b) /\ InOrderTimes(b)
  BY DEF Elements
<1>3. SrtCues(blocks) = blocks
  <2> DEFINE V == {b \in X : HasLines(b) /\ InOrderTimes(b)}
  <2>1. X \subseteq V
    BY <1>2
  <2>2. SrtCues(blocks) = Those(blocks, V)
    BY DEF SrtCues
  <2> HIDE DEF X, V
  <2> QED BY <1>1, <2>1, <2>2, ThoseAll
<1>4. VttCues(blocks) = blocks
  <2> DEFINE ended == {k \in 0 .. n : \A i \in 1 .. k : blocks[i].kind # "Note"}
             last == CHOOSE k \in ended : \A m \in ended : m <= k
             read == SubSeq(blocks, 1, last)
             V == {b \in Elements(read) : HasLines(b)}
  <2>1. VttCues(blocks) = Those(read, V)
    BY DEF VttCues
  <2>2. \A i \in 1 .. n : blocks[i].kind = "Cue"
    BY <1>1 DEF HasLines
  <2>3. \A k \in 0 .. n : \A i \in 1 .. k : i \in 1 .. n
    BY <1>1
  <2>4. \A k \in 0 .. n : \A i \in 1 .. k : blocks[i].kind # "Note"
    BY <2>2, <2>3
  <2>5. ended = 0 .. n
    BY <2>4
  <2> HIDE DEF ended
  <2>6. n \in ended /\ \A m \in ended : m <= n
    BY <1>1, <2>5
  <2>7. last \in ended /\ \A m \in ended : m <= last
    BY <2>6
  <2> HIDE DEF last
  <2>8. last = n
    <3> HIDE DEF n
    <3>1. n <= last
      BY <2>6, <2>7
    <3>2. last \in 0 .. n
      BY <2>5, <2>7
    <3> QED BY <1>1, <3>1, <3>2
  <2>9. read = blocks
    BY <1>1, <2>8
  <2>10. X \subseteq V
    BY <1>2, <2>9
  <2> HIDE DEF read, X, V
  <2> QED BY <1>1, <2>1, <2>9, <2>10, ThoseAll
<1> QED BY <1>3, <1>4

\* Blocks without an empty line stay as they are.
LEMMA NothingIsSplit ==
    ASSUME NEW blocks, IsSeq(blocks),
           \A i \in DOMAIN blocks : Empty \notin Elements(blocks[i].lines)
    PROVE  SplitBlocks(blocks) = blocks
<1> DEFINE n == Len(blocks)
           D == 0 .. n
           m == [i \in D |-> i]
           X == Elements(blocks)
           first(i) == [j \in 1 .. i |-> blocks[j]]
           Next1(i, F) == IF i = 0 THEN <<>> ELSE F[i - 1] \o Pieces(blocks[i])
           F == [i \in D |-> first(i)]
<1>1. n \in Nat /\ DOMAIN blocks = 1 .. n /\ blocks = first(n) /\ blocks \in Seq(X)
  BY DomainOfSeq DEF IsSeq
<1>2. \A i \in 1 .. n : Pieces(blocks[i]) = <<blocks[i]>>
  BY <1>1 DEF Pieces
<1>3. ASSUME NEW i \in 1 .. n
      PROVE  first(i - 1) \o <<blocks[i]>> = first(i)
  <2>1. \A j \in 1 .. i : blocks[j] \in X
    BY <1>1 DEF X, Elements
  <2> HIDE DEF X
  <2>2. first(i - 1) \in Seq(X) /\ Len(first(i - 1)) = i - 1 /\ <<blocks[i]>> \in Seq(X)
    BY <1>1, <2>1
  <2>3. first(i) \in Seq(X) /\ Len(first(i)) = i
    BY <1>1, <2>1
  <2> QED BY <1>1, <2>1, <2>2, <2>3
<1>4. first(0) = <<>>
  OBVIOUS
<1> HIDE DEF n, first
<1>5. \A i \in D : F[i] = Next1(i, F)
  <2> SUFFICES ASSUME NEW i \in D PROVE F[i] = Next1(i, F)
    OBVIOUS
  <2>1. CASE i = 0
    BY <1>4, <2>1
  <2>2. CASE i # 0
    <3>1. i - 1 \in D /\ i \in 1 .. n
      BY <1>1, <2>2
    <3> QED BY <1>2, <1>3, <2>2, <3>1
  <2> QED BY <2>1, <2>2
<1>6. F = [i \in D |-> Next1(i, F)]
  <2> HIDE DEF D, Next1
  <2> QED BY <1>5
<1> DEFINE Upto[i \in 0 .. Len(blocks)] ==
              IF i = 0 THEN <<>> ELSE Upto[i - 1] \o Pieces(blocks[i])
<1> HIDE DEF F
<1>7. Upto = [i \in D |-> Next1(i, Upto)]
  BY <1>6 DEF n
<1>8. SplitBlocks(blocks) = Upto[n]
  BY DEF SplitBlocks, n
<1> HIDE DEF Upto
<1> DEFINE Good == {i \in D : F[i] = Upto[i]}
<1>9. ASSUME NEW i \in D, \A e \in D : m[e] < m[i] => e \in Good
      PROVE  i \in Good
  <2>1. F[i] = Next1(i, F) /\ Upto[i] = Next1(i, Upto)
    <3> HIDE DEF Next1, D
    <3> QED BY <1>5, <1>7
  <2>2. i # 0 => i - 1 \in D /\ m[i - 1] < m[i]
    BY <1>1
  <2>3. i # 0 => F[i - 1] = Upto[i - 1]
    BY <1>9, <2>2
  <2>4. CASE i = 0
    BY <2>1, <2>4
  <2>5. CASE i # 0
    <3>1. F[i] = F[i - 1] \o Pieces(blocks[i]) /\ Upto[i] = Upto[i - 1] \o Pieces(blocks[i])
      BY <2>1, <2>5
    <3> QED BY <2>3, <2>5, <3>1
  <2> QED BY <2>4, <2>5
<1>10. m \in [D -> Nat] /\ n \in D /\ F[n] = first(n)
  BY <1>1 DEF F
<1>11. D \subseteq Good
  <2> HIDE DEF D, m, Good
  <2>1. \A i \in D : (\A e \in D : m[e] < m[i] => e \in Good) => i \in Good
    BY <1>9
  <2> QED BY <1>10, <2>1, FromBelow
<1> QED BY <1>1, <1>8, <1>10, <1>11

LayoutPairs == {<<"SourceOnly", "Mono">>, <<"SourceFirst", "SourceAbove">>,
                <<"TranslationFirst", "TranslationAbove">>}

LEMMA TextHasLines ==
    ASSUME NEW text
    PROVE  IsSeq(LinesOf(text)) /\ LinesOf(text) # <<>>
<1> DEFINE two == <<"First", "Last">>
           three == <<"First", Empty, "NOTE">>
           one == <<text>>
<1>1. LinesOf(text) = two \/ LinesOf(text) = three \/ LinesOf(text) = one
  BY DEF LinesOf
<1>2. IsSeq(one) /\ one # <<>>
  BY DEF IsSeq, Elements
<1>3. IsSeq(two) /\ two # <<>>
  BY DEF IsSeq, Elements
<1>4. IsSeq(three) /\ three # <<>>
  <2>1. Len(three) = 3 /\ DOMAIN three = 1 .. 3 /\ three = [i \in 1 .. 3 |-> three[i]]
    OBVIOUS
  <2> HIDE DEF three
  <2> QED BY <2>1, FunctionIsSeq
<1> QED BY <1>1, <1>2, <1>3, <1>4

LEMMA CueHasLines ==
    ASSUME NEW q, NEW p \in LayoutPairs
    PROVE  CueLines(q, p[1]) # <<>>
<1>1. \A s, t : IsSeq(s) /\ s # <<>> /\ IsSeq(t) /\ t # <<>> => s \o t # <<>>
  <2> SUFFICES ASSUME NEW s, NEW t, IsSeq(s), s # <<>>, IsSeq(t), t # <<>> PROVE s \o t # <<>>
    OBVIOUS
  <2> DEFINE X == Elements(s)
             Y == Elements(t)
  <2>1. s \in Seq(X) /\ t \in Seq(Y)
    BY DEF IsSeq
  <2> HIDE DEF X, Y
  <2>2. Len(s) \in Nat /\ Len(s) > 0 /\ Len(t) \in Nat
    BY <2>1
  <2>3. Len(s \o t) = Len(s) + Len(t)
    BY <2>1
  <2> QED BY <2>2, <2>3
<1> DEFINE a == LinesOf(q.text)
           b == LinesOf(q.translation)
<1>2. a # <<>> /\ a \o b # <<>> /\ b \o a # <<>>
  BY <1>1, TextHasLines
<1> HIDE DEF a, b
<1>3. p[1] = "SourceOnly" \/ p[1] = "SourceFirst" \/ p[1] = "TranslationFirst"
  BY DEF LayoutPairs
<1>4. CueLines(q, p[1]) = a \/ CueLines(q, p[1]) = a \o b \/ CueLines(q, p[1]) = b \o a
  BY <1>3 DEF CueLines, a, b
<1> QED BY <1>2, <1>4

LEMMA TwoLines ==
    ASSUME NEW x, NEW y
    PROVE  /\ ApplyLayout(<<x, y>>, "SourceAbove") = <<x, y>>
           /\ ApplyLayout(<<x, y>>, "TranslationAbove") = <<y, x>>
<1> DEFINE X == {x, y}
           lines == <<x, y>>
<1>1. lines \in Seq(X) /\ Len(lines) = 2 /\ lines[1] = x /\ lines[2] = y
  OBVIOUS
<1> HIDE DEF lines, X
<1>2. Len(SubSeq(lines, 1, 1)) = 1 /\ SubSeq(lines, 1, 1)[1] = x
  BY <1>1
<1>3. Len(SubSeq(lines, 2, 2)) = 1 /\ SubSeq(lines, 2, 2)[1] = y
  BY <1>1
<1>4. 2 \div 2 = 1
  OBVIOUS
<1>5. Upper(lines) = x /\ Lower(lines) = y
  BY <1>1, <1>2, <1>3, <1>4 DEF Upper, Lower, JoinLines
<1>6. ApplyLayout(lines, "SourceAbove") = <<x, y>>
  BY <1>1, <1>5 DEF ApplyLayout
<1>7. ApplyLayout(lines, "TranslationAbove") = <<y, x>>
  BY <1>1, <1>5 DEF ApplyLayout
<1> QED BY <1>6, <1>7 DEF lines

\* The lines of a cue are read as they were meant, where its texts are one line each.
LEMMA LinesAreRead ==
    ASSUME NEW q, NEW p \in LayoutPairs, OneLine(q.text),
           p[2] # "Mono" => OneLine(q.translation)
    PROVE  /\ ApplyLayout(CueLines(q, p[1]), p[2])[1] = q.text
           /\ p[2] # "Mono" => ApplyLayout(CueLines(q, p[1]), p[2])[2] = q.translation
<1> DEFINE a == LinesOf(q.text)
           b == LinesOf(q.translation)
<1>1. a = <<q.text>> /\ (p[2] # "Mono" => b = <<q.translation>> /\ q.translation # Empty)
  BY DEF OneLine
<1>2. \A layout : ApplyLayout(<<q.text>>, layout) = <<q.text, Blank>>
  BY DEF ApplyLayout
<1>3. \A x, y : <<x>> \o <<y>> = <<x, y>>
  <2> SUFFICES ASSUME NEW x, NEW y PROVE <<x>> \o <<y>> = <<x, y>>
    OBVIOUS
  <2> DEFINE X == {x, y}
  <2> DEFINE s == <<x>> \o <<y>>
             t == <<x, y>>
  <2>1. s \in Seq(X) /\ Len(s) = 2 /\ s[1] = x /\ s[2] = y
    OBVIOUS
  <2>2. t \in Seq(X) /\ Len(t) = 2 /\ t[1] = x /\ t[2] = y
    OBVIOUS
  <2> HIDE DEF s, t, X
  <2>3. s = t
    BY <2>1, <2>2
  <2> QED BY <2>3 DEF s, t
<1> HIDE DEF a, b
<1>4. CASE p = <<"SourceOnly", "Mono">>
  <2>1. CueLines(q, p[1]) = a /\ p[2] = "Mono"
    BY <1>4 DEF CueLines, a
  <2> QED BY <1>1, <1>2, <2>1
<1>5. CASE p # <<"SourceOnly", "Mono">> /\ q.translation = Blank
  <2>1. CueLines(q, p[1]) = a
    BY <1>5 DEF CueLines, a
  <2> QED BY <1>1, <1>2, <1>5, <2>1
<1>6. CASE p = <<"SourceFirst", "SourceAbove">> /\ q.translation # Blank
  <2>1. p[1] = "SourceFirst" /\ p[2] = "SourceAbove"
    BY <1>6
  <2>2. CueLines(q, p[1]) = a \o b
    BY <1>1, <1>6, <2>1 DEF CueLines, a, b
  <2>3. CueLines(q, p[1]) = <<q.text, q.translation>>
    BY <1>1, <1>3, <2>1, <2>2
  <2> QED BY <2>1, <2>3, TwoLines
<1>7. CASE p = <<"TranslationFirst", "TranslationAbove">> /\ q.translation # Blank
  <2>1. p[1] = "TranslationFirst" /\ p[2] = "TranslationAbove"
    BY <1>7
  <2>2. CueLines(q, p[1]) = b \o a
    BY <1>1, <1>7, <2>1 DEF CueLines, a, b
  <2>3. CueLines(q, p[1]) = <<q.translation, q.text>>
    BY <1>1, <1>3, <2>1, <2>2
  <2> QED BY <2>1, <2>3, TwoLines
<1> QED BY <1>4, <1>5, <1>6, <1>7 DEF LayoutPairs

\* No cue ends before it starts.
InTime(d) == \A c \in DOMAIN d.cues :
                 CueTimes(d, d.cues[c])[1] <= CueTimes(d, d.cues[c])[2]

\* What is written of a cue.
BlockOf(d, layout) ==
    [q \in Elements(d.cues) |-> Block("Cue", CueTimes(d, q), CueLines(q, layout))]

\* What is written of a transcript are the blocks of the cues that are shown.
LEMMA ShownIsWritten ==
    ASSUME NEW d, IsSeq(d.cues), NEW layout
    PROVE  /\ RenderSrt(d, layout) = Said(BlockOf(d, layout), Shown(d, layout))
           /\ IsSeq(Shown(d, layout))
           /\ Elements(Shown(d, layout)) \subseteq
                  {q \in Elements(d.cues) : CueLines(q, layout) # <<Empty>>}
<1> DEFINE X == Elements(d.cues)
           s == d.cues
           g == BlockOf(d, layout)
           Y == {g[q] : q \in X}
           V == {q \in X : CueLines(q, layout) # <<Empty>>}
           blocks == [c \in DOMAIN s |-> Block("Cue", CueTimes(d, s[c]), CueLines(s[c], layout))]
           W == {b \in Elements(blocks) : b.lines # <<Empty>>}
<1>1. s \in Seq(X)
  BY DEF IsSeq
<1>2. \A q \in X : g[q] = Block("Cue", CueTimes(d, q), CueLines(q, layout))
  BY DEF BlockOf
<1>3. Maps(g, s, X, Y)
  <2>1. g = [q \in X |-> g[q]]
    BY DEF BlockOf
  <2> HIDE DEF g, X
  <2> QED BY <1>1, <2>1 DEF Maps
<1>4. \A c \in DOMAIN s : s[c] \in X
  BY DEF Elements
<1>5. blocks = Said(g, s)
  BY <1>2, <1>4 DEF Said
<1>6. \A q \in X : g[q].lines = CueLines(q, layout)
  <2>1. \A k, t, l : Block(k, t, l).lines = l
    BY DEF Block
  <2> HIDE DEF X, g
  <2> QED BY <1>2, <2>1
<1>7. \A q \in X : g[q] \in Elements(blocks)
  <2> SUFFICES ASSUME NEW c \in DOMAIN s PROVE g[s[c]] \in Elements(blocks)
    BY DEF Elements
  <2>1. c \in DOMAIN Said(g, s) /\ Said(g, s)[c] = g[s[c]]
    BY DEF Said
  <2> HIDE DEF blocks, g
  <2> QED BY <1>5, <2>1 DEF Elements
<1>8. RenderSrt(d, layout) = Those(blocks, W) /\ Shown(d, layout) = Those(s, V)
  BY DEF RenderSrt, Shown
<1>9. FoundIn(V, g, W)
  <2>1. DOMAIN g = X
    BY DEF BlockOf
  <2>2. \A q \in X : q \in V <=> g[q] \in W
    BY <1>6, <1>7
  <2> HIDE DEF g, V, W, X
  <2> QED BY <2>1, <2>2 DEF FoundIn
<1> HIDE DEF X, s, g, Y, blocks, W
<1>10. Those(Said(g, s), W) = Said(g, Those(s, V))
  <2> HIDE DEF V
  <2> QED BY <1>1, <1>3, <1>9, ThoseSaid
<1>11. Those(s, V) \in Seq(X \intersect V)
  <2> HIDE DEF V
  <2> QED BY <1>1, ThoseWithin
<1>12. IsSeq(Those(s, V)) /\ Elements(Those(s, V)) \subseteq V
  <2> DEFINE U == X \intersect V
             t == Those(s, V)
  <2>1. t \in Seq(U) /\ U \subseteq V
    BY <1>11
  <2> HIDE DEF U, t
  <2>2. DOMAIN t = 1 .. Len(t) /\ Len(t) \in Nat /\ \A i \in DOMAIN t : t[i] \in U
    BY <2>1
  <2>3. t = [i \in 1 .. Len(t) |-> t[i]]
    BY <2>1
  <2>4. IsSeq(t)
    BY <2>2, <2>3, FunctionIsSeq
  <2> QED BY <2>1, <2>2, <2>4 DEF Elements, t
<1> QED BY <1>5, <1>8, <1>10, <1>12 DEF g, V, X

\* A transcript reads back from a file without empty lines inside a cue.
LEMMA DocReadsBack ==
    ASSUME NEW d, Readable(d), InTime(d), NEW p \in LayoutPairs, NEW fields,
           fields = IF p[2] = "Mono" THEN {"text"} ELSE Fields
    PROVE  ReadsBackIn(d, p[1], p[2], fields)
<1> DEFINE g == BlockOf(d, p[1])
           shown == Shown(d, p[1])
           blocks == Said(g, shown)
           n == Len(shown)
<1> SUFFICES ASSUME Closed(d, p[1]), NEW b \in Exported(d, p[1])
             PROVE  ReadBack(d, shown, b, p[2], fields)
  BY DEF ReadsBackIn
<1>1. /\ RenderSrt(d, p[1]) = blocks /\ RenderVtt(d, p[1]) = blocks /\ IsSeq(shown)
      /\ Elements(shown) \subseteq {q \in Elements(d.cues) : CueLines(q, p[1]) # <<Empty>>}
  BY ShownIsWritten DEF Readable, RenderVtt
<1>2. n \in Nat /\ DOMAIN shown = 1 .. n
  BY <1>1, DomainOfSeq
<1> HIDE DEF shown
<1>3. \A c \in DOMAIN shown : \E i \in DOMAIN d.cues : shown[c] = d.cues[i]
  BY <1>1 DEF Elements
<1>4. \A c \in DOMAIN shown :
         /\ shown[c] \in Elements(d.cues) /\ CueLines(shown[c], p[1]) # <<Empty>>
  BY <1>1 DEF Elements
<1>5. \A c \in DOMAIN shown :
         /\ Empty \notin Elements(CueLines(shown[c], p[1]))
         /\ CueTimes(d, shown[c])[1] <= CueTimes(d, shown[c])[2]
  <2> SUFFICES ASSUME NEW c \in DOMAIN shown
               PROVE  /\ Empty \notin Elements(CueLines(shown[c], p[1]))
                      /\ CueTimes(d, shown[c])[1] <= CueTimes(d, shown[c])[2]
    OBVIOUS
  <2>1. PICK i \in DOMAIN d.cues : shown[c] = d.cues[i]
    BY <1>3
  <2>2. CueLines(d.cues[i], p[1]) = <<Empty>> \/ Empty \notin Elements(CueLines(d.cues[i], p[1]))
    BY DEF Closed
  <2>3. CueTimes(d, d.cues[i])[1] <= CueTimes(d, d.cues[i])[2]
    BY DEF InTime
  <2> QED BY <1>4, <2>1, <2>2, <2>3
<1>6. /\ DOMAIN blocks = 1 .. n /\ blocks = [c \in 1 .. n |-> blocks[c]]
      /\ \A c \in 1 .. n :
            blocks[c] = Block("Cue", CueTimes(d, shown[c]), CueLines(shown[c], p[1]))
  BY <1>2, <1>4 DEF Said, BlockOf
<1> HIDE DEF blocks
<1>7. \A c \in 1 .. n :
         /\ blocks[c].kind = "Cue" /\ blocks[c].times = CueTimes(d, shown[c])
         /\ blocks[c].lines = CueLines(shown[c], p[1])
  <2>1. \A k, t, l : Block(k, t, l).kind = k /\ Block(k, t, l).times = t /\ Block(k, t, l).lines = l
    BY DEF Block
  <2> QED BY <1>6, <2>1
<1>8. \A c \in 1 .. n : /\ HasLines(blocks[c]) /\ InOrderTimes(blocks[c])
                        /\ Empty \notin Elements(blocks[c].lines)
  <2>1. \A c \in 1 .. n : CueLines(shown[c], p[1]) # <<>>
    BY CueHasLines
  <2> QED BY <1>2, <1>5, <1>7, <2>1 DEF HasLines, InOrderTimes
<1>9. IsSeq(blocks) /\ Len(blocks) = n
  <2> HIDE DEF n
  <2> QED BY <1>2, <1>6, FunctionIsSeq
<1>10. b = blocks
  <2>1. SplitBlocks(blocks) = blocks
    BY <1>6, <1>8, <1>9, NothingIsSplit
  <2>2. SrtCues(blocks) = blocks /\ VttCues(blocks) = blocks
    BY <1>6, <1>8, <1>9, CueBlocksAreRead
  <2> QED BY <1>1, <2>1, <2>2 DEF Exported
<1> DEFINE cues == CuesOfBlocks(blocks, p[2])
<1>11. /\ DOMAIN cues = 1 .. n
       /\ \A c \in 1 .. n : cues[c] = CueOfBlock(blocks[c], c, p[2])
       /\ cues = [c \in 1 .. n |-> cues[c]]
  BY <1>6 DEF CuesOfBlocks
<1> HIDE DEF cues
<1>12. \A c \in 1 .. n :
          /\ cues[c].times = blocks[c].times
          /\ cues[c].text = ApplyLayout(blocks[c].lines, p[2])[1]
          /\ cues[c].translation = ApplyLayout(blocks[c].lines, p[2])[2]
  <2>1. \A i, r, t, x, y, o :
           /\ NewCue(i, r, t, x, y, o).times = t
           /\ NewCue(i, r, t, x, y, o).text = x /\ NewCue(i, r, t, x, y, o).translation = y
    BY DEF NewCue
  <2>2. \A c \in 1 .. n :
           cues[c] = NewCue(c, NoRange, blocks[c].times, ApplyLayout(blocks[c].lines, p[2])[1],
                            ApplyLayout(blocks[c].lines, p[2])[2], "Imported")
    BY <1>11 DEF CueOfBlock
  <2> QED BY <2>1, <2>2
<1>13. Len(cues) = n
  <2> HIDE DEF n
  <2> QED BY <1>2, <1>11, FunctionIsSeq
<1>14. ASSUME NEW c \in 1 .. n, \A f \in fields : OneLine(shown[c][f]), NEW f \in fields
       PROVE  cues[c][f] = shown[c][f]
  <2>1. "text" \in fields /\ (p[2] # "Mono" => "translation" \in fields)
    BY DEF Fields
  <2>2. OneLine(shown[c].text) /\ (p[2] # "Mono" => OneLine(shown[c].translation))
    BY <1>14, <2>1
  <2>3. /\ cues[c].text = shown[c].text
        /\ p[2] # "Mono" => cues[c].translation = shown[c].translation
    BY <1>7, <1>12, <2>2, LinesAreRead
  <2>4. f = "text" \/ (f = "translation" /\ p[2] # "Mono")
    BY DEF Fields
  <2> QED BY <2>3, <2>4
<1>15. \A c \in 1 .. n : cues[c].times = CueTimes(d, shown[c])
  BY <1>7, <1>12
<1> QED BY <1>10, <1>11, <1>13, <1>14, <1>15 DEF ReadBack, cues

-----------------------------------------------------------------------------
(* The words an engine gives for an audio that is not cut. *)

Hearable == [start : Nat, end : Nat, text : Texts \union {"Blank"}]

LEMMA WordIsHearable ==
    ASSUME NEW s \in Nat, NEW e \in Nat, NEW t \in Texts \union {"Blank"}
    PROVE  Word(s, e, t) \in Hearable
BY DEF Word, Hearable

LEMMA SpreadIsHearable ==
    ASSUME NEW n \in Nat, NEW t \in [1 .. n -> Texts], NEW g \in [1 .. n -> Nat]
    PROVE  Spread(t, g) \in Seq(Hearable) /\ Len(Spread(t, g)) = n
<1> DEFINE D == 1 .. n
           S == Nat
           m == [i \in D |-> i]
           Body(i, F) == IF i = 1 THEN 0 ELSE F[i - 1] + 1 + g[i]
           T == [p \in D \X [D -> S] |-> Body(p[1], p[2])]
<1>1. m \in [D -> Nat] /\ \A i \in D : m[i] = i /\ m[i] <= n
  OBVIOUS
<1>2. \A i \in D : i # 1 => i - 1 \in D /\ m[i - 1] < m[i]
  BY <1>1
<1>3. \A i \in D : g[i] \in Nat
  OBVIOUS
<1> HIDE DEF m
<1>4. \A i \in D, F \in [D -> S] : Body(i, F) \in S
  <2> HIDE DEF D
  <2> TAKE i \in D, F \in [D -> S]
  <2>1. i # 1 => F[i - 1] \in Nat
    BY <1>2
  <2> QED BY <1>3, <2>1
<1>5. \A i \in D, F, G \in [D -> S] :
         (\A e \in D : m[e] < m[i] => F[e] = G[e]) => Body(i, F) = Body(i, G)
  <2> HIDE DEF D
  <2> TAKE i \in D, F \in [D -> S], G \in [D -> S]
  <2> HAVE \A e \in D : m[e] < m[i] => F[e] = G[e]
  <2>1. i # 1 => F[i - 1] = G[i - 1]
    BY <1>2
  <2> QED BY <2>1
<1> HIDE DEF Body
<1>6. \A i \in D, F \in [D -> S] : T[<<i, F>>] = Body(i, F)
  <2> HIDE DEF D, S
  <2> QED OBVIOUS
<1>7. T \in [D \X [D -> S] -> S]
  <2> HIDE DEF D, S
  <2>1. \A p \in D \X [D -> S] : p[1] \in D /\ p[2] \in [D -> S]
    OBVIOUS
  <2> QED BY <1>4, <2>1
<1> HIDE DEF T
<1>8. PICK F \in [D -> S] : \A i \in D : F[i] = Body(i, F)
  <2> HIDE DEF D, S
  <2>1. \A i \in D, F, G \in [D -> S] :
           (\A e \in D : m[e] < m[i] => F[e] = G[e]) => T[<<i, F>>] = T[<<i, G>>]
    BY <1>5, <1>6
  <2>4. S # {}
    BY DEF S
  <2>2. Recursion(D, S, m, n, T)
    BY <1>1, <1>7, <2>1, <2>4 DEF Recursion
  <2>3. PICK F \in [D -> S] : \A i \in D : F[i] = T[<<i, F>>]
    BY <2>2, Solution
  <2> QED BY <1>6, <2>3
<1> DEFINE Start[i \in 1 .. Len(t)] == IF i = 1 THEN 0 ELSE Start[i - 1] + 1 + g[i]
<1>9. Len(t) = n /\ DOMAIN t = D
  OBVIOUS
<1>10. Start = [i \in D |-> Body(i, Start)]
  <2>1. F = [i \in D |-> Body(i, F)]
    <3> HIDE DEF D
    <3> QED BY <1>8
  <2> QED BY <1>9, <2>1 DEF Body
<1>11. Spread(t, g) = [i \in DOMAIN t |-> Word(Start[i], Start[i] + 1, t[i])]
  BY DEF Spread
<1> HIDE DEF Start
<1> DEFINE Good == {i \in D : Start[i] \in Nat}
<1>12. \A i \in D : (\A e \in D : m[e] < m[i] => e \in Good) => i \in Good
  <2> SUFFICES ASSUME NEW i \in D, \A e \in D : m[e] < m[i] => e \in Good
               PROVE  Start[i] \in Nat
    OBVIOUS
  <2> HIDE DEF D
  <2>1. Start[i] = Body(i, Start)
    BY <1>10
  <2>2. i # 1 => Start[i - 1] \in Nat
    BY <1>2
  <2> QED BY <1>3, <2>1, <2>2 DEF Body
<1>13. D \subseteq Good
  <2> HIDE DEF D, Good
  <2> QED BY <1>1, <1>12, FromBelow
<1>14. \A i \in D : Word(Start[i], Start[i] + 1, t[i]) \in Hearable
  <2> SUFFICES ASSUME NEW i \in D PROVE Word(Start[i], Start[i] + 1, t[i]) \in Hearable
    OBVIOUS
  <2>1. Start[i] \in Nat /\ Start[i] + 1 \in Nat
    BY <1>13
  <2>2. t[i] \in Texts
    OBVIOUS
  <2> QED BY <2>1, <2>2, WordIsHearable
<1> DEFINE words == Spread(t, g)
<1>15. words = [i \in 1 .. n |-> words[i]] /\ \A i \in 1 .. n : words[i] \in Hearable
  BY <1>9, <1>11, <1>14
<1> HIDE DEF words
<1>16. words \in Seq(Hearable) /\ Len(words) = n
  <2>1. IsSeq(words) /\ Len(words) = n /\ DOMAIN words = 1 .. n
    BY <1>15, FunctionIsSeq
  <2>2. Elements(words) \subseteq Hearable
    BY <1>15, <2>1 DEF Elements
  <2> DEFINE X == Elements(words)
  <2>3. words \in Seq(X) /\ X \subseteq Hearable
    BY <2>1, <2>2 DEF IsSeq
  <2> HIDE DEF X
  <2> QED BY <2>1, <2>3
<1> QED BY <1>16 DEF words

LEMMA NormalIsHearable ==
    ASSUME NEW raw \in Seq(Hearable), NEW length \in Nat
    PROVE  Normal(raw, length) \in Seq(Hearable)
<1> DEFINE n == Len(raw)
           Mend(w) == [Clipped(w, length) EXCEPT !.end = Larger(@, Clipped(w, length).start)]
           clipped == [i \in DOMAIN raw |-> Clipped(raw[i], length)]
           mended == [i \in DOMAIN raw |->
                        [clipped[i] EXCEPT !.end = Larger(@, clipped[i].start)]]
<1>1. n \in Nat /\ DOMAIN raw = 1 .. n /\ \A i \in DOMAIN raw : raw[i] \in Hearable
  OBVIOUS
<1>2. ASSUME NEW w \in Hearable PROVE Mend(w) \in Hearable
  <2>1. w.start \in Nat /\ w.end \in Nat /\ w = [start |-> w.start, end |-> w.end, text |-> w.text]
        /\ w.text \in Texts \union {"Blank"}
    BY DEF Hearable
  <2> DEFINE a == Smaller(w.start, length)
             b == Smaller(w.end, length)
             c == Larger(b, a)
  <2>2. a \in Nat /\ b \in Nat /\ c \in Nat
    BY <2>1 DEF Smaller, Larger
  <2> HIDE DEF a, b, c
  <2>3. Clipped(w, length) = [start |-> a, end |-> b, text |-> w.text]
    <3>1. Clipped(w, length) = [w EXCEPT !.start = a, !.end = b]
      BY DEF Clipped, a, b
    <3> QED BY <2>1, <3>1 DEF Hearable
  <2>4. Mend(w) = [start |-> a, end |-> c, text |-> w.text]
    BY <2>3 DEF c
  <2> QED BY <2>1, <2>2, <2>4 DEF Hearable
<1>3. \A i \in DOMAIN raw : clipped[i] = Clipped(raw[i], length)
  OBVIOUS
<1> HIDE DEF clipped
<1>4. DOMAIN mended = DOMAIN raw /\ mended = [i \in DOMAIN raw |-> mended[i]]
      /\ \A i \in DOMAIN raw : mended[i] = Mend(raw[i])
  BY <1>3
<1>5. Normal(raw, length) = Those(mended, {w \in Elements(mended) : w.text # "Blank"})
  BY DEF Normal, clipped
<1> HIDE DEF mended, Mend
<1>6. \A i \in 1 .. n : mended[i] \in Hearable
  BY <1>1, <1>2, <1>4
<1>7. mended \in Seq(Hearable)
  <2>1. mended \in [1 .. n -> Hearable]
    BY <1>1, <1>4, <1>6
  <2> QED BY <1>1, <2>1
<1> QED BY <1>5, <1>7, ThoseSeq

\* Times of words are numbers.
HasTimes(words) == \A i \in DOMAIN words : words[i].start \in Nat /\ words[i].end \in Nat

LEMMA HearableHasTimes == ASSUME NEW words \in Seq(Hearable) PROVE HasTimes(words)
<1> DEFINE X == Hearable
<1>1. \A w \in X : w.start \in Nat /\ w.end \in Nat
  BY DEF Hearable
<1> HIDE DEF X
<1>2. \A i \in DOMAIN words : words[i] \in X
  <2>1. words \in Seq(X)
    BY DEF X
  <2> QED BY <2>1
<1> QED BY <1>1, <1>2 DEF HasTimes

\* normalize drops the words without text.
HasTexts(words) == \A i \in DOMAIN words : words[i].text \in Texts

LEMMA NormalHasTexts ==
    ASSUME NEW raw \in Seq(Hearable), NEW length \in Nat
    PROVE  HasTexts(Normal(raw, length))
<1> DEFINE clipped == [i \in DOMAIN raw |-> Clipped(raw[i], length)]
           mended == [i \in DOMAIN raw |->
                        [clipped[i] EXCEPT !.end = Larger(@, clipped[i].start)]]
           X == Elements(mended)
           V == {w \in X : w.text # "Blank"}
           made == Normal(raw, length)
<1>1. made = Those(mended, V)
  BY DEF Normal
<1>2. DOMAIN mended = 1 .. Len(raw) /\ Len(raw) \in Nat
      /\ mended = [i \in 1 .. Len(raw) |-> mended[i]]
  BY DEF Hearable
<1>3. made \in Seq(Hearable)
  BY NormalIsHearable
<1> HIDE DEF mended, made
<1>4. mended \in Seq(X)
  BY <1>2, FunctionIsSeq DEF IsSeq
<1> DEFINE W == X \intersect V
           Z == Hearable
<1>5. made \in Seq(W)
  BY <1>1, <1>4, ThoseWithin
<1>6. \A w \in W : w.text # "Blank"
  OBVIOUS
<1>7. \A w \in Z : w.text \in Texts \union {"Blank"}
  BY DEF Hearable
<1> HIDE DEF W, Z
<1>8. \A i \in DOMAIN made : made[i] \in W /\ made[i] \in Z
  <2>1. made \in Seq(Z)
    BY <1>3 DEF Z
  <2> QED BY <1>5, <2>1
<1> QED BY <1>6, <1>7, <1>8 DEF HasTexts, made

\* A word an engine is not sure of.
LEMMA NoiseIsHearable ==
    ASSUME NEW raw \in [1 .. 2 -> {Word(s, e, t) : s \in NoiseTimes, e \in NoiseTimes,
                                                   t \in {"Letter", "Blank"}}]
    PROVE  raw \in Seq(Hearable)
<1>1. NoiseTimes \subseteq Nat
  BY FlowAssumption
<1>2. \A i \in 1 .. 2 : \E s \in NoiseTimes, e \in NoiseTimes, t \in {"Letter", "Blank"} :
          raw[i] = Word(s, e, t)
  OBVIOUS
<1>3. \A t \in {"Letter", "Blank"} : t \in Texts \union {"Blank"}
  BY DEF Texts
<1>4. \A i \in 1 .. 2 : raw[i] \in Hearable
  BY <1>1, <1>2, <1>3, WordIsHearable
<1> DEFINE n == 2
<1>5. raw \in [1 .. n -> Hearable] /\ n \in Nat
  BY <1>4
<1> HIDE DEF n
<1> QED BY <1>5

LEMMA SpreadWordsAreHearable ==
    ASSUME NEW max \in Nat, NEW texts, texts \subseteq Texts, NEW gaps, gaps \subseteq Nat,
           NEW raw \in SpreadWords(max, texts, gaps)
    PROVE  raw \in Seq(Hearable) /\ raw[Len(raw)].end \in Nat
<1>1. PICK n \in 1 .. max :
         raw \in {Spread(t, g) : t \in [1 .. n -> texts],
                                 g \in {f \in [1 .. n -> gaps] : f[1] = CHOOSE x \in gaps : TRUE}}
  BY DEF SpreadWords
<1>2. \E t \in [1 .. n -> texts], g \in [1 .. n -> gaps] : raw = Spread(t, g)
  BY <1>1
<1>3. PICK t \in [1 .. n -> texts], g \in [1 .. n -> gaps] : raw = Spread(t, g)
  BY <1>2
<1>4. n \in Nat /\ n \in 1 .. n
  OBVIOUS
<1>5. t \in [1 .. n -> Texts] /\ g \in [1 .. n -> Nat]
  OBVIOUS
<1>6. raw \in Seq(Hearable) /\ Len(raw) = n
  BY <1>3, <1>4, <1>5, SpreadIsHearable
<1>7. raw[n] \in Hearable
  BY <1>4, <1>6
<1> QED BY <1>6, <1>7 DEF Hearable

\* The words of an audio that is not cut are there at once, with times and texts.
WholeInv ==
    pc = "Hear" /\ source.route # "Chunked" =>
        source.plan = <<>> /\ source.chunk = 1 /\ HasTimes(heard) /\ HasTexts(heard)

LEMMA HearWholeTimes == ASSUME HearWhole, pc' = "Hear" PROVE WholeInv'
<1> DEFINE noise == {Word(s, e, t) : s \in NoiseTimes, e \in NoiseTimes,
                                     t \in {"Letter", "Blank"}}
<1>1. PICK route \in {"Whole", "Llm", "Noisy"} :
        \E raw \in CASE route = "Whole" -> SpreadWords(RuleWords, RuleTexts, RuleGaps)
                     [] route = "Llm" -> SpreadWords(LlmWords, LlmTexts, LlmGaps)
                     [] route = "Noisy" -> [1 .. 2 -> noise] :
           LET length == IF route = "Noisy" THEN 2 ELSE raw[Len(raw)].end
           IN  IF CanNormalize(raw, length)
               THEN /\ heard' = Normal(raw, length) /\ pc' = "Hear"
                    /\ source' = [route |-> route, plan |-> <<>>, chunk |-> 1]
               ELSE pc' = "Refused" /\ UNCHANGED <<heard, source>>
  BY DEF HearWhole
<1> HIDE DEF noise
<1>2. PICK raw \in CASE route = "Whole" -> SpreadWords(RuleWords, RuleTexts, RuleGaps)
                     [] route = "Llm" -> SpreadWords(LlmWords, LlmTexts, LlmGaps)
                     [] route = "Noisy" -> [1 .. 2 -> noise] :
         /\ heard' = Normal(raw, IF route = "Noisy" THEN 2 ELSE raw[Len(raw)].end)
         /\ source' = [route |-> route, plan |-> <<>>, chunk |-> 1]
  BY <1>1
<1>3. RuleWords \in Nat /\ LlmWords \in Nat
      /\ RuleTexts \subseteq Texts /\ LlmTexts \subseteq Texts
      /\ RuleGaps \subseteq Nat /\ LlmGaps \subseteq Nat
  BY FlowAssumption
<1> DEFINE length == IF route = "Noisy" THEN 2 ELSE raw[Len(raw)].end
<1>4. raw \in Seq(Hearable) /\ length \in Nat
  <2>1. CASE route = "Noisy"
    <3>1. raw \in [1 .. 2 -> noise]
      BY <1>2, <2>1
    <3>2. raw \in Seq(Hearable)
      BY <3>1, NoiseIsHearable DEF noise
    <3> QED BY <2>1, <3>2
  <2>2. CASE route = "Whole"
    <3>1. raw \in SpreadWords(RuleWords, RuleTexts, RuleGaps)
      BY <1>2, <2>2
    <3>2. raw \in Seq(Hearable) /\ raw[Len(raw)].end \in Nat
      BY <1>3, <3>1, SpreadWordsAreHearable
    <3> QED BY <2>2, <3>2
  <2>3. CASE route = "Llm"
    <3>1. raw \in SpreadWords(LlmWords, LlmTexts, LlmGaps)
      BY <1>2, <2>3
    <3>2. raw \in Seq(Hearable) /\ raw[Len(raw)].end \in Nat
      BY <1>3, <3>1, SpreadWordsAreHearable
    <3> QED BY <2>3, <3>2
  <2> QED BY <2>1, <2>2, <2>3
<1>5. heard' = Normal(raw, length)
  BY <1>2
<1> HIDE DEF length
<1>6. HasTimes(heard') /\ HasTexts(heard')
  BY <1>4, <1>5, NormalIsHearable, NormalHasTexts, HearableHasTimes
<1>7. source'.plan = <<>> /\ source'.chunk = 1
  BY <1>2
<1> QED BY <1>6, <1>7 DEF WholeInv, HasTimes, HasTexts

LEMMA WholeStep == ASSUME WholeInv, HeardInv, [Next]_vars PROVE WholeInv'
<1>1. CASE pc' # "Hear"
  BY <1>1 DEF WholeInv
<1>2. CASE HearWhole /\ pc' = "Hear"
  BY <1>2, HearWholeTimes
<1>3. CASE HearChunk /\ pc' = "Hear"
  <2>1. CASE source.route = "Chunked"
    <3>1. source' = source \/ source' = [source EXCEPT !.chunk = @ + 1]
      BY <1>3 DEF HearChunk
    <3>2. pc = "Hear"
      BY <1>3 DEF HearChunk
    <3>3. "route" \in DOMAIN source
      BY <2>1, <3>2 DEF HeardInv, IsRecording
    <3>4. source'.route = "Chunked"
      BY <2>1, <3>1, <3>3
    <3> QED BY <3>4 DEF WholeInv
  <2>2. CASE source.route # "Chunked"
    <3>1. pc = "Hear" /\ source.chunk <= Len(source.plan)
      BY <1>3 DEF HearChunk
    <3>2. source.plan = <<>> /\ source.chunk = 1
      BY <2>2, <3>1 DEF WholeInv
    <3>3. Len(<<>>) = 0
      OBVIOUS
    <3> QED BY <3>1, <3>2, <3>3
  <2> QED BY <2>1, <2>2
<1>4. CASE Speak
  <2>1. source.route = "Chunked" /\ \E words : source' = [source EXCEPT !.spoken = words, !.chunk = 1]
    BY <1>4 DEF Speak, HeardInv
  <2>2. source'.route = "Chunked"
    BY <2>1
  <2> QED BY <2>2 DEF WholeInv
<1>5. CASE UNCHANGED vars
  BY <1>5 DEF WholeInv, HasTimes, HasTexts, vars
<1>6. CASE Record \/ EndAsr \/ Import \/ SplitByRules \/ BeginSplit
  <2>1. pc' # "Hear"
    BY <1>6 DEF Record, EndAsr, Import, SplitByRules, BeginSplit
  <2> QED BY <1>1, <2>1
<1>7. CASE AnswerSplit \/ DegradeSplit \/ EndSplit \/ Correct \/ Translate
  <2>1. pc' # "Hear"
    BY <1>7 DEF AnswerSplit, DegradeSplit, EndSplit, Correct, Translate
  <2> QED BY <1>1, <2>1
<1>8. CASE StageFails \/ EditCue \/ Retry
  <2>1. pc' # "Hear"
    BY <1>8 DEF StageFails, EditCue, Retry
  <2> QED BY <1>1, <2>1
<1> QED BY <1>1, <1>2, <1>3, <1>4, <1>5, <1>6, <1>7, <1>8 DEF Next

\* Whatever way they came, the words have times and texts when the stage ends.
LEMMA HeardHasTimes ==
    ASSUME WholeInv, HeardInv, pc = "Hear"
    PROVE  HasTimes(heard) /\ HasTexts(heard)
<1>1. CASE source.route # "Chunked"
  BY <1>1 DEF WholeInv
<1>2. CASE source.route = "Chunked"
  <2> DEFINE spoken == source.spoken
             Y == Utterance(source.duration)
             all == IndexList(spoken)
             V == OwnedBy(spoken, 0, Reached(source))
             some == Those(all, V)
             D == DOMAIN spoken
  <2>1. Sentence(spoken, source.duration) /\ heard = Said(spoken, some)
    BY <1>2 DEF HeardInv, KeptUpto
  <2>2. spoken \in Seq(Y)
    BY <2>1 DEF Sentence
  <2> HIDE DEF Y, all, V, spoken, some, D
  <2>3. all \in Seq(D) /\ spoken \in [D -> Y]
    BY <2>2, ListOfIndexes DEF all, D
  <2>4. some \in Seq(D)
    BY <2>3, ThoseSeq DEF some
  <2>5. heard \in Seq(Y)
    BY <2>1, <2>3, <2>4, SaidSeq
  <2>6. \A w \in Y : w.start \in Nat /\ w.end \in Nat /\ w.text = "Letter"
    BY DEF Y, Utterance, Timed
  <2>7. \A i \in DOMAIN heard : heard[i] \in Y
    BY <2>5
  <2>8. "Letter" \in Texts
    BY DEF Texts
  <2> QED BY <2>6, <2>7, <2>8 DEF HasTimes, HasTexts
<1> QED BY <1>1, <1>2

-----------------------------------------------------------------------------
(* The transcripts the stages make. *)

LEMMA AsrReadable ==
    ASSUME NEW words, IsSeq(words), WordsTimed(words)
    PROVE  Readable(NewAsr(words))
<1> DEFINE d == NewAsr(words)
<1>1. d.words = words /\ d.cues = <<>>
  BY DEF NewAsr
<1>2. IsSeq(<<>>) /\ DOMAIN <<>> = {}
  BY EmptyIsSeq
<1> HIDE DEF d
<1>3. IsSeq(d.cues) /\ \A c \in DOMAIN d.cues : FALSE
  BY <1>1, <1>2
<1> QED BY <1>1, <1>3 DEF Readable, d

LEMMA NoDocReadable == Readable(NoDoc)
<1>1. DOMAIN <<>> = {} /\ Len(<<>>) = 0
  OBVIOUS
<1>2. \A i \in 1 .. 0 - 1 : FALSE
  OBVIOUS
<1>3. WordsTimed(<<>>)
  BY <1>1, <1>2 DEF WordsTimed
<1> QED BY <1>3, EmptyIsSeq, AsrReadable DEF NoDoc

\* Ranges are made cues of.
LEMMA SplitReadable ==
    ASSUME NEW d, IsDoc(d), IsSeq(d.words), WordsTimed(d.words), d.timeline = "AsrWords",
           NEW ranges, NEW n \in Nat, DOMAIN ranges = 1 .. n, NEW origin
    PROVE  Readable(SplitInto(d, ranges, origin))
<1> DEFINE cues == CuesOver(ranges, origin)
           made == SplitInto(d, ranges, origin)
<1>1. /\ cues = [c \in 1 .. n |-> cues[c]]
      /\ \A c \in 1 .. n : cues[c] = NewCue(c, ranges[c], NoTimes, "Joined", Blank, origin)
  BY DEF CuesOver
<1>2. made.words = d.words /\ made.timeline = "AsrWords" /\ made.cues = cues
  BY DEF SplitInto, IsDoc
<1> HIDE DEF cues, made
<1>3. IsSeq(cues) /\ Len(cues) = n /\ DOMAIN cues = 1 .. n
  BY <1>1, FunctionIsSeq
<1> QED BY <1>2, <1>3 DEF Readable, made

LEMMA RuleReadable ==
    ASSUME FlowInv, WordsListed, Readable(docs["Asr"])
    PROVE  Readable(RuleSplitOf(docs["Asr"]))
<1> DEFINE asr == docs["Asr"]
           ranges == RuleRanges(asr.words)
<1>1. IsDoc(asr) /\ asr.timeline = "AsrWords" /\ IsSeq(asr.words) /\ WordsTimed(asr.words)
  BY DEF FlowInv, DocsOK, StageNames, NewAsr, Readable
<1>2. RuleSplitOf(asr) = SplitInto(asr, ranges, "RuleSplit")
  BY DEF RuleSplitOf, SplitInto
<1>3. PICK n \in Nat : DOMAIN RuleSplitOf(asr).cues = 1 .. n
  BY RuleIsParted DEF Parted, WordsListed
<1>4. DOMAIN ranges = 1 .. n
  <2>1. RuleSplitOf(asr).words = asr.words
        /\ DOMAIN RuleSplitOf(asr).cues = DOMAIN RuleRanges(RuleSplitOf(asr).words)
    BY RuleDoc
  <2> QED BY <1>3, <2>1
<1> HIDE DEF asr, ranges
<1>5. Readable(SplitInto(asr, ranges, "RuleSplit"))
  BY <1>1, <1>4, SplitReadable
<1> QED BY <1>2, <1>5 DEF asr

\* The replies to the split.
LEMMA ReplyReadable ==
    ASSUME FlowInv, WordsListed, ReplyOK, pc = "Reply", Readable(docs["Asr"]), NEW ids
    PROVE  Readable(MarkFailed(ApplySplit(RuleSplitOf(docs["Asr"]), reply.ranges), ids))
<1> DEFINE base == RuleSplitOf(docs["Asr"])
           ranges == reply.ranges
           split == ApplySplit(base, ranges)
<1>1. IsDoc(base) /\ base.timeline = "AsrWords" /\ Readable(base)
  BY RuleDoc, RuleReadable
<1>2. ranges \in RangeList
  BY DEF ReplyOK
<1> HIDE DEF base, ranges
<1>3. Len(ranges) \in Nat /\ DOMAIN ranges = 1 .. Len(ranges)
  BY <1>2 DEF RangeList
<1>4. split = SplitInto(base, ranges, "Llm")
  BY DEF ApplySplit, SplitInto
<1> HIDE DEF split
<1>5. IsDoc(split) /\ Readable(split)
  BY <1>1, <1>3, <1>4, SplitDoc, SplitReadable DEF Readable
<1>6. Follows(MarkFailed(split, ids), split) /\ Keeps(MarkFailed(split, ids), split)
  BY <1>5, MarkFollows, MarkKeeps
<1>7. Readable(MarkFailed(split, ids))
  BY <1>5, <1>6, KeepsReadable
<1> QED BY <1>7 DEF split, base, ranges

\* The cues of an imported document.
LEMMA SrtIsRead ==
    ASSUME NEW blocks \in Seq(Blocks)
    PROVE  SrtCues(blocks) \in Seq(Blocks)
<1> DEFINE V == {b \in Elements(blocks) : HasLines(b) /\ InOrderTimes(b)}
           S == Blocks
<1>1. SrtCues(blocks) = Those(blocks, V)
  BY DEF SrtCues
<1> HIDE DEF V, S
<1>2. Those(blocks, V) \in Seq(S)
  BY ThoseSeq DEF S
<1> QED BY <1>1, <1>2 DEF S

LEMMA VttIsRead ==
    ASSUME NEW blocks \in Seq(Blocks)
    PROVE  VttCues(blocks) \in Seq(Blocks)
<1> DEFINE S == Blocks
           n == Len(blocks)
           ended == {k \in 0 .. n : \A i \in 1 .. k : blocks[i].kind # "Note"}
           last == CHOOSE k \in ended : \A m \in ended : m <= k
           read == SubSeq(blocks, 1, last)
           V == {b \in Elements(read) : HasLines(b)}
<1>1. VttCues(blocks) = Those(read, V)
  BY DEF VttCues
<1>2. n \in Nat
  OBVIOUS
<1>3. ended \subseteq 0 .. n /\ 0 \in ended
  BY <1>2
<1> HIDE DEF n, ended
<1>4. \E k \in ended : \A m \in ended : m <= k
  <2> DEFINE K == {n - k : k \in ended}
  <2>1. K \subseteq Nat /\ n - 0 \in K
    BY <1>2, <1>3
  <2>2. K \in SUBSET Nat /\ K # {}
    BY <2>1
  <2>3. \E x \in K : \A y \in K : x <= y
    <3> HIDE DEF K
    <3> QED BY <2>2, LeastOf
  <2>4. PICK k \in ended : \A y \in K : n - k <= y
    BY <2>3
  <2>5. \A m \in ended : m \in Nat /\ m <= n
    BY <1>2, <1>3
  <2>6. ASSUME NEW m \in ended PROVE m <= k
    <3>1. n - k <= n - m
      BY <2>4
    <3> QED BY <1>2, <2>5, <3>1
  <2> QED BY <2>6
<1>5. last \in ended
  BY <1>4
<1> HIDE DEF last
<1>6. read \in Seq(S)
  <2>1. last \in 0 .. n
    BY <1>3, <1>5
  <2>2. blocks \in Seq(S)
    OBVIOUS
  <2> HIDE DEF S
  <2> QED BY <1>2, <2>1, <2>2 DEF n
<1> HIDE DEF read, V, S
<1>7. Those(read, V) \in Seq(S)
  BY <1>6, ThoseSeq
<1> QED BY <1>1, <1>7 DEF S

LEMMA ImportedReadable ==
    ASSUME NEW blocks \in Seq(Blocks), NEW layout \in ImportLayouts,
           CanImport(blocks, layout)
    PROVE  Readable(NewImported(CuesOfBlocks(blocks, layout)))
<1> DEFINE n == Len(blocks)
           cues == CuesOfBlocks(blocks, layout)
           d == NewImported(cues)
<1>1. n \in Nat /\ DOMAIN blocks = 1 .. n
  <2> DEFINE S == Blocks
  <2>1. blocks \in Seq(S)
    OBVIOUS
  <2> HIDE DEF S
  <2> QED BY <2>1
<1>2. cues = [c \in 1 .. n |-> cues[c]]
  BY <1>1 DEF CuesOfBlocks
<1>3. Valid(d)
  BY DEF CanImport
<1> HIDE DEF n, cues
<1>4. IsSeq(cues) /\ Len(cues) = n /\ DOMAIN cues = 1 .. n
  BY <1>1, <1>2, FunctionIsSeq
<1>5. d.words = <<>> /\ d.cues = cues /\ d.timeline = "ImportedCue"
  BY DEF NewImported
<1> HIDE DEF d
<1>6. \A c \in 1 .. n : cues[c].times[1] <= cues[c].times[2]
  BY <1>3, <1>4, <1>5 DEF Valid
<1>7. IsSeq(d.words) /\ WordsTimed(d.words)
  BY <1>5, NoDocReadable DEF Readable, NoDoc, NewAsr
<1> QED BY <1>4, <1>5, <1>6, <1>7 DEF Readable, d, cues

-----------------------------------------------------------------------------
(* Every step leaves transcripts that can be read. *)

ReadInv == CueInv /\ HeardInv /\ WholeInv /\ \A s \in StageNames : Readable(docs[s])

\* A stage commits a transcript, or one is edited.
LEMMA CommitRead ==
    ASSUME FlowInv, \A s \in StageNames : Readable(docs[s]),
           NEW stage \in StageNames, NEW d, Readable(d), docs' = [docs EXCEPT ![stage] = d]
    PROVE  \A s \in StageNames : Readable(docs'[s])
<1>1. docs'[stage] = d /\ \A s \in StageNames \ {stage} : docs'[s] = docs[s]
  BY DEF FlowInv, DocsOK
<1> QED BY <1>1

LEMMA EndAsrRead ==
    ASSUME ReadInv, EndAsr
    PROVE  \A s \in StageNames : Readable(docs'[s])
<1>1. FlowInv /\ \A s \in StageNames : Readable(docs[s])
  BY DEF ReadInv, CueInv
<1>2. CASE UNCHANGED docs
  BY <1>1, <1>2
<1>3. CASE docs' = [docs EXCEPT !["Asr"] = NewAsr(heard)] /\ Valid(NewAsr(heard))
  <2>1. IsSeq(heard) /\ HasTimes(heard)
    BY HeardHasTimes DEF ReadInv, CueInv, WordsListed, EndAsr
  <2>2. NewAsr(heard).words = heard
    BY DEF NewAsr
  <2>3. WordsTimed(heard)
    BY <1>3, <2>1, <2>2 DEF Valid, WordsTimed, HasTimes
  <2>4. Readable(NewAsr(heard))
    BY <2>1, <2>3, AsrReadable
  <2> QED BY <1>1, <1>3, <2>4, CommitRead DEF StageNames
<1> QED BY <1>2, <1>3 DEF EndAsr

LEMMA ImportRead ==
    ASSUME ReadInv, Import
    PROVE  \A s \in StageNames : Readable(docs'[s])
<1>1. FlowInv /\ \A s \in StageNames : Readable(docs[s])
  BY DEF ReadInv, CueInv
<1>2. CASE UNCHANGED docs
  BY <1>1, <1>2
<1>3. CASE ~UNCHANGED docs
  <2>1. PICK route \in {"Srt", "Vtt"}, layout \in ImportLayouts, n \in 1 .. MaxBlocks :
        \E blocks \in [1 .. n -> Blocks] :
          LET cues == IF route = "Srt" THEN SrtCues(blocks) ELSE VttCues(blocks)
          IN  /\ CanImport(cues, layout)
              /\ docs' = [docs EXCEPT !["Split"] = NewImported(CuesOfBlocks(cues, layout))]
    BY <1>3 DEF Import
  <2>2. PICK blocks \in [1 .. n -> Blocks] :
          LET cues == IF route = "Srt" THEN SrtCues(blocks) ELSE VttCues(blocks)
          IN  /\ CanImport(cues, layout)
              /\ docs' = [docs EXCEPT !["Split"] = NewImported(CuesOfBlocks(cues, layout))]
    BY <2>1
  <2> DEFINE cues == IF route = "Srt" THEN SrtCues(blocks) ELSE VttCues(blocks)
  <2>3. blocks \in Seq(Blocks)
    <3> DEFINE S == Blocks
    <3>1. n \in Nat /\ blocks \in [1 .. n -> S]
      OBVIOUS
    <3> HIDE DEF S
    <3>2. blocks \in Seq(S)
      BY <3>1
    <3> QED BY <3>2 DEF S
  <2>4. cues \in Seq(Blocks)
    BY <2>3, SrtIsRead, VttIsRead
  <2>5. CanImport(cues, layout)
        /\ docs' = [docs EXCEPT !["Split"] = NewImported(CuesOfBlocks(cues, layout))]
    BY <2>2
  <2> HIDE DEF cues
  <2>6. Readable(NewImported(CuesOfBlocks(cues, layout)))
    BY <2>4, <2>5, ImportedReadable
  <2> QED BY <1>1, <2>5, <2>6, CommitRead DEF StageNames
<1> QED BY <1>2, <1>3

LEMMA SplitRead ==
    ASSUME ReadInv, SplitByRules \/ EndSplit
    PROVE  \A s \in StageNames : Readable(docs'[s])
<1>1. /\ FlowInv /\ WordsListed /\ ReplyOK
      /\ \A s \in StageNames : Readable(docs[s])
      /\ Readable(docs["Asr"]) /\ "Split" \in StageNames
  BY DEF ReadInv, CueInv, StageNames
<1>2. CASE SplitByRules
  <2>1. docs' = [docs EXCEPT !["Split"] = RuleSplitOf(docs["Asr"])]
    BY <1>2 DEF SplitByRules
  <2>2. Readable(RuleSplitOf(docs["Asr"]))
    BY <1>1, RuleReadable
  <2> QED BY <1>1, <2>1, <2>2, CommitRead
<1>3. CASE EndSplit
  <2> DEFINE split == ApplySplit(RuleSplitOf(docs["Asr"]), reply.ranges)
             d == MarkFailed(split, CuesWithin(split, reply.failed))
  <2>1. CASE UNCHANGED docs
    BY <1>1, <2>1
  <2>2. CASE docs' = [docs EXCEPT !["Split"] = d]
    <3>1. pc = "Reply"
      BY <1>3 DEF EndSplit
    <3>2. Readable(d)
      BY <1>1, <3>1, ReplyReadable
    <3> HIDE DEF d
    <3> QED BY <1>1, <2>2, <3>2, CommitRead
  <2> QED BY <1>3, <2>1, <2>2 DEF EndSplit
<1> QED BY <1>2, <1>3

LEMMA RewriteRead ==
    ASSUME FlowInv, \A s \in StageNames : Readable(docs[s]),
           NEW stage \in StageNames, NEW before \in StageNames, NEW field \in Fields,
           NEW values, Rewrite(stage, docs[before], field, values)
    PROVE  \A s \in StageNames : Readable(docs'[s])
<1> DEFINE input == docs[before]
<1>1. IsDoc(input) /\ Readable(input)
  BY DEF FlowInv, DocsOK
<1>2. PICK updates, ids :
         docs' = [docs EXCEPT ![stage] = MarkFailed(ApplyText(input, field, updates), ids)]
  BY DEF Rewrite
<1> DEFINE text == ApplyText(input, field, updates)
           d == MarkFailed(text, ids)
<1>4. docs' = [docs EXCEPT ![stage] = d]
  BY <1>2
<1> HIDE DEF input
<1>5. Follows(text, input) /\ Keeps(text, input)
  BY <1>1, ApplyTextFollows, ApplyTextKeeps
<1>6. IsDoc(text) /\ Readable(text)
  BY <1>1, <1>5, KeepsReadable DEF Follows
<1> HIDE DEF text
<1>7. Follows(d, text) /\ Keeps(d, text)
  BY <1>6, MarkFollows, MarkKeeps
<1>8. Readable(d)
  BY <1>6, <1>7, KeepsReadable
<1> HIDE DEF d
<1> QED BY <1>4, <1>8, CommitRead

LEMMA EditRead ==
    ASSUME ReadInv, EditCue
    PROVE  \A s \in StageNames : Readable(docs'[s])
<1>1. FlowInv /\ \A s \in StageNames : Readable(docs[s])
  BY DEF ReadInv, CueInv
<1>2. PICK last \in StageNames \ {"Asr"} : \E d :
          /\ docs' = [docs EXCEPT ![last] = d]
          /\ Follows(d, docs[last]) /\ Keeps(d, docs[last])
  BY <1>1, EditedIsLatest
<1>3. PICK d : /\ docs' = [docs EXCEPT ![last] = d]
               /\ Follows(d, docs[last]) /\ Keeps(d, docs[last])
  BY <1>2
<1>4. Readable(d)
  BY <1>1, <1>3, KeepsReadable
<1> QED BY <1>1, <1>3, <1>4, CommitRead

LEMMA RetryRead ==
    ASSUME ReadInv, Retry
    PROVE  \A s \in StageNames : Readable(docs'[s])
<1>1. \A s \in StageNames : Readable(docs[s])
  BY DEF ReadInv
<1>2. PICK stage : docs' = [s \in StageNames |-> IF s \in Reopened(stage) THEN NoDoc ELSE docs[s]]
  BY DEF Retry
<1>3. \A s \in StageNames : docs'[s] = NoDoc \/ docs'[s] = docs[s]
  BY <1>2
<1> QED BY <1>1, <1>3, NoDocReadable

LEMMA ReadStart == Init => ReadInv
<1> SUFFICES ASSUME Init PROVE ReadInv
  OBVIOUS
<1>1. CueInv
  BY CuesStart
<1>2. HeardInv /\ WholeInv
  BY DEF Init, HeardInv, WholeInv
<1>3. \A s \in StageNames : docs[s] = NoDoc
  BY DEF Init
<1> QED BY <1>1, <1>2, <1>3, NoDocReadable DEF ReadInv

LEMMA ReadStep == ReadInv /\ [Next]_vars => ReadInv'
<1> SUFFICES ASSUME ReadInv, [Next]_vars PROVE ReadInv'
  OBVIOUS
<1>1. CueInv /\ HeardInv /\ WholeInv /\ FlowInv /\ \A s \in StageNames : Readable(docs[s])
  BY DEF ReadInv, CueInv
<1>2. CueInv' /\ HeardInv' /\ WholeInv'
  BY <1>1, CueStep, HeardStep, WholeStep
<1> SUFFICES \A s \in StageNames : Readable(docs'[s])
  BY <1>2 DEF ReadInv, Readable, WordsTimed, IsSeq, Elements
<1>3. CASE UNCHANGED docs
  BY <1>1, <1>3
<1>4. CASE Record \/ Speak \/ HearChunk \/ HearWhole
  <2>1. Record \/ Speak => UNCHANGED docs
    BY DEF Record, Speak
  <2>2. HearChunk => UNCHANGED docs
    BY DEF HearChunk
  <2>3. HearWhole => UNCHANGED docs
    BY DEF HearWhole
  <2> QED BY <1>3, <1>4, <2>1, <2>2, <2>3
<1>5. CASE BeginSplit \/ AnswerSplit \/ DegradeSplit \/ StageFails \/ UNCHANGED vars
  BY <1>3, <1>5 DEF BeginSplit, AnswerSplit, DegradeSplit, StageFails, vars
<1>6. CASE Correct
  <2>1. Rewrite("Correct", docs["Split"], "text", Corrections)
    BY <1>6 DEF Correct
  <2>2. "Correct" \in StageNames /\ "Split" \in StageNames /\ "text" \in Fields
    BY DEF StageNames, Fields
  <2> QED BY <1>1, <2>1, <2>2, RewriteRead
<1>7. CASE Translate
  <2>1. Rewrite("Translate", docs["Correct"], "translation", Translations)
    BY <1>7 DEF Translate
  <2>2. "Translate" \in StageNames /\ "Correct" \in StageNames /\ "translation" \in Fields
    BY DEF StageNames, Fields
  <2> QED BY <1>1, <2>1, <2>2, RewriteRead
<1>8. CASE EndAsr \/ Import \/ SplitByRules \/ EndSplit \/ EditCue \/ Retry
  BY <1>8, EndAsrRead, ImportRead, SplitRead, EditRead, RetryRead
<1> QED BY <1>4, <1>5, <1>6, <1>7, <1>8 DEF Next

LEMMA TranscriptsArePlaced ==
    ASSUME ReadInv, NEW s \in StageNames, s # "Asr"
    PROVE  Placed(docs[s])
BY DEF ReadInv, CueInv, CutsOK, Placed

LEMMA CuesInTime ==
    ASSUME ReadInv, NEW s \in StageNames
    PROVE  Readable(docs[s]) /\ InTime(docs[s])
<1>1. Readable(docs[s])
  BY DEF ReadInv
<1>2. CASE s # "Asr"
  BY <1>1, <1>2, TranscriptsArePlaced, TimesInOrder DEF InTime
<1>3. CASE s = "Asr"
  <2>1. docs[s] = NewAsr(docs["Asr"].words)
    BY <1>3 DEF ReadInv, CueInv, FlowInv, DocsOK
  <2>2. \A words : NewAsr(words).cues = <<>>
    BY DEF NewAsr
  <2>3. docs[s].cues = <<>> /\ DOMAIN <<>> = {}
    BY <2>1, <2>2
  <2> QED BY <1>1, <2>3 DEF InTime
<1> QED BY <1>2, <1>3

\* A file that the program has written, SubRip or WebVTT, in one language or in
\* both, with no empty line inside a cue, reads back as the cues it was written
\* from: the writer passes over those that were cleared and no other, and as every
\* cue of every committed transcript has times in order, the reader drops none and
\* refuses none; texts of one line each come back as they were, whoever wrote them
\* (render_srt, render_vtt, cue_text, import_srt, import_vtt, apply_layout).
THEOREM FilesReadBack == Spec => []ExportReadsBack
<1>1. ReadInv => ExportReadsBack
  <2> SUFFICES ASSUME ReadInv, NEW s \in StageNames, Committed(s)
               PROVE  /\ ReadsBackIn(docs[Latest], "SourceOnly", "Mono", {"text"})
                      /\ ReadsBackIn(docs[Latest], "SourceFirst", "SourceAbove", Fields)
                      /\ ReadsBackIn(docs[Latest], "TranslationFirst", "TranslationAbove", Fields)
    BY DEF ExportReadsBack
  <2> DEFINE last == Latest
  <2>0. last \in StageNames
    BY LatestIsLast
  <2> HIDE DEF last
  <2>1. \A p \in LayoutPairs :
           ReadsBackIn(docs[last], p[1], p[2], IF p[2] = "Mono" THEN {"text"} ELSE Fields)
    BY <2>0, CuesInTime, DocReadsBack
  <2>2. ReadsBackIn(docs[last], "SourceOnly", "Mono", {"text"})
    <3> DEFINE p == <<"SourceOnly", "Mono">>
    <3>1. p \in LayoutPairs /\ p[1] = "SourceOnly" /\ p[2] = "Mono"
      BY DEF LayoutPairs
    <3> HIDE DEF p
    <3> QED BY <2>1, <3>1
  <2>3. ReadsBackIn(docs[last], "SourceFirst", "SourceAbove", Fields)
    <3> DEFINE p == <<"SourceFirst", "SourceAbove">>
    <3>1. p \in LayoutPairs /\ p[1] = "SourceFirst" /\ p[2] = "SourceAbove"
      BY DEF LayoutPairs
    <3> HIDE DEF p
    <3> QED BY <2>1, <3>1
  <2>4. ReadsBackIn(docs[last], "TranslationFirst", "TranslationAbove", Fields)
    <3> DEFINE p == <<"TranslationFirst", "TranslationAbove">>
    <3>1. p \in LayoutPairs /\ p[1] = "TranslationFirst" /\ p[2] = "TranslationAbove"
      BY DEF LayoutPairs
    <3> HIDE DEF p
    <3> QED BY <2>1, <3>1
  <2> QED BY <2>2, <2>3, <2>4 DEF last
<1> QED BY <1>1, ReadStart, ReadStep, PTL DEF Spec

LEMMA ReadableIsValid ==
    ASSUME NEW d, Readable(d), Placed(d)
    PROVE  Valid(d)
<1> DEFINE words == d.words
           cues == d.cues
<1>1. /\ \A i \in DOMAIN words : words[i].start <= words[i].end
      /\ \A i \in 1 .. Len(words) - 1 : words[i].start <= words[i + 1].start
  BY DEF Readable, WordsTimed
<1>2. CASE d.timeline = "ImportedCue"
  <2>1. \A c \in DOMAIN cues : cues[c].times[1] <= cues[c].times[2]
    BY <1>2 DEF Readable
  <2> QED BY <1>1, <1>2, <2>1 DEF Valid
<1>3. CASE d.timeline = "AsrWords" /\ Parted(d)
  <2>1. \A c \in DOMAIN cues : RangeIn(cues[c].range, words) /\ cues[c].range[2] \in Nat
    BY <1>3, PartEnds DEF RangeIn
  <2>2. PICK n \in Nat :
          /\ DOMAIN cues = 1 .. n
          /\ \A c \in 1 .. n :
                cues[c].range[1] = IF c = 1 THEN 0 ELSE cues[c - 1].range[2]
    BY <1>3 DEF Parted
  <2>3. ASSUME NEW c \in DOMAIN cues, c > 1
        PROVE  cues[c - 1].range[2] <= cues[c].range[1]
    <3>1. c \in 1 .. n /\ c - 1 \in DOMAIN cues /\ c # 1
      BY <2>2, <2>3
    <3>2. cues[c].range[1] = cues[c - 1].range[2] /\ cues[c - 1].range[2] \in Nat
      BY <2>1, <2>2, <3>1
    <3> QED BY <3>2
  <2> QED BY <1>1, <1>3, <2>1, <2>3 DEF Valid
<1> QED BY <1>2, <1>3 DEF Placed

LEMMA AsrIsValid ==
    ASSUME NEW words, WordsTimed(words)
    PROVE  Valid(NewAsr(words))
<1> DEFINE d == NewAsr(words)
<1>1. d.words = words /\ d.cues = <<>>
  BY DEF NewAsr
<1>2. DOMAIN <<>> = {}
  OBVIOUS
<1> HIDE DEF d
<1>3. Valid(d)
  BY <1>1, <1>2 DEF Valid, WordsTimed
<1> QED BY <1>3 DEF d

\* What is known of the edits and of the place in the flow.
EditSet == [stage : StageNames, id : Nat, field : Fields, value : TypedTexts,
            read : Nat, kept : BOOLEAN]
PcSet == {"Start", "Speak", "Hear", "Split", "LlmSplit", "Reply", "Correct",
          "Translate", "Stopped", "Plain", "Done", "Imported", "Refused"}
KindInv == edits \subseteq EditSet /\ pc \in PcSet

LEMMA EditKind ==
    ASSUME ReadInv, KindInv, EditCue
    PROVE  KindInv'
<1>1. PICK s \in StageNames : Committed(s)
  BY DEF EditCue
<1> DEFINE last == Latest
           d == docs[last]
<1>2. PICK field \in Fields, value \in TypedTexts, shown \in StageNames, id \in CueIds(d) :
         LET edit == EditOf(id, field, value, docs[shown].revision)
         IN  edits' = {Older(e, edit) : e \in edits} \union {edit}
  BY EditSays
<1> DEFINE edit == EditOf(id, field, value, docs[shown].revision)
           kept(e) == e.kept /\ e \notin Replaced(edit)
<1>3. last \in StageNames
  BY <1>1, LatestIsLast
<1>4. IsDoc(d) /\ Readable(d) /\ docs[shown].revision \in Nat
  BY <1>3 DEF ReadInv, CueInv, FlowInv, DocsOK, IsDoc
<1>5. id \in CueIds(d)
  OBVIOUS
<1> HIDE DEF d
<1>6. id \in DOMAIN d.cues /\ DOMAIN d.cues = 1 .. Len(d.cues) /\ Len(d.cues) \in Nat
  BY <1>4, <1>5, CuesByNumber, DomainOfSeq DEF Readable
<1>7. id \in Nat
  BY <1>6
<1>8. edit \in EditSet
  BY <1>3, <1>4, <1>7 DEF EditSet, EditOf
<1> HIDE DEF last
<1>9. \A e \in edits : [e EXCEPT !.kept = kept(e)] \in EditSet
  <2> SUFFICES ASSUME NEW e \in edits PROVE [e EXCEPT !.kept = kept(e)] \in EditSet
    OBVIOUS
  <2>1. e \in EditSet /\ kept(e) \in BOOLEAN
    BY DEF KindInv
  <2> HIDE DEF kept
  <2> QED BY <2>1 DEF EditSet
<1>10. edits' \subseteq EditSet
  <2>1. \A x \in edits' : x = edit \/ \E e \in edits : x = [e EXCEPT !.kept = kept(e)]
    BY <1>2 DEF Older
  <2> HIDE DEF kept, edit
  <2> QED BY <1>8, <1>9, <2>1
<1>11. pc' = pc
  BY DEF EditCue
<1> QED BY <1>10, <1>11 DEF KindInv, EditSet

LEMMA RetryKind ==
    ASSUME KindInv, Retry
    PROVE  KindInv'
<1>1. PICK stage \in {"Split", "Correct", "Translate"} :
         /\ edits' = {[e EXCEPT !.kept = @ /\ e.stage \notin Reopened(stage)] : e \in edits}
         /\ pc' = IF stage = "Split" THEN "LlmSplit" ELSE stage
  BY DEF Retry
<1>2. ASSUME NEW e \in EditSet
      PROVE  [e EXCEPT !.kept = @ /\ e.stage \notin Reopened(stage)] \in EditSet
  <2> DEFINE kept == e.kept /\ e.stage \notin Reopened(stage)
  <2>1. kept \in BOOLEAN
    OBVIOUS
  <2>2. [e EXCEPT !.kept = @ /\ e.stage \notin Reopened(stage)] = [e EXCEPT !.kept = kept]
    OBVIOUS
  <2> HIDE DEF kept
  <2> QED BY <2>1, <2>2 DEF EditSet
<1>3. \A e \in edits : e \in EditSet
  BY DEF KindInv
<1>4. edits' \subseteq EditSet
  BY <1>1, <1>2, <1>3
<1>5. pc' \in PcSet
  BY <1>1 DEF PcSet
<1> QED BY <1>4, <1>5 DEF KindInv, EditSet, PcSet

LEMMA KindStep ==
    ASSUME ReadInv, KindInv, [Next]_vars
    PROVE  KindInv'
<1>1. CASE UNCHANGED edits /\ pc' \in PcSet
  BY <1>1 DEF KindInv, EditSet, PcSet
<1>2. pc \in PcSet
  BY DEF KindInv
<1>3. CASE Record \/ Speak \/ HearChunk \/ HearWhole \/ EndAsr \/ Import
  <2>1. Record \/ Speak => UNCHANGED edits /\ pc' \in PcSet
    BY DEF Record, Speak, PcSet
  <2>2. HearChunk => UNCHANGED edits /\ pc' \in PcSet
    BY <1>2 DEF HearChunk, PcSet
  <2>3. HearWhole => UNCHANGED edits /\ pc' \in PcSet
    BY DEF HearWhole, PcSet
  <2>4. EndAsr => UNCHANGED edits /\ pc' \in PcSet
    BY DEF EndAsr, PcSet
  <2>5. Import => UNCHANGED edits /\ pc' \in PcSet
    BY DEF Import, PcSet
  <2> QED BY <1>1, <1>3, <2>1, <2>2, <2>3, <2>4, <2>5
<1>4. CASE SplitByRules \/ BeginSplit \/ AnswerSplit \/ DegradeSplit \/ EndSplit
  <2>1. SplitByRules \/ BeginSplit => UNCHANGED edits /\ pc' \in PcSet
    BY DEF SplitByRules, BeginSplit, PcSet
  <2>2. AnswerSplit \/ DegradeSplit => UNCHANGED edits /\ pc' \in PcSet
    BY <1>2 DEF AnswerSplit, DegradeSplit, PcSet
  <2>3. EndSplit => UNCHANGED edits /\ pc' \in PcSet
    BY DEF EndSplit, PcSet
  <2> QED BY <1>1, <1>4, <2>1, <2>2, <2>3
<1>5. CASE Correct \/ Translate \/ StageFails \/ UNCHANGED vars
  <2>1. UNCHANGED edits /\ pc' \in PcSet
    BY <1>2, <1>5 DEF Correct, Translate, Rewrite, StageFails, vars, PcSet
  <2> QED BY <1>1, <2>1
<1>6. CASE EditCue
  BY <1>6, EditKind
<1>7. CASE Retry
  BY <1>7, RetryKind
<1> QED BY <1>3, <1>4, <1>5, <1>6, <1>7 DEF Next

\* No word of a committed transcript ends before it starts or comes before an
\* earlier one, and every cue lies in the words behind the cue before it, or has
\* times in order: the validate with which rule_split, apply_llm_split,
\* apply_llm_text, edit_text, edit_translation and mark_llm_failed end never
\* refuses what they made, only that of the Asr stage and of an import does.
THEOREM TranscriptsAreValid == Spec => []TypeOK
<1> DEFINE Inv == ReadInv /\ KindInv
<1>1. Init => Inv
  <2> SUFFICES ASSUME Init PROVE Inv
    OBVIOUS
  <2>1. edits = {} /\ pc = "Start"
    BY DEF Init
  <2> QED BY <2>1, ReadStart DEF KindInv, PcSet
<1>2. Inv /\ [Next]_vars => Inv'
  BY ReadStep, KindStep
<1>3. Inv => TypeOK
  <2> SUFFICES ASSUME ReadInv, KindInv PROVE TypeOK
    OBVIOUS
  <2>1. ASSUME NEW s \in StageNames PROVE Valid(docs[s])
    <3>1. Readable(docs[s])
      BY DEF ReadInv
    <3>2. CASE s # "Asr"
      BY <3>1, <3>2, TranscriptsArePlaced, ReadableIsValid
    <3>3. CASE s = "Asr"
      <4> DEFINE words == docs["Asr"].words
      <4>1. docs[s] = NewAsr(words)
        BY <3>3 DEF ReadInv, CueInv, FlowInv, DocsOK
      <4>2. WordsTimed(words)
        BY <3>1, <3>3 DEF Readable
      <4> HIDE DEF words
      <4> QED BY <4>1, <4>2, AsrIsValid
    <3> QED BY <3>2, <3>3
  <2>2. edits \subseteq EditSet /\ pc \in PcSet
    BY DEF KindInv
  <2> QED BY <2>1, <2>2 DEF TypeOK, EditSet, PcSet
<1> HIDE DEF Inv
<1> QED BY <1>1, <1>2, <1>3, PTL DEF Spec

-----------------------------------------------------------------------------
(* The characters of words that are joined.                                *)

Signs == {"Latin", "Cjk", "Closer", "CjkCloser", "Space"}
Ink == Signs \ {"Space"}
Seen(chars) == Those(chars, Ink)

LEMMA VisibleIsSeen == ASSUME NEW chars \in Seq(Signs) PROVE Visible(chars) = Seen(chars)
<1> DEFINE X == Elements(chars)
           W == {c \in X : c # "Space"}
<1>1. chars \in Seq(X) /\ X \subseteq Signs
  <2>1. \A i \in DOMAIN chars : chars[i] \in Signs /\ chars[i] \in X
    BY DEF Elements
  <2>2. X \subseteq Signs
    BY <2>1 DEF Elements
  <2> HIDE DEF X
  <2> QED BY <2>1, <2>2
<1>2. W \intersect X = Ink \intersect X
  BY <1>1 DEF Ink
<1>3. Visible(chars) = Those(chars, W)
  BY DEF Visible
<1> HIDE DEF X, W
<1> QED BY <1>1, <1>2, <1>3, ThoseSame DEF Seen

\* A text has one character or two, none of them a space.
LEMMA CharsOfText ==
    ASSUME NEW text \in Texts
    PROVE  \/ \E a \in Ink : Chars(text) = <<a>>
           \/ \E a, b \in Ink : Chars(text) = <<a, b>>
<1>1. Chars("Letter") = <<"Latin">> /\ Chars("Word") = <<"Latin", "Latin">>
  BY DEF Chars
<1>2. Chars("Of") = <<"Latin", "Latin">> /\ Chars("End") = <<"Latin", "Closer">>
  BY DEF Chars
<1>3. Chars("Han") = <<"Cjk">> /\ Chars("HanStop") = <<"Cjk", "CjkCloser">>
  BY DEF Chars
<1>4. {"Latin", "Cjk", "Closer", "CjkCloser"} \subseteq Ink
  BY DEF Ink, Signs
<1>5. text \in {"Letter", "Word", "Of", "End", "Han", "HanStop"}
  BY DEF Texts
<1> QED BY <1>1, <1>2, <1>3, <1>4, <1>5

\* One character more.
LEMMA OneSign ==
    ASSUME NEW out \in Seq(Signs), NEW c \in Signs
    PROVE  LET made == Append(out, c)
           IN  /\ made \in Seq(Signs) /\ Len(made) = Len(out) + 1
               /\ \A i \in 1 .. Len(out) : made[i] = out[i]
               /\ Len(Seen(made)) = Len(Seen(out)) + (IF c \in Ink THEN 1 ELSE 0)
               /\ Len(Seen(out)) \in Nat
<1> DEFINE made == Append(out, c)
           S == Signs
<1>1. /\ made \in Seq(S) /\ Len(made) = Len(out) + 1
      /\ \A i \in 1 .. Len(out) : made[i] = out[i]
  <2>1. out \in Seq(S) /\ c \in S
    OBVIOUS
  <2> HIDE DEF S
  <2> QED BY <2>1
<1>2. /\ Seen(out) \in Seq(S)
      /\ Seen(made) = IF c \in Ink THEN Append(Seen(out), c) ELSE Seen(out)
  BY ThoseAppend DEF Seen
<1>3. Len(Append(Seen(out), c)) = Len(Seen(out)) + 1 /\ Len(Seen(out)) \in Nat
  <2>1. Seen(out) \in Seq(S) /\ c \in S
    BY <1>2
  <2> HIDE DEF S
  <2> QED BY <2>1
<1> HIDE DEF made, S
<1>4. Len(Seen(made)) = Len(Seen(out)) + (IF c \in Ink THEN 1 ELSE 0)
  BY <1>2, <1>3
<1> QED BY <1>1, <1>3, <1>4 DEF made, S

\* A text that begins with another and shows more.
Extends(made, out) ==
    /\ made \in Seq(Signs) /\ out \in Seq(Signs)
    /\ Len(made) > Len(out) /\ \A i \in 1 .. Len(out) : made[i] = out[i]
    /\ Len(Seen(made)) \in Nat /\ Len(Seen(out)) \in Nat /\ Len(Seen(made)) > Len(Seen(out))

\* join_words puts a space where one belongs, and then the word.
Glued(out, word) ==
    out \o (IF out # <<>> /\ NeedsSpace(out[Len(out)], Chars(word.text)[1])
            THEN <<"Space">> ELSE <<>>) \o Chars(word.text)

LEMMA OneWordMore ==
    ASSUME NEW out \in Seq(Signs), NEW word, word.text \in Texts
    PROVE  Extends(Glued(out, word), out)
<1> DEFINE token == Chars(word.text)
           gap == IF out # <<>> /\ NeedsSpace(out[Len(out)], token[1])
                  THEN <<"Space">> ELSE <<>>
           after == out \o gap
           made == after \o token
           S == Signs
<1>1. Glued(out, word) = made
  BY DEF Glued
<1>2. gap = <<>> \/ gap = <<"Space">>
  OBVIOUS
<1> HIDE DEF gap
<1>3. after = out \/ after = Append(out, "Space")
  <2>1. out \in Seq(S)
    OBVIOUS
  <2> HIDE DEF S
  <2>2. out \o <<>> = out /\ out \o <<"Space">> = Append(out, "Space")
    BY <2>1
  <2> QED BY <1>2, <2>2
<1> HIDE DEF after
<1>4. /\ after \in Seq(S) /\ Len(after) >= Len(out) /\ Len(out) \in Nat /\ Len(after) \in Nat
      /\ \A i \in 1 .. Len(out) : after[i] = out[i]
      /\ Len(Seen(after)) = Len(Seen(out)) /\ Len(Seen(out)) \in Nat
  <2>1. "Space" \in Signs /\ "Space" \notin Ink
    BY DEF Signs, Ink
  <2>2. Len(Seen(out)) \in Nat
    BY <2>1, OneSign
  <2>3. CASE after = out
    BY <2>2, <2>3
  <2>4. CASE after = Append(out, "Space")
    <3>1. /\ after \in Seq(S) /\ Len(after) = Len(out) + 1
          /\ \A i \in 1 .. Len(out) : after[i] = out[i]
          /\ Len(Seen(after)) = Len(Seen(out)) + (IF "Space" \in Ink THEN 1 ELSE 0)
      BY <2>1, <2>4, OneSign
    <3>2. Len(Seen(after)) = Len(Seen(out))
      <4>1. (IF "Space" \in Ink THEN 1 ELSE 0) = 0
        BY <2>1
      <4> QED BY <2>2, <3>1, <4>1
    <3>3. Len(out) \in Nat
      OBVIOUS
    <3> HIDE DEF S
    <3> QED BY <2>2, <3>1, <3>2, <3>3
  <2> QED BY <1>3, <2>3, <2>4
<1>5. ASSUME NEW a \in Ink
      PROVE  /\ Append(after, a) \in Seq(S)
             /\ Len(Append(after, a)) > Len(out) /\ Len(Append(after, a)) \in Nat
             /\ \A i \in 1 .. Len(out) : Append(after, a)[i] = out[i]
             /\ Len(Seen(Append(after, a))) > Len(Seen(out)) /\ Len(Seen(Append(after, a))) \in Nat
  <2> DEFINE one == Append(after, a)
  <2>1. a \in Signs
    BY DEF Ink
  <2>2. /\ one \in Seq(S) /\ Len(one) = Len(after) + 1
        /\ \A i \in 1 .. Len(after) : one[i] = after[i]
        /\ Len(Seen(one)) = Len(Seen(after)) + 1
    <3>1. /\ one \in Seq(Signs) /\ Len(one) = Len(after) + 1
          /\ \A i \in 1 .. Len(after) : one[i] = after[i]
          /\ Len(Seen(one)) = Len(Seen(after)) + (IF a \in Ink THEN 1 ELSE 0)
      BY <1>4, <2>1, OneSign
    <3> HIDE DEF one
    <3> QED BY <3>1
  <2> HIDE DEF one, S
  <2>3. \A i \in 1 .. Len(out) : i \in 1 .. Len(after)
    BY <1>4
  <2> QED BY <1>4, <2>2, <2>3 DEF one
<1>6. CASE \E a \in Ink : token = <<a>>
  <2>1. PICK a \in Ink : token = <<a>>
    BY <1>6
  <2>2. made = Append(after, a)
    <3> HIDE DEF S, token
    <3> QED BY <1>4, <2>1
  <2> HIDE DEF made
  <2> QED BY <1>1, <1>4, <1>5, <2>2 DEF Extends
<1>7. CASE \E a, b \in Ink : token = <<a, b>>
  <2>1. PICK a \in Ink, b \in Ink : token = <<a, b>>
    BY <1>7
  <2> DEFINE one == Append(after, a)
  <2>2. made = Append(one, b)
    <3> HIDE DEF S, token
    <3>1. after \in Seq(S \union {a, b}) /\ a \in S \union {a, b} /\ b \in S \union {a, b}
      BY <1>4
    <3> DEFINE Z == S \union {a, b}
    <3> HIDE DEF Z
    <3>2. after \in Seq(Z) /\ a \in Z /\ b \in Z
      BY <3>1 DEF Z
    <3>3. after \o <<a, b>> = Append(Append(after, a), b)
      BY <3>2
    <3> QED BY <2>1, <3>3
  <2>3. /\ one \in Seq(S) /\ Len(one) > Len(out) /\ Len(one) \in Nat
        /\ \A i \in 1 .. Len(out) : one[i] = out[i]
        /\ Len(Seen(one)) > Len(Seen(out)) /\ Len(Seen(one)) \in Nat
    BY <1>5
  <2> HIDE DEF one, made
  <2>4. b \in Signs
    BY DEF Ink
  <2>5. /\ made \in Seq(S) /\ Len(made) = Len(one) + 1
        /\ \A i \in 1 .. Len(one) : made[i] = one[i]
        /\ Len(Seen(made)) = Len(Seen(one)) + 1
    <3>1. /\ made \in Seq(Signs) /\ Len(made) = Len(one) + 1
          /\ \A i \in 1 .. Len(one) : made[i] = one[i]
          /\ Len(Seen(made)) = Len(Seen(one)) + (IF b \in Ink THEN 1 ELSE 0)
      BY <2>2, <2>3, <2>4, OneSign
    <3> QED BY <3>1
  <2>6. \A i \in 1 .. Len(out) : i \in 1 .. Len(one)
    BY <1>4, <2>3
  <2>7. /\ Len(made) > Len(out) /\ \A i \in 1 .. Len(out) : made[i] = out[i]
        /\ Len(Seen(made)) \in Nat /\ Len(Seen(made)) > Len(Seen(out))
    BY <1>4, <2>3, <2>5, <2>6
  <2> QED BY <1>1, <1>4, <2>5, <2>7 DEF Extends
<1> HIDE DEF made, token
<1> QED BY <1>6, <1>7, CharsOfText DEF token


\* F[i] is what is joined of the first i words.
Joins(F, words) ==
    /\ F \in [0 .. Len(words) -> Seq(Signs)] /\ F[0] = <<>>
    /\ \A i \in 1 .. Len(words) : F[i] = Glued(F[i - 1], words[i])
    /\ JoinWords(words) = F[Len(words)]

LEMMA JoinUpto ==
    ASSUME NEW words, IsSeq(words), HasTexts(words)
    PROVE  \E F : Joins(F, words)
<1> DEFINE D == 0 .. Len(words)
           m == [i \in D |-> i]
           Next1(i, F) == IF i = 0 THEN <<>> ELSE Glued(F[i - 1], words[i])
           T == [p \in D \X [D -> Seq(Signs)] |-> Next1(p[1], p[2])]
<1>0. DOMAIN words = 1 .. Len(words) /\ Len(words) \in Nat
  BY DomainOfSeq
<1>1. m \in [D -> Nat] /\ (\A i \in D : m[i] = i /\ m[i] <= Len(words))
  BY <1>0
<1>2. <<>> \in Seq(Signs)
  OBVIOUS
<1>3. \A i \in D, F \in [D -> Seq(Signs)] : Next1(i, F) \in Seq(Signs)
  <2> TAKE i \in D, F \in [D -> Seq(Signs)]
  <2>1. CASE i = 0
    BY <1>2, <2>1
  <2>2. CASE i # 0
    <3>1. i - 1 \in D /\ i \in DOMAIN words
      BY <1>0, <2>2
    <3>2. F[i - 1] \in Seq(Signs) /\ words[i].text \in Texts
      BY <3>1 DEF HasTexts
    <3>3. Glued(F[i - 1], words[i]) \in Seq(Signs)
      BY <3>2, OneWordMore DEF Extends
    <3> QED BY <2>2, <3>3
  <2> QED BY <2>1, <2>2
<1>4. T \in [D \X [D -> Seq(Signs)] -> Seq(Signs)]
  <2> HIDE DEF Next1
  <2>1. \A p \in D \X [D -> Seq(Signs)] : p[1] \in D /\ p[2] \in [D -> Seq(Signs)]
    OBVIOUS
  <2> QED BY <1>3, <2>1
<1>5. \A i \in D, F \in [D -> Seq(Signs)] : T[<<i, F>>] = Next1(i, F)
  <2> HIDE DEF Next1
  <2> QED OBVIOUS
<1>6. \A i \in D, F, G \in [D -> Seq(Signs)] :
         (\A e \in D : m[e] < m[i] => F[e] = G[e]) => T[<<i, F>>] = T[<<i, G>>]
  <2> HIDE DEF T
  <2>1. ASSUME NEW i \in D, NEW F \in [D -> Seq(Signs)], NEW G \in [D -> Seq(Signs)],
               \A e \in D : m[e] < m[i] => F[e] = G[e]
        PROVE  Next1(i, F) = Next1(i, G)
    <3>1. i # 0 => i - 1 \in D /\ m[i - 1] < m[i]
      BY <1>0
    <3>2. i # 0 => F[i - 1] = G[i - 1]
      BY <2>1, <3>1
    <3>3. i # 0 => Glued(F[i - 1], words[i]) = Glued(G[i - 1], words[i])
      BY <3>2
    <3> QED BY <3>3
  <2> DEFINE S == [D -> Seq(Signs)]
  <2> HIDE DEF Next1, D, m
  <2>2. \A i \in D, F, G \in S :
            (\A e \in D : m[e] < m[i] => F[e] = G[e]) => Next1(i, F) = Next1(i, G)
    BY <2>1
  <2>3. \A i \in D, F \in S : T[<<i, F>>] = Next1(i, F)
    BY <1>5
  <2> HIDE DEF S
  <2>4. \A i \in D, F, G \in S :
            (\A e \in D : m[e] < m[i] => F[e] = G[e]) => T[<<i, F>>] = T[<<i, G>>]
    BY <2>2, <2>3
  <2> QED BY <2>4 DEF S
<1> HIDE DEF T
<1>7. PICK F \in [D -> Seq(Signs)] : \A i \in D : F[i] = T[<<i, F>>]
  <2> DEFINE S == Seq(Signs)
             n == Len(words)
  <2>1. Recursion(D, S, m, n, T)
    <3> HIDE DEF D, m
    <3> QED BY <1>0, <1>1, <1>2, <1>4, <1>6 DEF Recursion
  <2> HIDE DEF D, m, S, n
  <2>2. \E F \in [D -> S] : \A i \in D : F[i] = T[<<i, F>>]
    BY <2>1, Solution
  <2> QED BY <2>2 DEF S
<1>8. F = [i \in D |-> Next1(i, F)]
  <2> HIDE DEF D, Next1
  <2> QED BY <1>5, <1>7
<1> DEFINE Joined[i \in 0 .. Len(words)] ==
              IF i = 0 THEN <<>>
              ELSE LET out == Joined[i - 1]
                       token == Chars(words[i].text)
                   IN  out \o (IF out # <<>> /\ NeedsSpace(out[Len(out)], token[1])
                               THEN <<"Space">> ELSE <<>>) \o token
<1>9. Joined = [i \in D |-> Next1(i, Joined)]
  <2> DEFINE Same(f) == f = [i \in D |-> Next1(i, f)]
  <2>1. Same(F)
    BY <1>8
  <2>2. Joined = CHOOSE f : Same(f)
    BY DEF Glued
  <2> HIDE DEF Same, Joined
  <2>3. Same(Joined)
    BY <2>1, <2>2
  <2> QED BY <2>3 DEF Same
<1>10. JoinWords(words) = Joined[Len(words)]
  BY DEF JoinWords
<1> HIDE DEF Joined
<1>11. \A i \in D : F[i] = Joined[i]
  <2> DEFINE Good == {i \in D : F[i] = Joined[i]}
  <2>1. ASSUME NEW i \in D, \A e \in D : m[e] < m[i] => e \in Good
        PROVE  i \in Good
    <3>1. F[i] = Next1(i, F) /\ Joined[i] = Next1(i, Joined)
      <4> HIDE DEF Next1, D
      <4> QED BY <1>8, <1>9
    <3>2. i # 0 => i - 1 \in D /\ m[i - 1] < m[i]
      BY <1>0
    <3>3. i # 0 => F[i - 1] = Joined[i - 1]
      BY <2>1, <3>2
    <3>4. Next1(i, F) = Next1(i, Joined)
      BY <3>3
    <3> QED BY <3>1, <3>4
  <2>2. \A i \in D : (\A e \in D : m[e] < m[i] => e \in Good) => i \in Good
    BY <2>1
  <2>3. m \in [D -> Nat]
    BY <1>1
  <2> HIDE DEF Good, D, m
  <2>4. D \subseteq Good
    BY <2>2, <2>3, FromBelow
  <2> QED BY <2>4 DEF Good
<1>12. F[0] = <<>> /\ \A i \in 1 .. Len(words) : F[i] = Glued(F[i - 1], words[i])
  <2>1. \A i \in D : F[i] = Next1(i, F)
    <3> HIDE DEF Next1, D
    <3> QED BY <1>8
  <2>2. 0 \in D /\ \A i \in 1 .. Len(words) : i \in D /\ i # 0
    BY <1>0
  <2> HIDE DEF D
  <2> QED BY <2>1, <2>2
<1>13. JoinWords(words) = F[Len(words)]
  <2>1. Len(words) \in D
    BY <1>0
  <2> QED BY <1>10, <1>11, <2>1
<1>14. Joins(F, words)
  BY <1>7, <1>12, <1>13 DEF Joins
<1> QED BY <1>14

\* The first words of a cue are joined as they are in the whole cue.
LEMMA JoinPrefix ==
    ASSUME NEW words, IsSeq(words), HasTexts(words), NEW F, Joins(F, words),
           NEW k \in 0 .. Len(words)
    PROVE  JoinWords(SubSeq(words, 1, k)) = F[k]
<1> DEFINE some == SubSeq(words, 1, k)
<1>0. DOMAIN words = 1 .. Len(words) /\ Len(words) \in Nat /\ k \in Nat
  BY DomainOfSeq
<1>1. /\ IsSeq(some) /\ Len(some) = k /\ DOMAIN some = 1 .. k
      /\ \A i \in 1 .. k : some[i] = words[i]
  <2> DEFINE X == Elements(words)
  <2>1. words \in Seq(X)
    BY DEF IsSeq
  <2> HIDE DEF X
  <2>2. /\ some \in Seq(X) /\ Len(some) = k /\ DOMAIN some = 1 .. k
        /\ \A i \in 1 .. k : some[i] = words[i]
    BY <1>0, <2>1
  <2> HIDE DEF some
  <2> QED BY <2>2, ListIsSeq
<1> HIDE DEF some
<1>2. HasTexts(some)
  BY <1>0, <1>1 DEF HasTexts
<1>3. PICK G : Joins(G, some)
  BY <1>1, <1>2, JoinUpto
<1>4. /\ G[0] = <<>> /\ F[0] = <<>>
      /\ \A i \in 1 .. k : G[i] = Glued(G[i - 1], words[i]) /\ F[i] = Glued(F[i - 1], words[i])
      /\ JoinWords(some) = G[k]
  BY <1>0, <1>1, <1>3 DEF Joins
<1>5. G[k] = F[k]
  <2> DEFINE D == 0 .. k
             m == [i \in D |-> i]
             Good == {i \in D : F[i] = G[i]}
  <2>1. m \in [D -> Nat] /\ \A i \in D : m[i] = i
    OBVIOUS
  <2>2. ASSUME NEW d \in D, \A e \in D : m[e] < m[d] => e \in Good
        PROVE  d \in Good
    <3>1. CASE d = 0
      BY <1>4, <3>1
    <3>2. CASE d # 0
      <4>1. d - 1 \in D /\ m[d - 1] < m[d] /\ d \in 1 .. k
        BY <1>0, <3>2
      <4>2. F[d - 1] = G[d - 1]
        BY <2>2, <4>1
      <4> QED BY <1>4, <4>1, <4>2
    <3> QED BY <3>1, <3>2
  <2>3. \A d \in D : (\A e \in D : m[e] < m[d] => e \in Good) => d \in Good
    BY <2>2
  <2>4. k \in D
    BY <1>0
  <2> HIDE DEF m, Good, D
  <2>5. D \subseteq Good
    BY <2>1, <2>3, FromBelow
  <2> QED BY <2>4, <2>5 DEF Good
<1> QED BY <1>4, <1>5 DEF some

LEMMA ExtendsOn ==
    ASSUME NEW a, NEW b, NEW c, Extends(a, b), Extends(b, c)
    PROVE  Extends(a, c)
<1> DEFINE S == Signs
<1>1. a \in Seq(S) /\ b \in Seq(S) /\ c \in Seq(S)
  BY DEF Extends
<1> HIDE DEF S
<1>2. Len(a) \in Nat /\ Len(b) \in Nat /\ Len(c) \in Nat
  BY <1>1
<1>3. \A i \in 1 .. Len(c) : i \in 1 .. Len(b)
  BY <1>2 DEF Extends
<1> QED BY <1>1, <1>2, <1>3 DEF Extends, S

\* Every word adds to what was joined before.
LEMMA JoinGrows ==
    ASSUME NEW words, IsSeq(words), HasTexts(words), NEW F, Joins(F, words)
    PROVE  \A j, k \in 0 .. Len(words) : j < k => Extends(F[k], F[j])
<1> DEFINE D == 0 .. Len(words)
           m == [i \in D |-> i]
           Good == {k \in D : \A j \in D : j < k => Extends(F[k], F[j])}
<1>0. DOMAIN words = 1 .. Len(words) /\ Len(words) \in Nat
  BY DomainOfSeq
<1>1. m \in [D -> Nat] /\ \A i \in D : m[i] = i
  OBVIOUS
<1>2. ASSUME NEW k \in D, \A e \in D : m[e] < m[k] => e \in Good
      PROVE  k \in Good
  <2>1. SUFFICES ASSUME NEW j \in D, j < k PROVE Extends(F[k], F[j])
    OBVIOUS
  <2>2. k \in 1 .. Len(words) /\ k - 1 \in D /\ m[k - 1] < m[k]
    BY <1>0, <2>1
  <2>3. Extends(F[k], F[k - 1])
    <3>1. F[k] = Glued(F[k - 1], words[k]) /\ F[k - 1] \in Seq(Signs)
      BY <2>2 DEF Joins
    <3>2. words[k].text \in Texts
      BY <1>0, <2>2 DEF HasTexts
    <3> QED BY <3>1, <3>2, OneWordMore
  <2>4. k - 1 \in Good
    BY <1>2, <2>2
  <2>5. j = k - 1 \/ j < k - 1
    BY <1>0, <2>1
  <2>6. j < k - 1 => Extends(F[k - 1], F[j])
    BY <2>4
  <2> QED BY <2>3, <2>5, <2>6, ExtendsOn
<1>3. \A k \in D : (\A e \in D : m[e] < m[k] => e \in Good) => k \in Good
  BY <1>2
<1> HIDE DEF m, Good, D
<1>4. D \subseteq Good
  BY <1>1, <1>3, FromBelow
<1> QED BY <1>4 DEF D, Good

\* Where the code finds a break between words, a reader finds it between the same.
LEMMA AskedWhereCut ==
    ASSUME NEW words, IsSeq(words), HasTexts(words), NEW position,
           WordsBefore(words, JoinWords(words), position) # {}
    PROVE  \E k \in 1 .. Len(words) - 1 :
              /\ WordsBefore(words, JoinWords(words), position) = {k}
              /\ WordsAsked(words, JoinWords(words), position) = {k}
<1> DEFINE all == JoinWords(words)
           n == Len(words)
           S == Signs
           At(p) == {k \in 1 .. n - 1 : Len(JoinWords(SubSeq(words, 1, k))) = p}
<1>0. n \in Nat
  BY DomainOfSeq
<1>1. PICK F : Joins(F, words)
  BY JoinUpto
<1>2. /\ all = F[n] /\ F \in [0 .. n -> Seq(S)]
      /\ \A k \in 0 .. n : JoinWords(SubSeq(words, 1, k)) = F[k]
      /\ \A j, k \in 0 .. n : j < k => Extends(F[k], F[j])
  BY <1>1, JoinPrefix, JoinGrows DEF Joins
<1>3. WordsBefore(words, all, position) =
          IF At(position) # {} THEN At(position)
          ELSE IF position \in 1 .. Len(all) /\ all[position] = "Space"
          THEN At(position - 1) ELSE {}
  BY DEF WordsBefore
<1>4. WordsAsked(words, all, position) =
          {k \in 1 .. n - 1 : Len(Visible(SubSeq(all, 1, position))) =
                                Len(Visible(JoinWords(SubSeq(words, 1, k))))}
  BY DEF WordsAsked
<1> DEFINE long == [k \in 0 .. n |-> Len(F[k])]
           seen == [k \in 0 .. n |-> Len(Seen(F[k]))]
<1>5. \A k \in 0 .. n : F[k] \in Seq(S)
  BY <1>2
<1>6. \A j, k \in 0 .. n : j < k => long[j] < long[k] /\ seen[j] < seen[k]
  BY <1>2 DEF Extends
<1>7. \A k \in 1 .. n - 1 : /\ long[k] \in Nat /\ seen[k] \in Nat /\ k \in 0 .. n
  <2> TAKE k \in 1 .. n - 1
  <2>1. k \in 0 .. n /\ n \in 0 .. n /\ k < n
    BY <1>0
  <2>2. Extends(F[n], F[k])
    BY <1>2, <2>1
  <2>3. Len(F[k]) \in Nat /\ Len(Seen(F[k])) \in Nat
    BY <1>5, <2>1, <2>2 DEF Extends
  <2> QED BY <2>1, <2>3
<1>8. \A k \in 1 .. n - 1 : /\ Len(JoinWords(SubSeq(words, 1, k))) = long[k]
                            /\ Len(Visible(JoinWords(SubSeq(words, 1, k)))) = seen[k]
  <2> TAKE k \in 1 .. n - 1
  <2>1. JoinWords(SubSeq(words, 1, k)) = F[k] /\ F[k] \in Seq(Signs) /\ k \in 0 .. n
    BY <1>2, <1>5, <1>7
  <2>2. Visible(F[k]) = Seen(F[k])
    BY <2>1, VisibleIsSeen
  <2> QED BY <2>1, <2>2
<1> HIDE DEF long, seen
<1>9. \A j, k \in 1 .. n - 1 : long[j] = long[k] \/ seen[j] = seen[k] => j = k
  <2> SUFFICES ASSUME NEW j \in 1 .. n - 1, NEW k \in 1 .. n - 1,
                      long[j] = long[k] \/ seen[j] = seen[k], j # k
               PROVE FALSE
    OBVIOUS
  <2>1. j < k \/ k < j
    BY <1>0
  <2> QED BY <1>6, <1>7, <2>1
<1>10. \A p : \A k \in At(p) : At(p) = {k} /\ k \in 1 .. n - 1 /\ long[k] = p
  <2>1. \A p : \A k \in At(p) : k \in 1 .. n - 1 /\ long[k] = p
    BY <1>8
  <2> HIDE DEF At
  <2>2. \A p : \A k, j \in At(p) : j = k
    BY <1>9, <2>1
  <2>3. \A p : \A k \in At(p) : At(p) = {k}
    BY <2>2
  <2> QED BY <2>1, <2>3
<1> HIDE DEF At
\* The text up to a place shows as much as these words.
<1>11. ASSUME NEW k \in 1 .. n - 1, Len(Visible(SubSeq(all, 1, position))) = seen[k]
       PROVE  WordsAsked(words, all, position) = {k}
  BY <1>4, <1>8, <1>9, <1>11
<1>12. ASSUME NEW k \in 1 .. n - 1
       PROVE  /\ F[k] \in Seq(S) /\ all \in Seq(S) /\ long[k] = Len(F[k])
              /\ seen[k] = Len(Seen(F[k]))
              /\ Len(all) > Len(F[k]) /\ \A i \in 1 .. Len(F[k]) : all[i] = F[k][i]
  <2>1. k \in 0 .. n /\ n \in 0 .. n /\ k < n
    BY <1>0
  <2>2. Extends(F[n], F[k])
    BY <1>2, <2>1
  <2> QED BY <1>2, <2>1, <2>2 DEF Extends, long, seen
<1>13. \A k \in 1 .. n - 1 : SubSeq(all, 1, long[k]) = F[k]
  <2> TAKE k \in 1 .. n - 1
  <2> DEFINE some == F[k]
  <2>1. /\ some \in Seq(S) /\ all \in Seq(S) /\ long[k] = Len(some)
        /\ Len(all) > Len(some) /\ \A i \in 1 .. Len(some) : all[i] = some[i]
    BY <1>12
  <2> HIDE DEF some, all, S
  <2>2. SubSeq(all, 1, Len(some)) = some
    BY <2>1
  <2> QED BY <2>1, <2>2 DEF some
<1>14. CASE At(position) # {}
  <2>1. PICK k \in At(position) : TRUE
    BY <1>14
  <2>2. At(position) = {k} /\ k \in 1 .. n - 1 /\ long[k] = position
    BY <1>10, <2>1
  <2>3. SubSeq(all, 1, position) = F[k] /\ F[k] \in Seq(Signs) /\ seen[k] = Len(Seen(F[k]))
    BY <1>12, <1>13, <2>2
  <2>4. Len(Visible(SubSeq(all, 1, position))) = seen[k]
    BY <2>3, VisibleIsSeen
  <2>5. WordsAsked(words, all, position) = {k}
    BY <1>11, <2>2, <2>4
  <2>6. WordsBefore(words, all, position) = {k}
    BY <1>3, <1>14, <2>2
  <2> QED BY <2>2, <2>5, <2>6
<1>15. CASE At(position) = {}
  <2>1. /\ position \in 1 .. Len(all) /\ all[position] = "Space"
        /\ WordsBefore(words, all, position) = At(position - 1) /\ At(position - 1) # {}
    BY <1>3, <1>15
  <2>2. PICK k \in At(position - 1) : TRUE
    BY <2>1
  <2>3. At(position - 1) = {k} /\ k \in 1 .. n - 1 /\ long[k] = position - 1
    BY <1>10, <2>2
  <2>4. /\ SubSeq(all, 1, position - 1) = F[k] /\ F[k] \in Seq(S) /\ all \in Seq(S)
        /\ seen[k] = Len(Seen(F[k]))
    BY <1>12, <1>13, <2>3
  <2>5. SubSeq(all, 1, position) = Append(F[k], "Space")
    <3>1. SubSeq(all, 1, position) = Append(SubSeq(all, 1, position - 1), all[position])
      <4> HIDE DEF all, S
      <4> QED BY <2>1, <2>4
    <3> QED BY <2>1, <2>4, <3>1
  <2>6. "Space" \in Signs /\ "Space" \notin Ink
    BY DEF Signs, Ink
  <2>7. /\ Append(F[k], "Space") \in Seq(Signs)
        /\ Len(Seen(Append(F[k], "Space"))) = Len(Seen(F[k])) + (IF "Space" \in Ink THEN 1 ELSE 0)
    BY <2>4, <2>6, OneSign
  <2>8. Len(Seen(Append(F[k], "Space"))) = seen[k]
    <3>1. (IF "Space" \in Ink THEN 1 ELSE 0) = 0
      BY <2>6
    <3> QED BY <1>7, <2>3, <2>4, <2>7, <3>1
  <2>9. Len(Visible(SubSeq(all, 1, position))) = seen[k]
    BY <2>5, <2>7, <2>8, VisibleIsSeen
  <2>10. WordsAsked(words, all, position) = {k}
    BY <1>11, <2>3, <2>9
  <2> QED BY <2>1, <2>3, <2>10
<1> QED BY <1>14, <1>15

Ends(ranges) == {ranges[i][2] : i \in DOMAIN ranges}
Union(asked) == UNION {asked[b] : b \in DOMAIN asked}

\* What a reply asks for, in words of the whole transcript.
AskedBy(words, first, clean, breaks) ==
    [b \in DOMAIN breaks |-> {first + k : k \in WordsAsked(words, clean, breaks[b])}]

\* A cue is cut where the breaks are, and at its end, when the reply has the
\* spaces of the cue.
LEMMA ExactCuts ==
    ASSUME NEW words, IsSeq(words), HasTexts(words), NEW first \in Nat,
           NEW S, NEW n \in Nat, NEW breaks \in [1 .. n -> S],
           AllAligned(words, JoinWords(words), breaks)
    PROVE  LET asked == AskedBy(words, first, JoinWords(words), breaks)
           IN  /\ IsSeq(asked) /\ \A b \in DOMAIN asked : asked[b] # {}
               /\ Ends(RangesFor(words, first, JoinWords(words), breaks)) =
                      Union(asked) \union {first + Len(words)}
<1> DEFINE L == Len(words)
           clean == JoinWords(words)
           asked == AskedBy(words, first, clean, breaks)
           K(b) == WordsBefore(words, clean, breaks[b])
           At(b) == CHOOSE k \in K(b) : \A j \in K(b) : k <= j
           ends == [b \in 1 .. Len(breaks) + 1 |->
                      first + IF b > Len(breaks) THEN Len(words) ELSE At(b)]
           One(b) == <<IF b = 1 THEN first ELSE ends[b - 1], ends[b]>>
           made == [b \in DOMAIN ends |-> One(b)]
<1>1. RangesFor(words, first, clean, breaks) = made
  BY DEF RangesFor
<1>2. Len(breaks) = n /\ DOMAIN breaks = 1 .. n
  OBVIOUS
<1>3. ASSUME NEW b \in 1 .. n
      PROVE  At(b) \in Nat /\ asked[b] = {first + At(b)}
  <2>1. K(b) # {}
    BY <1>2 DEF AllAligned
  <2>2. PICK k \in 1 .. L - 1 : /\ K(b) = {k}
                                /\ WordsAsked(words, clean, breaks[b]) = {k}
    BY <2>1, AskedWhereCut
  <2>3. At(b) = k
    <3> HIDE DEF K
    <3> QED BY <2>2
  <2>4. asked[b] = {first + j : j \in WordsAsked(words, clean, breaks[b])}
    BY <1>2 DEF AskedBy
  <2> HIDE DEF At, clean
  <2> QED BY <2>2, <2>3, <2>4
<1> HIDE DEF At
<1>4. DOMAIN ends = 1 .. n + 1 /\ \A b \in 1 .. n + 1 :
          ends[b] = IF b > n THEN first + L ELSE first + At(b)
  BY <1>2
<1> HIDE DEF ends
<1>5. DOMAIN made = 1 .. n + 1 /\ \A b \in 1 .. n + 1 : made[b][2] = ends[b]
  BY <1>4
<1> HIDE DEF made
<1>6. DOMAIN asked = 1 .. n /\ asked = [b \in 1 .. n |-> asked[b]]
  BY <1>2 DEF AskedBy
<1> HIDE DEF asked
<1>7. IsSeq(asked) /\ \A b \in DOMAIN asked : asked[b] # {}
  BY <1>3, <1>6, FunctionIsSeq
<1>8. Ends(made) = {ends[b] : b \in 1 .. n + 1}
  BY <1>5 DEF Ends
<1>9. {ends[b] : b \in 1 .. n + 1} = {first + At(b) : b \in 1 .. n} \union {first + L}
  <2>1. \A b \in 1 .. n + 1 : b \in 1 .. n \/ b = n + 1
    OBVIOUS
  <2>2. \A b \in 1 .. n : b \in 1 .. n + 1 /\ ~(b > n)
    OBVIOUS
  <2>3. n + 1 \in 1 .. n + 1 /\ n + 1 > n
    OBVIOUS
  <2>4. ends[n + 1] = first + L /\ \A b \in 1 .. n : ends[b] = first + At(b)
    BY <1>4, <2>2, <2>3
  <2> DEFINE full == 1 .. n + 1
             part == 1 .. n
             last == n + 1
  <2>5. /\ \A b \in full : b \in part \/ b = last
        /\ last \in full /\ \A b \in part : b \in full /\ ends[b] = first + At(b)
        /\ ends[last] = first + L
    BY <2>1, <2>2, <2>3, <2>4
  <2> HIDE DEF full, part, last
  <2>6. {ends[b] : b \in full} = {first + At(b) : b \in part} \union {first + L}
    BY <2>5
  <2> QED BY <2>6 DEF full, part
<1>10. Union(asked) = {first + At(b) : b \in 1 .. n}
  <2>1. DOMAIN asked = 1 .. n /\ \A b \in 1 .. n : asked[b] = {first + At(b)}
    BY <1>3, <1>6
  <2> DEFINE D == 1 .. n
             to(b) == first + At(b)
  <2>2. DOMAIN asked = D /\ \A b \in D : asked[b] = {to(b)}
    BY <2>1
  <2> HIDE DEF D, to
  <2>3. \A x : x \in Union(asked) <=> \E b \in D : x = to(b)
    <3>1. \A x : x \in Union(asked) <=> \E b \in DOMAIN asked : x \in asked[b]
      BY DEF Union
    <3>2. \A b \in D : \A x : x \in asked[b] <=> x = to(b)
      BY <2>2
    <3>3. \A x : (\E b \in D : x \in asked[b]) <=> \E b \in D : x = to(b)
      BY <3>2
    <3>4. DOMAIN asked = D
      BY <2>2
    <3> HIDE DEF asked
    <3> QED BY <3>1, <3>3, <3>4
  <2>4. Union(asked) = {to(b) : b \in D}
    BY <2>3
  <2> QED BY <2>4 DEF D, to
<1> QED BY <1>1, <1>7, <1>8, <1>9, <1>10 DEF asked

\* What two lists have, their concatenation has.
LEMMA JoinedEnds ==
    ASSUME NEW s, NEW t, IsSeq(s), IsSeq(t)
    PROVE  Ends(s \o t) = Ends(s) \union Ends(t) /\ Union(s \o t) = Union(s) \union Union(t)
<1> DEFINE X == Elements(s) \union Elements(t)
           st == s \o t
<1>1. s \in Seq(X) /\ t \in Seq(X)
  BY DEF IsSeq
<1> HIDE DEF X
<1>2. /\ DOMAIN st = 1 .. Len(s) + Len(t) /\ DOMAIN s = 1 .. Len(s) /\ DOMAIN t = 1 .. Len(t)
      /\ Len(s) \in Nat /\ Len(t) \in Nat
      /\ \A i \in 1 .. Len(s) : st[i] = s[i]
      /\ \A i \in 1 .. Len(t) : st[Len(s) + i] = t[i]
  BY <1>1
<1>3. \A i \in DOMAIN st : i \in DOMAIN s \/ \E j \in DOMAIN t : i = Len(s) + j
  <2> TAKE i \in DOMAIN st
  <2>1. i \in 1 .. Len(s) \/ (i - Len(s) \in 1 .. Len(t) /\ i = Len(s) + (i - Len(s)))
    BY <1>2
  <2> QED BY <1>2, <2>1
<1>4. /\ \A i \in DOMAIN s : i \in DOMAIN st /\ st[i] = s[i]
      /\ \A j \in DOMAIN t : Len(s) + j \in DOMAIN st /\ st[Len(s) + j] = t[j]
  BY <1>2
<1> HIDE DEF st
<1>5. Ends(st) = Ends(s) \union Ends(t)
  BY <1>3, <1>4 DEF Ends
<1>6. Union(st) = Union(s) \union Union(t)
  <2>1. \A x : x \in Union(st) <=> \E i \in DOMAIN st : x \in st[i]
    BY DEF Union
  <2>2. \A x : x \in Union(s) <=> \E i \in DOMAIN s : x \in s[i]
    BY DEF Union
  <2>3. \A x : x \in Union(t) <=> \E i \in DOMAIN t : x \in t[i]
    BY DEF Union
  <2>4. \A x : (\E i \in DOMAIN st : x \in st[i]) <=>
                   (\E i \in DOMAIN s : x \in s[i]) \/ (\E i \in DOMAIN t : x \in t[i])
    BY <1>3, <1>4
  <2>5. \A x : x \in Union(st) <=> x \in Union(s) \/ x \in Union(t)
    BY <2>1, <2>2, <2>3, <2>4
  <2> QED BY <2>5
<1> QED BY <1>5, <1>6 DEF st

LEMMA JoinedNonempty ==
    ASSUME NEW s, NEW t, IsSeq(s), IsSeq(t),
           \A i \in DOMAIN s : s[i] # {}, \A i \in DOMAIN t : t[i] # {}
    PROVE  \A i \in DOMAIN (s \o t) : (s \o t)[i] # {}
<1> DEFINE X == Elements(s) \union Elements(t)
           st == s \o t
<1>1. s \in Seq(X) /\ t \in Seq(X)
  BY DEF IsSeq
<1> HIDE DEF X
<1>2. /\ DOMAIN st = 1 .. Len(s) + Len(t) /\ DOMAIN s = 1 .. Len(s) /\ DOMAIN t = 1 .. Len(t)
      /\ Len(s) \in Nat /\ Len(t) \in Nat
      /\ \A i \in 1 .. Len(s) : st[i] = s[i]
      /\ \A i \in 1 .. Len(t) : st[Len(s) + i] = t[i]
  BY <1>1
<1> HIDE DEF st
<1>3. ASSUME NEW i \in DOMAIN st PROVE st[i] # {}
  <2>1. i \in 1 .. Len(s) \/ (i - Len(s) \in 1 .. Len(t) /\ i = Len(s) + (i - Len(s)))
    BY <1>2
  <2> QED BY <1>2, <2>1
<1> QED BY <1>3 DEF st

-----------------------------------------------------------------------------
(* Every step keeps the cuts where they are asked for.                     *)

\* While the replies come in: the ranges so far end where the cues so far end
\* and where the replies ask for it.
AskedInv ==
    pc = "Reply" /\ reply.exact =>
        /\ IsSeq(reply.asked) /\ \A b \in DOMAIN reply.asked : reply.asked[b] # {}
        /\ Ends(reply.ranges) = {reply.base[c].range[2] : c \in 1 .. reply.next - 1}
                                   \union Union(reply.asked)
TextInv == HasTexts(docs["Asr"].words)
EarlyInv == pc \in Early => reply.base = <<>>

LEMMA CueTexts ==
    ASSUME FlowInv, WordsListed, ReplyOK, TextInv, pc = "Reply", reply.next <= Len(reply.base)
    PROVE  LET words == WordsOf(reply.base[reply.next], docs["Asr"].words)
           IN  IsSeq(words) /\ HasTexts(words)
<1> DEFINE all == docs["Asr"].words
           a == reply.base[reply.next].range[1]
           b == reply.base[reply.next].range[2]
           words == SubSeq(all, a + 1, b)
           X == Elements(all)
<1>1. a \in Nat /\ b \in Nat /\ a < b /\ b <= Len(all)
  BY BaseCue
<1>2. all \in Seq(X) /\ \A w \in X : w.text \in Texts
  BY DEF WordsListed, IsSeq, TextInv, HasTexts, Elements
<1>3. WordsOf(reply.base[reply.next], all) = words
  BY DEF WordsOf
<1> HIDE DEF all, a, b, X
<1>4. words \in Seq(X)
  BY <1>1, <1>2
<1> HIDE DEF words
<1>5. \A i \in DOMAIN words : words[i] \in X
  BY <1>4
<1> QED BY <1>2, <1>3, <1>4, <1>5, ListIsSeq DEF HasTexts, all

\* The ends of one cue more.
LEMMA EndsUpto ==
    ASSUME NEW base, NEW n \in Nat \ {0}
    PROVE  {base[c].range[2] : c \in 1 .. (n + 1) - 1} =
               {base[c].range[2] : c \in 1 .. n - 1} \union {base[n].range[2]}
<1> DEFINE D == 1 .. (n + 1) - 1
           E == 1 .. n - 1
           end(c) == base[c].range[2]
<1>1. n \in D /\ (\A c \in E : c \in D) /\ \A c \in D : c \in E \/ c = n
  OBVIOUS
<1> HIDE DEF D, E, end
<1>2. {end(c) : c \in D} = {end(c) : c \in E} \union {end(n)}
  BY <1>1
<1> QED BY <1>2 DEF D, E, end

LEMMA AnswerAsked ==
    ASSUME FlowInv, WordsListed, ReplyOK, TextInv, AskedInv, AnswerSplit
    PROVE  AskedInv'
<1> DEFINE cue == reply.base[reply.next]
           asr == docs["Asr"].words
           words == WordsOf(cue, asr)
           first == cue.range[1]
           length == cue.range[2] - cue.range[1]
<1>1. pc = "Reply" /\ reply.next <= Len(reply.base)
  BY DEF AnswerSplit
<1>2. CASE pc' = "Stopped"
  BY <1>2 DEF AskedInv
<1>3. CASE pc' # "Stopped"
  <2>1. PICK r \in Replies(words) :
            /\ AllAligned(words, r.clean, r.breaks)
            /\ pc' = pc
            /\ reply' = [reply EXCEPT
                  !.ranges = @ \o RangesFor(words, first, r.clean, r.breaks),
                  !.asked = @ \o [b \in DOMAIN r.breaks |->
                      {first + k : k \in WordsAsked(words, r.clean, r.breaks[b])}],
                  !.exact = @ /\ r.clean = JoinWords(words), !.next = @ + 1]
    BY <1>3 DEF AnswerSplit
  <2>2. /\ cue.range \in Nat \X Nat /\ length \in Nat /\ Len(words) = length
        /\ first + length = cue.range[2] /\ first \in Nat
    <3>1. cue.range \in Nat \X Nat /\ length \in Nat /\ Len(words) = length
      BY <1>1, BaseCue
    <3>2. cue.range[1] \in Nat /\ cue.range[2] \in Nat
      BY <3>1
    <3> HIDE DEF cue
    <3> QED BY <3>1, <3>2
  <2>3. IsSeq(words) /\ HasTexts(words)
    BY <1>1, CueTexts
  <2>4. PICK n \in Nat : \E S : r.breaks \in [1 .. n -> S]
    BY ReplyBreaks
  <2>5. PICK S : r.breaks \in [1 .. n -> S]
    BY <2>4
  <2>6. DOMAIN reply = {"base", "ranges", "next", "failed", "asked", "exact"}
        /\ reply.next \in Nat \ {0} /\ reply.ranges \in RangeList
    BY <1>1 DEF ReplyOK
  <2> DEFINE more == RangesFor(words, first, r.clean, r.breaks)
             asked == AskedBy(words, first, r.clean, r.breaks)
             exact == r.clean = JoinWords(words)
  <2>7. SUFFICES ASSUME reply'.exact PROVE AskedInv'
    BY DEF AskedInv
  <2>8. /\ reply'.base = reply.base /\ reply'.ranges = reply.ranges \o more
        /\ reply'.next = reply.next + 1 /\ reply'.asked = reply.asked \o asked
    <3> HIDE DEF more, asked
    <3>1. reply' = [reply EXCEPT !.ranges = @ \o more, !.asked = @ \o asked,
                                 !.exact = @ /\ exact, !.next = @ + 1]
      BY <2>1 DEF more, asked, AskedBy
    <3> QED BY <2>6, <3>1
  <2>9. reply.exact /\ exact
    <3> HIDE DEF more, asked, exact
    <3>1. reply' = [reply EXCEPT !.ranges = @ \o more, !.asked = @ \o asked,
                                 !.exact = @ /\ exact, !.next = @ + 1]
      BY <2>1 DEF more, asked, exact, AskedBy
    <3>2. reply'.exact = (reply.exact /\ exact)
      BY <2>6, <3>1
    <3> QED BY <2>7, <3>2, Zenon
  <2>10. /\ IsSeq(asked) /\ (\A b \in DOMAIN asked : asked[b] # {})
         /\ Ends(more) = Union(asked) \union {cue.range[2]} /\ IsSeq(more)
    <3> DEFINE clean == JoinWords(words)
               breaks == r.breaks
    <3>1. /\ r.clean = clean /\ AllAligned(words, clean, breaks) /\ breaks \in [1 .. n -> S]
          /\ asked = AskedBy(words, first, clean, breaks)
          /\ more = RangesFor(words, first, clean, breaks)
      BY <2>1, <2>5, <2>9
    <3> HIDE DEF asked, more, breaks, first, length
    <3>2. /\ IsSeq(asked) /\ \A b \in DOMAIN asked : asked[b] # {}
          /\ Ends(RangesFor(words, first, JoinWords(words), breaks)) =
                 Union(asked) \union {first + length}
      <4>1. /\ AllAligned(words, JoinWords(words), breaks) /\ breaks \in [1 .. n -> S]
            /\ asked = AskedBy(words, first, JoinWords(words), breaks)
        BY <3>1
      <4>2. /\ IsSeq(words) /\ HasTexts(words) /\ length \in Nat /\ Len(words) = length
            /\ first \in Nat
        BY <2>2, <2>3
      <4> HIDE DEF words, clean
      <4>3. /\ IsSeq(AskedBy(words, first, JoinWords(words), breaks))
            /\ \A b \in DOMAIN AskedBy(words, first, JoinWords(words), breaks) :
                  AskedBy(words, first, JoinWords(words), breaks)[b] # {}
            /\ Ends(RangesFor(words, first, JoinWords(words), breaks)) =
                   Union(AskedBy(words, first, JoinWords(words), breaks))
                       \union {first + Len(words)}
        BY <4>1, <4>2, ExactCuts
      <4> QED BY <4>1, <4>2, <4>3
    <3>3. more \in RangeList
      <4>1. LET made == RangesFor(words, first, clean, breaks) IN made \in RangeList
        <5> HIDE DEF words, clean
        <5> QED BY <2>2, <3>1, RangesInCue
      <4> QED BY <3>1, <4>1
    <3>4. IsSeq(more)
      BY <3>3, ListIsSeq DEF RangeList
    <3> QED BY <2>2, <3>1, <3>2, <3>4
  <2>11. IsSeq(reply.ranges)
    BY <2>6, ListIsSeq DEF RangeList
  <2> DEFINE old == {reply.base[c].range[2] : c \in 1 .. reply.next - 1}
  <2>12. /\ IsSeq(reply.asked) /\ \A b \in DOMAIN reply.asked : reply.asked[b] # {}
         /\ Ends(reply.ranges) = old \union Union(reply.asked)
    BY <1>1, <2>9 DEF AskedInv
  <2>13. {reply'.base[c].range[2] : c \in 1 .. reply'.next - 1} = old \union {cue.range[2]}
    <3>1. {reply.base[c].range[2] : c \in 1 .. (reply.next + 1) - 1} =
              old \union {reply.base[reply.next].range[2]}
      BY <2>6, EndsUpto
    <3> QED BY <2>8, <3>1
  <2> HIDE DEF old, more, asked, cue
  <2>14. /\ Ends(reply'.ranges) = Ends(reply.ranges) \union Ends(more)
         /\ Union(reply'.asked) = Union(reply.asked) \union Union(asked)
    BY <2>8, <2>10, <2>11, <2>12, JoinedEnds
  <2>15. IsSeq(reply'.asked)
    BY <2>8, <2>10, <2>12, JoinedIsSeq
  <2>16. \A b \in DOMAIN reply'.asked : reply'.asked[b] # {}
    BY <2>8, <2>10, <2>12, JoinedNonempty
  <2>17. Ends(reply'.ranges) = (old \union {cue.range[2]}) \union Union(reply'.asked)
    BY <2>10, <2>12, <2>14
  <2> QED BY <2>13, <2>15, <2>16, <2>17 DEF AskedInv, Ends, Union, IsSeq, Elements
<1> QED BY <1>2, <1>3

LEMMA AppendedEnds ==
    ASSUME NEW s \in RangeList, NEW x \in Nat \X Nat
    PROVE  Ends(Append(s, x)) = Ends(s) \union {x[2]}
<1> DEFINE S == Nat \X Nat
           t == Append(s, x)
<1>1. s \in Seq(S) /\ x \in S
  BY DEF RangeList
<1> HIDE DEF S
<1>2. /\ DOMAIN t = 1 .. Len(s) + 1 /\ DOMAIN s = 1 .. Len(s) /\ Len(s) \in Nat
      /\ t[Len(s) + 1] = x /\ \A i \in 1 .. Len(s) : t[i] = s[i]
  BY <1>1
<1>3. \A i \in DOMAIN t : i \in DOMAIN s \/ i = Len(s) + 1
  BY <1>2
<1>4. Len(s) + 1 \in DOMAIN t /\ \A i \in DOMAIN s : i \in DOMAIN t /\ t[i] = s[i]
  BY <1>2
<1> HIDE DEF t
<1>5. Ends(t) = Ends(s) \union {x[2]}
  BY <1>2, <1>3, <1>4 DEF Ends
<1> QED BY <1>5 DEF t

LEMMA DegradeAsked ==
    ASSUME FlowInv, WordsListed, ReplyOK, AskedInv, DegradeSplit
    PROVE  AskedInv'
<1> DEFINE range == reply.base[reply.next].range
           old == {reply.base[c].range[2] : c \in 1 .. reply.next - 1}
<1>1. pc = "Reply" /\ reply.next <= Len(reply.base)
  BY DEF DegradeSplit
<1>2. range \in Nat \X Nat
  BY <1>1, BaseCue
<1>3. /\ DOMAIN reply = {"base", "ranges", "next", "failed", "asked", "exact"}
      /\ reply.next \in Nat \ {0} /\ reply.ranges \in RangeList
  BY <1>1 DEF ReplyOK
<1>4. /\ reply'.base = reply.base /\ reply'.ranges = Append(reply.ranges, range)
      /\ reply'.next = reply.next + 1 /\ reply'.asked = reply.asked
  BY <1>3 DEF DegradeSplit
<1>5. reply'.exact = reply.exact
  BY <1>3 DEF DegradeSplit
<1> SUFFICES ASSUME reply'.exact PROVE AskedInv'
  BY DEF AskedInv
<1>6. /\ IsSeq(reply.asked) /\ \A b \in DOMAIN reply.asked : reply.asked[b] # {}
      /\ Ends(reply.ranges) = old \union Union(reply.asked)
  BY <1>1, <1>5 DEF AskedInv
<1>7. {reply'.base[c].range[2] : c \in 1 .. reply'.next - 1} = old \union {range[2]}
  <2>1. {reply.base[c].range[2] : c \in 1 .. (reply.next + 1) - 1} =
            old \union {reply.base[reply.next].range[2]}
    BY <1>3, EndsUpto
  <2> QED BY <1>4, <2>1
<1> HIDE DEF old, range
<1>8. Ends(reply'.ranges) = Ends(reply.ranges) \union {range[2]}
  BY <1>2, <1>3, <1>4, AppendedEnds
<1>9. Ends(reply'.ranges) = (old \union {range[2]}) \union Union(reply'.asked)
  BY <1>4, <1>6, <1>8
<1>10. IsSeq(reply'.asked) /\ \A b \in DOMAIN reply'.asked : reply'.asked[b] # {}
  BY <1>4, <1>6
<1> QED BY <1>7, <1>9, <1>10 DEF AskedInv, Ends, Union, IsSeq, Elements

LEMMA AskedStep ==
    ASSUME FlowInv, WordsListed, ReplyOK, TextInv, AskedInv, [Next]_vars
    PROVE  AskedInv'
<1>1. CASE pc' # "Reply"
  BY <1>1 DEF AskedInv
<1>2. CASE UNCHANGED vars
  <2>1. reply' = reply /\ pc' = pc
    BY <1>2 DEF vars
  <2>2. ASSUME pc' = "Reply", reply'.exact
        PROVE  /\ IsSeq(reply'.asked) /\ \A b \in DOMAIN reply'.asked : reply'.asked[b] # {}
               /\ Ends(reply'.ranges) = {reply'.base[c].range[2] : c \in 1 .. reply'.next - 1}
                                            \union Union(reply'.asked)
    BY <2>1, <2>2 DEF AskedInv
  <2> QED BY <2>2 DEF AskedInv, Ends, Union, IsSeq, Elements
<1>3. CASE BeginSplit
  <2>1. CASE pc' = "Reply"
    <3>1. reply' = [NoReply EXCEPT !.base = RuleSplitOf(docs["Asr"]).cues]
      BY <1>3, <2>1 DEF BeginSplit
    <3>2. reply'.ranges = <<>> /\ reply'.next = 1 /\ reply'.asked = <<>>
      BY <3>1 DEF NoReply
    <3>3. DOMAIN <<>> = {} /\ 1 .. 1 - 1 = {}
      OBVIOUS
    <3>4. Ends(<<>>) = {} /\ Union(<<>>) = {}
      BY <3>3 DEF Ends, Union
    <3>5. {reply'.base[c].range[2] : c \in 1 .. 1 - 1} = {}
      BY <3>3
    <3>6. Ends(reply'.ranges) = {reply'.base[c].range[2] : c \in 1 .. reply'.next - 1}
                                    \union Union(reply'.asked)
      BY <3>2, <3>4, <3>5
    <3>7. IsSeq(reply'.asked) /\ \A b \in DOMAIN reply'.asked : reply'.asked[b] # {}
      BY <3>2, <3>3, EmptyIsSeq
    <3> QED BY <3>6, <3>7 DEF AskedInv, Ends, Union, IsSeq, Elements
  <2> QED BY <1>1, <2>1
<1>4. CASE Record \/ Speak \/ HearChunk \/ HearWhole \/ EndAsr \/ Import \/ SplitByRules
  <2>1. pc' # "Reply"
    <3>1. CASE Record \/ Speak
      BY <3>1 DEF Record, Speak
    <3>2. CASE HearChunk
      BY <3>2 DEF HearChunk
    <3>3. CASE HearWhole
      BY <3>3 DEF HearWhole
    <3>4. CASE EndAsr \/ Import \/ SplitByRules
      BY <3>4 DEF EndAsr, Import, SplitByRules
    <3> QED BY <1>4, <3>1, <3>2, <3>3, <3>4
  <2> QED BY <1>1, <2>1
<1>5. CASE EndSplit \/ Correct \/ Translate \/ StageFails \/ EditCue \/ Retry
  <2>1. pc' # "Reply"
    BY <1>5 DEF EndSplit, Correct, Translate, StageFails, EditCue, Retry
  <2> QED BY <1>1, <2>1
<1> QED BY <1>2, <1>3, <1>4, <1>5, AnswerAsked, DegradeAsked DEF Next

LEMMA TextStep ==
    ASSUME ReadInv, TextInv, [Next]_vars
    PROVE  TextInv'
<1>1. FlowInv
  BY DEF ReadInv, CueInv
<1>2. CASE EndAsr
  <2>1. HasTexts(heard)
    BY <1>2, HeardHasTimes DEF ReadInv, EndAsr
  <2>2. docs' = docs \/ docs' = [docs EXCEPT !["Asr"] = NewAsr(heard)]
    BY <1>2 DEF EndAsr
  <2>3. docs'["Asr"] = docs["Asr"] \/ docs'["Asr"].words = heard
    BY <1>1, <2>2 DEF FlowInv, DocsOK, StageNames, NewAsr
  <2> QED BY <2>1, <2>3 DEF TextInv, HasTexts
<1>3. CASE ~EndAsr
  BY <1>1, <1>3, AsrStays DEF TextInv, HasTexts
<1> QED BY <1>2, <1>3

\* No request has been made before the words are there.
LEMMA EarlyStep ==
    ASSUME EarlyInv, [Next]_vars
    PROVE  EarlyInv'
<1>1. CASE pc \in Early /\ UNCHANGED reply
  BY <1>1 DEF EarlyInv
<1>2. CASE pc' \notin Early
  BY <1>2 DEF EarlyInv
<1>3. CASE Record \/ Speak \/ EndAsr
  BY <1>1, <1>3 DEF Record, Speak, EndAsr, Early
<1>4. CASE HearChunk
  BY <1>1, <1>4 DEF HearChunk, Early
<1>5. CASE HearWhole
  BY <1>1, <1>5 DEF HearWhole, Early
<1>6. CASE Import \/ SplitByRules \/ BeginSplit \/ AnswerSplit \/ DegradeSplit \/ EndSplit
  <2>1. pc' \notin Early
    BY <1>6 DEF Import, SplitByRules, BeginSplit, AnswerSplit, DegradeSplit, EndSplit, Early
  <2> QED BY <1>2, <2>1
<1>7. CASE Correct \/ Translate \/ StageFails \/ EditCue \/ Retry
  <2>1. pc' \notin Early
    BY <1>7 DEF Correct, Translate, StageFails, EditCue, Retry, Early
  <2> QED BY <1>2, <2>1
<1>8. CASE UNCHANGED vars
  BY <1>8 DEF EarlyInv, vars
<1> QED BY <1>3, <1>4, <1>5, <1>6, <1>7, <1>8 DEF Next

-----------------------------------------------------------------------------
(* Where the Split transcript is cut. *)

CutsAre(cues, base, asked) ==
    /\ \A b \in DOMAIN asked : asked[b] # {}
    /\ {cues[c].range[2] : c \in DOMAIN cues} =
           {base[c].range[2] : c \in DOMAIN base} \union UNION {asked[b] : b \in DOMAIN asked}

LEMMA CutBy ==
    /\ CutWhereAsked <=> CutsAre(docs["Split"].cues, reply.base, reply.asked)
    /\ CutWhereAsked' <=> CutsAre(docs'["Split"].cues, reply'.base, reply'.asked)
<1>1. CutWhereAsked <=> CutsAre(docs["Split"].cues, reply.base, reply.asked)
  BY DEF CutWhereAsked, CutsAre
<1>2. CutWhereAsked' <=> CutsAre(docs'["Split"].cues, reply'.base, reply'.asked)
  BY DEF CutWhereAsked, CutsAre
<1> QED BY <1>1, <1>2

\* The transcript and the requests are as they were, but for texts and marks.
LEMMA SameCuts ==
    ASSUME SplitWhereAsked, reply' = reply, Committed("Split")' => Committed("Split"),
           DOMAIN docs'["Split"].cues = DOMAIN docs["Split"].cues,
           \A c \in DOMAIN docs["Split"].cues :
               docs'["Split"].cues[c].range = docs["Split"].cues[c].range
    PROVE  SplitWhereAsked'
<1>1. {docs'["Split"].cues[c].range[2] : c \in DOMAIN docs'["Split"].cues} =
          {docs["Split"].cues[c].range[2] : c \in DOMAIN docs["Split"].cues}
  OBVIOUS
<1>2. CutWhereAsked => CutWhereAsked'
  <2>1. CutsAre(docs["Split"].cues, reply.base, reply.asked) =>
            CutsAre(docs'["Split"].cues, reply.base, reply.asked)
    BY <1>1 DEF CutsAre
  <2> QED BY <2>1, CutBy
<1>3. Splitted' => Splitted
  BY DEF Splitted
<1> QED BY <1>2, <1>3 DEF SplitWhereAsked

\* Nothing was asked, or nothing is committed.
LEMMA NoCuts == ASSUME reply'.base = <<>> \/ ~Committed("Split")' PROVE SplitWhereAsked'
BY DEF SplitWhereAsked, Splitted

LEMMA EndSplitCut ==
    ASSUME FlowInv, WordsListed, ReplyOK, AskedInv, EndSplit
    PROVE  SplitWhereAsked'
<1> DEFINE base == RuleSplitOf(docs["Asr"])
           ids == CuesWithin(ApplySplit(base, reply.ranges), reply.failed)
           d == MarkFailed(ApplySplit(base, reply.ranges), ids)
<1>1. pc = "Reply" /\ reply.next = Len(reply.base) + 1 /\ reply' = reply
  BY DEF EndSplit
<1>2. CASE UNCHANGED docs
  <2>1. ~Committed("Split")
    BY <1>1 DEF FlowInv, DocsOK, StageNames
  <2> QED BY <1>2, <2>1, NoCuts DEF Committed, NoDoc
<1>3. CASE docs' = [docs EXCEPT !["Split"] = d]
  <2>1. IsDoc(base) /\ Real(base) /\ Parted(base) /\ reply.base = base.cues
    BY <1>1, RuleDoc, RuleIsParted DEF ReplyOK
  <2>2. /\ DOMAIN d.cues = DOMAIN reply.ranges
        /\ \A c \in DOMAIN reply.ranges : d.cues[c].range = reply.ranges[c]
    BY <2>1, ReplyDoc
  <2>3. docs'["Split"] = d
    BY <1>3 DEF FlowInv, DocsOK, StageNames
  <2> HIDE DEF d
  <2>4. PICK n \in Nat : DOMAIN base.cues = 1 .. n
    BY <2>1 DEF Parted
  <2> HIDE DEF base
  <2>5. DOMAIN reply.base = 1 .. reply.next - 1
    <3>1. Len(reply.base) = n
      BY <2>1, <2>4
    <3>2. reply.next - 1 = n
      BY <1>1, <3>1
    <3> QED BY <2>1, <2>4, <3>2
  <2>6. {docs'["Split"].cues[c].range[2] : c \in DOMAIN docs'["Split"].cues} =
            Ends(reply.ranges)
    BY <2>2, <2>3 DEF Ends
  <2>7. reply.exact =>
          /\ \A b \in DOMAIN reply.asked : reply.asked[b] # {}
          /\ Ends(reply.ranges) = {reply.base[c].range[2] : c \in DOMAIN reply.base}
                 \union UNION {reply.asked[b] : b \in DOMAIN reply.asked}
    BY <1>1, <2>5 DEF AskedInv, Union
  <2>8. reply.exact => CutWhereAsked'
    <3>1. reply.exact => CutsAre(docs'["Split"].cues, reply.base, reply.asked)
      BY <2>6, <2>7 DEF CutsAre
    <3> QED BY <1>1, <3>1, CutBy
  <2> QED BY <1>1, <2>8 DEF SplitWhereAsked
<1> QED BY <1>2, <1>3 DEF EndSplit

LEMMA CutStep ==
    ASSUME FlowInv, WordsListed, ReplyOK, AskedInv, EarlyInv, SplitWhereAsked, [Next]_vars
    PROVE  SplitWhereAsked'
<1>1. CASE docs'["Split"] = docs["Split"] /\ reply' = reply
  <2>1. Committed("Split")' => Committed("Split")
    BY <1>1 DEF Committed, NoDoc
  <2> QED BY <1>1, <2>1, SameCuts
<1>2. DOMAIN docs = StageNames /\ "Split" \in StageNames
  BY DEF FlowInv, DocsOK, StageNames
<1>3. CASE Record \/ Speak \/ HearChunk \/ HearWhole \/ EndAsr
  <2>1. Record \/ Speak => UNCHANGED <<docs, reply>>
    BY DEF Record, Speak
  <2>2. HearChunk => UNCHANGED <<docs, reply>>
    BY DEF HearChunk
  <2>3. HearWhole => UNCHANGED <<docs, reply>>
    BY DEF HearWhole
  <2>4. EndAsr => docs'["Split"] = docs["Split"] /\ reply' = reply
    BY <1>2 DEF EndAsr
  <2> QED BY <1>1, <1>3, <2>1, <2>2, <2>3, <2>4
<1>4. CASE Import \/ SplitByRules
  <2>1. pc \in Early /\ reply' = reply
    BY <1>4 DEF Import, SplitByRules, Early
  <2> QED BY <2>1, NoCuts DEF EarlyInv
<1>5. CASE BeginSplit \/ AnswerSplit \/ DegradeSplit
  <2>1. UNCHANGED docs /\ pc \in {"LlmSplit", "Reply"}
    BY <1>5 DEF BeginSplit, AnswerSplit, DegradeSplit
  <2>2. ~Committed("Split")
    BY <2>1 DEF FlowInv, DocsOK, StageNames
  <2> QED BY <2>1, <2>2, NoCuts DEF Committed, NoDoc
<1>6. CASE EndSplit
  BY <1>6, EndSplitCut
<1>7. CASE Correct \/ StageFails \/ Retry
  <2>1. reply' = NoReply
    BY <1>7 DEF Correct, StageFails, Retry
  <2> QED BY <2>1, NoCuts DEF NoReply
<1>8. CASE Translate
  <2>1. reply' = reply /\ \E d : docs' = [docs EXCEPT !["Translate"] = d]
    BY <1>8 DEF Translate, Rewrite
  <2> QED BY <1>1, <1>2, <2>1
<1>9. CASE EditCue
  <2>1. PICK last \in StageNames \ {"Asr"} : \E d :
          /\ Committed(last) /\ docs' = [docs EXCEPT ![last] = d] /\ Follows(d, docs[last])
    BY <1>9, EditedIsLatest
  <2>2. PICK d : docs' = [docs EXCEPT ![last] = d] /\ Follows(d, docs[last])
    BY <2>1
  <2>3. reply' = reply
    BY <1>9 DEF EditCue
  <2>4. CASE last # "Split"
    BY <1>1, <1>2, <2>2, <2>3, <2>4
  <2>5. CASE last = "Split"
    <3>1. docs'["Split"] = d /\ Committed("Split")
      BY <1>2, <2>1, <2>2, <2>5
    <3>2. /\ DOMAIN d.cues = DOMAIN docs["Split"].cues
          /\ \A c \in DOMAIN docs["Split"].cues : d.cues[c].range = docs["Split"].cues[c].range
      BY <2>2, <2>5 DEF Follows
    <3> QED BY <2>3, <3>1, <3>2, SameCuts
  <2> QED BY <2>4, <2>5
<1>10. CASE UNCHANGED vars
  BY <1>1, <1>10 DEF vars
<1> QED BY <1>3, <1>4, <1>5, <1>6, <1>7, <1>8, <1>9, <1>10 DEF Next

\* When the replies of an LLM keep the spaces of the cues, every break is between
\* the words a reader of the reply finds it between, character by character, and
\* the Split transcript is cut there, where the rules cut, and nowhere else
\* (boundary_index, split_ranges_for_formatted, apply_llm_split).
THEOREM CutsAreAskedFor == Spec => []SplitWhereAsked
<1> DEFINE Inv == ReadInv /\ TextInv /\ AskedInv /\ EarlyInv /\ SplitWhereAsked
<1>1. Init => Inv
  <2> SUFFICES ASSUME Init PROVE Inv
    OBVIOUS
  <2>1. pc = "Start" /\ reply = NoReply /\ docs["Asr"] = NoDoc
    BY DEF Init, StageNames
  <2>2. TextInv
    <3>1. NoDoc.words = <<>> /\ DOMAIN <<>> = {}
      BY DEF NoDoc, NewAsr
    <3> QED BY <2>1, <3>1 DEF TextInv, HasTexts
  <2>3. AskedInv
    BY <2>1 DEF AskedInv
  <2>4. reply.base = <<>>
    BY <2>1 DEF NoReply
  <2>5. EarlyInv /\ SplitWhereAsked
    BY <2>4 DEF EarlyInv, SplitWhereAsked, Splitted
  <2> QED BY <2>2, <2>3, <2>5, ReadStart
<1>2. Inv /\ [Next]_vars => Inv'
  <2> SUFFICES ASSUME Inv, [Next]_vars PROVE Inv'
    OBVIOUS
  <2>1. FlowInv /\ WordsListed /\ ReplyOK
    BY DEF ReadInv, CueInv
  <2> QED BY <2>1, ReadStep, TextStep, AskedStep, EarlyStep, CutStep
<1>3. Inv => SplitWhereAsked
  OBVIOUS
<1> HIDE DEF Inv
<1> QED BY <1>1, <1>2, <1>3, PTL DEF Spec
=============================================================================
