--------------------------- MODULE SequenceLemmas ---------------------------
(***************************************************************************)
(* Facts the proofs share: about appending to a sequence, by which found,  *)
(* recoveredRanges, results and the calls of a parser grow; about sets of  *)
(* numbers; and about what a recursive function computes.                  *)
(***************************************************************************)
EXTENDS Integers, Sequences, SequencesExt, Functions, WellFoundedInduction, TLAPS

\* Appending an element adds it to the range and leaves the rest in place.
LEMMA AppendRange ==
    ASSUME NEW S, NEW s \in Seq(S), NEW x \in S
    PROVE  /\ Append(s, x) \in Seq(S)
           /\ Len(Append(s, x)) = Len(s) + 1
           /\ DOMAIN s = 1 .. Len(s) /\ DOMAIN Append(s, x) = 1 .. Len(s) + 1
           /\ \A i \in DOMAIN s : Append(s, x)[i] = s[i]
           /\ Append(s, x)[Len(s) + 1] = x
           /\ Range(Append(s, x)) = Range(s) \cup {x}
<1>1. /\ Append(s, x) \in Seq(S)
      /\ Len(Append(s, x)) = Len(s) + 1
      /\ DOMAIN s = 1 .. Len(s)
      /\ DOMAIN Append(s, x) = 1 .. Len(s) + 1
      /\ \A i \in 1 .. Len(s) : Append(s, x)[i] = s[i]
      /\ Append(s, x)[Len(s) + 1] = x
      /\ Len(s) \in Nat
  OBVIOUS
<1>2. ASSUME NEW y \in Range(Append(s, x)) PROVE y \in Range(s) \cup {x}
  <2>1. PICK i \in 1 .. Len(s) + 1 : y = Append(s, x)[i]
    BY <1>1 DEF Range
  <2>2. CASE i = Len(s) + 1
    BY <2>1, <2>2, <1>1
  <2>3. CASE i # Len(s) + 1
    BY <2>1, <2>3, <1>1 DEF Range
  <2>4. QED
    BY <2>2, <2>3
<1>3. ASSUME NEW y \in Range(s) \cup {x} PROVE y \in Range(Append(s, x))
  BY <1>1 DEF Range
<1>4. QED
  BY <1>1, <1>2, <1>3

\* A set of numbers has a least one.
LEMMA LeastNumber ==
    ASSUME NEW T, T \subseteq Nat, T # {}
    PROVE  \E m \in T : \A k \in T : m <= k
<1>1. PICK m \in T : \A k \in T : ~(<<k, m>> \in OpToRel(<, Nat))
  BY NatLessThanWellFounded, WFMin
<1>2. ASSUME NEW k \in T PROVE m <= k
  <2>1. k \in Nat /\ m \in Nat /\ ~(<<k, m>> \in OpToRel(<, Nat))
    BY <1>1
  <2> QED
    BY <2>1 DEF OpToRel
<1> QED
  BY <1>2

-----------------------------------------------------------------------------
(* What a recursive function on 0 .. n computes, step by step.             *)

\* Induction up to n: a set with 0 in it and with every number its successor.
LEMMA UpTo ==
    ASSUME NEW n \in Nat, NEW T, 0 \in T, \A k \in 0 .. n - 1 : k \in T => k + 1 \in T
    PROVE  0 .. n \subseteq T
<1> DEFINE Rest == (0 .. n) \ T
<1> SUFFICES ASSUME Rest # {} PROVE FALSE
  OBVIOUS
<1>1. PICK k \in Rest : \A m \in Rest : ~(<<m, k>> \in OpToRel(<, Nat))
  <2>1. Rest \subseteq Nat
    OBVIOUS
  <2> HIDE DEF Rest
  <2> QED
    BY <2>1, NatLessThanWellFounded, WFMin
<1>2. k - 1 \in Rest /\ <<k - 1, k>> \in OpToRel(<, Nat)
  <2>1. k # 0 /\ k \in 1 .. n
    OBVIOUS
  <2>2. k - 1 \notin T
    BY <2>1
  <2> QED
    BY <2>1, <2>2 DEF OpToRel
<1> QED
  BY <1>1, <1>2

\* f starts from base and goes on by step.
Follows(f, V, base, n, step) ==
    /\ f \in [0 .. n -> V]
    /\ f[0] = base
    /\ \A k \in 1 .. n : f[k] = step[k][f[k - 1]]

\* There is a function that follows its steps.
LEMMA Recursion ==
    ASSUME NEW V, NEW base \in V, NEW n \in Nat, NEW step \in [1 .. n -> [V -> V]]
    PROVE  \E f : Follows(f, V, base, n, step)
<1> DEFINE T == {m \in 0 .. n : \E f : Follows(f, V, base, m, step)}
<1>1. 0 \in T
  <2>1. Follows([k \in 0 .. 0 |-> base], V, base, 0, step)
    BY DEF Follows
  <2> QED
    BY <2>1
<1>2. ASSUME NEW m \in 0 .. n - 1, m \in T PROVE m + 1 \in T
  <2>1. PICK f : Follows(f, V, base, m, step)
    BY <1>2
  <2> DEFINE g == [k \in 0 .. m + 1 |-> IF k <= m THEN f[k] ELSE step[m + 1][f[m]]]
  <2>2. f \in [0 .. m -> V] /\ f[m] \in V /\ step[m + 1][f[m]] \in V
    BY <2>1 DEF Follows
  <2>3. g \in [0 .. m + 1 -> V] /\ g[0] = base
    BY <2>1, <2>2 DEF Follows
  <2>4. \A k \in 1 .. m + 1 : g[k] = step[k][g[k - 1]]
    BY <2>1, <2>2 DEF Follows
  <2>5. Follows(g, V, base, m + 1, step)
    BY <2>3, <2>4 DEF Follows
  <2> QED
    BY <2>5
<1>3. 0 .. n \subseteq T
  <2> HIDE DEF T
  <2> QED
    BY <1>1, <1>2, UpTo
<1> QED
  BY <1>3

\* f and g start alike, and as long as they agree they go on alike.
GoTogether(f, g, n) ==
    /\ f = [k \in 0 .. n |-> f[k]] /\ g = [k \in 0 .. n |-> g[k]]
    /\ f[0] = g[0]
    /\ \A k \in 1 .. n : f[k - 1] = g[k - 1] => f[k] = g[k]

\* Recursive functions that start alike and go on alike are the same.
LEMMA Same ==
    ASSUME NEW n \in Nat, NEW f, NEW g, GoTogether(f, g, n)
    PROVE  f = g
<1> DEFINE T == {k \in 0 .. n : f[k] = g[k]}
<1>1. 0 \in T
  BY DEF GoTogether
<1>2. ASSUME NEW k \in 0 .. n - 1, k \in T PROVE k + 1 \in T
  <2>1. k + 1 \in 1 .. n /\ k + 1 - 1 = k
    OBVIOUS
  <2>2. f[(k + 1) - 1] = g[(k + 1) - 1]
    BY <1>2, <2>1
  <2>3. f[k + 1] = g[k + 1]
    BY <2>1, <2>2 DEF GoTogether
  <2> QED
    BY <2>1, <2>3
<1>3. 0 .. n \subseteq T
  <2> HIDE DEF T
  <2> QED
    BY <1>1, <1>2, UpTo
<1>4. \A k \in 0 .. n : f[k] = g[k]
  BY <1>3
<1> QED
  BY <1>4 DEF GoTogether

-----------------------------------------------------------------------------
(* Sequences put together, one after the other.                           *)

\* f[1], .., f[k] put together.
FirstOf(f, k) == FlattenSeq([j \in 1 .. k |-> f[j]])

PutTogether(c, f, k, S) ==
    /\ c \in [0 .. k -> Seq(S)]
    /\ c[0] = <<>>
    /\ \A j \in 1 .. k : c[j] = c[j - 1] \o f[j]
    /\ FirstOf(f, k) = c[k]

\* Any number of sequences can be put one behind the other.
LEMMA PutTogetherFacts ==
    ASSUME NEW S, NEW k \in Nat, NEW f, \A j \in 1 .. k : f[j] \in Seq(S)
    PROVE  \E c : PutTogether(c, f, k, S)
<1> DEFINE s == [j \in 1 .. k |-> f[j]]
           step == [j \in 1 .. k |-> [x \in Seq(S) |-> x \o f[j]]]
<1>1. s \in Seq(Seq(S)) /\ Len(s) = k /\ \A j \in 1 .. k : s[j] = f[j]
  <2>1. s \in [1 .. k -> Seq(S)]
    OBVIOUS
  <2> QED
    BY <2>1
<1>2. PICK c : Follows(c, Seq(S), <<>>, k, step)
  <2>1. step \in [1 .. k -> [Seq(S) -> Seq(S)]]
    <3>1. \A j \in 1 .. k : \A x \in Seq(S) : x \o f[j] \in Seq(S)
      OBVIOUS
    <3> QED
      BY <3>1
  <2>2. <<>> \in Seq(S)
    OBVIOUS
  <2> HIDE DEF step
  <2> QED
    BY <2>1, <2>2, Recursion, Zenon
<1>3. /\ c \in [0 .. k -> Seq(S)] /\ c[0] = <<>>
      /\ \A j \in 1 .. k : c[j] = c[j - 1] \o f[j]
  <2>1. \A j \in 1 .. k : j - 1 \in 0 .. k
    OBVIOUS
  <2> QED
    BY <1>2, <2>1 DEF Follows
<1>4. FirstOf(f, k) = c[k]
  <2>1. CASE k = 0
    <3>1. s = <<>>
      BY <2>1
    <3>2. FlattenSeq(s) = s
      BY <1>1, <2>1 DEF FlattenSeq
    <3> QED
      BY <1>3, <2>1, <3>1, <3>2 DEF FirstOf
  <2>2. CASE k # 0
    <3> DEFINE flatten[i_ \in 1 .. Len(s)] ==
                   IF i_ = 1 THEN s[i_] ELSE flatten[i_ - 1] \o s[i_]
    <3>1. FlattenSeq(s) = flatten[Len(s)]
      <4> HIDE DEF s
      <4>1. Len(s) # 0
        BY <1>1, <2>2
      <4> QED
        BY <4>1 DEF FlattenSeq
    <3> DEFINE g == [j \in 0 .. k |-> IF j = 0 THEN <<>> ELSE flatten[j]]
               t == [j \in 1 .. k |-> c[j]]
    <3>2. t = [i_ \in 1 .. Len(s) |-> IF i_ = 1 THEN s[i_] ELSE t[i_ - 1] \o s[i_]]
      <4> HIDE DEF s, step
      <4>1. t = [j \in 1 .. k |-> t[j]] /\ \A j \in 1 .. k : t[j] = c[j]
        OBVIOUS
      <4> HIDE DEF t
      <4>2. ASSUME NEW j \in 1 .. k PROVE t[j] = IF j = 1 THEN s[j] ELSE t[j - 1] \o s[j]
        <5>1. c[j] = c[j - 1] \o s[j] /\ s[j] \in Seq(S)
          BY <1>1, <1>3
        <5>2. CASE j = 1
          <6>1. j - 1 = 0
            BY <5>2
          <6>2. c[j - 1] = <<>>
            BY <1>3, <6>1
          <6>3. <<>> \o s[j] = s[j]
            BY <5>1
          <6> QED
            BY <4>1, <5>1, <5>2, <6>2, <6>3
        <5>3. CASE j # 1
          <6>1. j - 1 \in 1 .. k
            BY <5>3
          <6> QED
            BY <4>1, <5>1, <5>3, <6>1
        <5> QED
          BY <5>2, <5>3
      <4> QED
        BY <1>1, <4>1, <4>2
    <3>3. flatten = [i_ \in 1 .. Len(s) |-> IF i_ = 1 THEN s[i_] ELSE flatten[i_ - 1] \o s[i_]]
      <4> HIDE DEF s, step, t
      <4> QED
        BY <3>2
    <3>4. GoTogether(c, g, k)
      <4> HIDE DEF flatten, s, step, t
      <4>1. c = [j \in 0 .. k |-> c[j]]
        BY <1>3
      <4>2. g = [j \in 0 .. k |-> g[j]] /\ g[0] = <<>> /\ \A j \in 1 .. k : g[j] = flatten[j]
        OBVIOUS
      <4> HIDE DEF g
      <4>3. ASSUME NEW j \in 1 .. k, c[j - 1] = g[j - 1] PROVE c[j] = g[j]
        <5>1. c[j] = g[j - 1] \o s[j] /\ s[j] \in Seq(S)
          BY <1>1, <1>3, <4>3
        <5>2. g[j] = IF j = 1 THEN s[j] ELSE flatten[j - 1] \o s[j]
          BY <1>1, <3>3, <4>2
        <5>3. CASE j = 1
          <6>1. j - 1 = 0
            BY <5>3
          <6>2. g[j - 1] = <<>>
            BY <4>2, <6>1
          <6>3. <<>> \o s[j] = s[j]
            BY <5>1
          <6> QED
            BY <5>1, <5>2, <5>3, <6>2, <6>3
        <5>4. CASE j # 1
          <6>1. j - 1 \in 1 .. k
            BY <5>4
          <6> QED
            BY <4>2, <5>1, <5>2, <5>4, <6>1
        <5> QED
          BY <5>3, <5>4
      <4> QED
        BY <1>3, <4>1, <4>2, <4>3 DEF GoTogether
    <3>5. c = g
      <4> HIDE DEF g
      <4> QED
        BY <3>4, Same, Zenon
    <3>6. g[k] = flatten[k]
      <4> HIDE DEF flatten
      <4> QED
        BY <2>2
    <3>7. FirstOf(f, k) = FlattenSeq(s)
      BY DEF FirstOf
    <3> HIDE DEF flatten, g, s
    <3> QED
      BY <1>1, <3>1, <3>5, <3>6, <3>7
  <2> QED
    BY <2>1, <2>2
<1>5. PutTogether(c, f, k, S)
  BY <1>3, <1>4 DEF PutTogether
<1> QED
  BY <1>5

\* One more is put behind the others.
Extends(f, n, S) ==
    /\ FirstOf(f, 0) = <<>>
    /\ \A k \in 0 .. n : FirstOf(f, k) \in Seq(S)
    /\ \A k \in 0 .. n - 1 : FirstOf(f, k + 1) = FirstOf(f, k) \o f[k + 1]

\* The first k sequences, and one more behind them.
LEMMA FirstOfFacts ==
    ASSUME NEW S, NEW n \in Nat, NEW f, \A j \in 1 .. n : f[j] \in Seq(S)
    PROVE  Extends(f, n, S)
<1>1. ASSUME NEW k \in 0 .. n PROVE \E c : PutTogether(c, f, k, S)
  <2>1. k \in Nat /\ \A j \in 1 .. k : f[j] \in Seq(S)
    OBVIOUS
  <2> QED
    BY <2>1, PutTogetherFacts
<1>2. FirstOf(f, 0) = <<>>
  <2>1. PICK c : PutTogether(c, f, 0, S)
    BY <1>1
  <2> QED
    BY <2>1 DEF PutTogether
<1>3. ASSUME NEW k \in 0 .. n PROVE FirstOf(f, k) \in Seq(S)
  <2>1. PICK c : PutTogether(c, f, k, S)
    BY <1>1
  <2> QED
    BY <2>1 DEF PutTogether
<1>4. ASSUME NEW k \in 0 .. n - 1 PROVE FirstOf(f, k + 1) = FirstOf(f, k) \o f[k + 1]
  <2>0. k \in Nat /\ k \in 0 .. n /\ k + 1 \in 0 .. n
    OBVIOUS
  <2>1. PICK a : PutTogether(a, f, k, S)
    BY <1>1, <2>0
  <2>2. PICK b : PutTogether(b, f, k + 1, S)
    BY <1>1, <2>0
  <2> DEFINE c == [j \in 0 .. k |-> b[j]]
  <2>3. GoTogether(a, c, k)
    <3>1. a = [j \in 0 .. k |-> a[j]] /\ c = [j \in 0 .. k |-> c[j]] /\ a[0] = c[0]
      BY <2>1, <2>2 DEF PutTogether
    <3>2. ASSUME NEW j \in 1 .. k, a[j - 1] = c[j - 1] PROVE a[j] = c[j]
      <4>1. j \in 1 .. k + 1 /\ j - 1 \in 0 .. k /\ j \in 0 .. k
        BY <2>0
      <4>2. c[j] = b[j] /\ c[j - 1] = b[j - 1]
        BY <4>1
      <4> HIDE DEF c
      <4>3. a[j] = a[j - 1] \o f[j] /\ b[j] = b[j - 1] \o f[j]
        BY <2>1, <2>2, <4>1 DEF PutTogether
      <4> QED
        BY <3>2, <4>2, <4>3
    <3> HIDE DEF c
    <3> QED
      BY <3>1, <3>2 DEF GoTogether
  <2>4. a = c
    <3> HIDE DEF c
    <3> QED
      BY <2>0, <2>3, Same, Zenon
  <2>5. a[k] = b[k]
    BY <2>0, <2>4
  <2>6. b[k + 1] = b[k] \o f[k + 1]
    <3>1. k + 1 \in 1 .. k + 1 /\ (k + 1) - 1 = k
      BY <2>0
    <3>2. b[k + 1] = b[(k + 1) - 1] \o f[k + 1]
      BY <2>2, <3>1 DEF PutTogether
    <3> QED
      BY <3>1, <3>2
  <2> QED
    BY <2>1, <2>2, <2>5, <2>6 DEF PutTogether
<1> QED
  BY <1>2, <1>3, <1>4 DEF Extends

-----------------------------------------------------------------------------
(* Sequences put together of pieces.                                       *)

\* A sequence of sequences is its pieces put together.
LEMMA FlattenAll ==
    ASSUME NEW S, NEW s \in Seq(Seq(S))
    PROVE  FlattenSeq(s) = FirstOf(s, Len(s)) /\ FlattenSeq(s) \in Seq(S) /\ Extends(s, Len(s), S)
<1>1. Len(s) \in Nat /\ s = [j \in 1 .. Len(s) |-> s[j]] /\ \A j \in 1 .. Len(s) : s[j] \in Seq(S)
  OBVIOUS
<1>2. Extends(s, Len(s), S)
  BY <1>1, FirstOfFacts
<1>3. FlattenSeq(s) = FirstOf(s, Len(s))
  BY <1>1 DEF FirstOf
<1> QED
  BY <1>1, <1>2, <1>3 DEF Extends

\* Nothing put together, and one piece.
LEMMA FlattenFew ==
    /\ FlattenSeq(<<>>) = <<>>
    /\ \A S : \A x \in Seq(S) : FlattenSeq(<<x>>) = x
<1>1. FlattenSeq(<<>>) = <<>>
  BY DEF FlattenSeq
<1>2. ASSUME NEW S, NEW x \in Seq(S) PROVE FlattenSeq(<<x>>) = x
  <2>1. <<x>> \in Seq(Seq(S)) /\ Len(<<x>>) = 1 /\ <<x>>[1] = x
    OBVIOUS
  <2>2. FlattenSeq(<<x>>) = FirstOf(<<x>>, 1) /\ Extends(<<x>>, 1, S)
    BY <2>1, FlattenAll
  <2>3. 0 \in 0 .. 1 - 1 /\ 0 + 1 = 1
    OBVIOUS
  <2>4. FirstOf(<<x>>, 0 + 1) = FirstOf(<<x>>, 0) \o <<x>>[0 + 1] /\ FirstOf(<<x>>, 0) = <<>>
    BY <2>2, <2>3 DEF Extends
  <2>5. <<>> \o x = x
    OBVIOUS
  <2> QED
    BY <2>1, <2>2, <2>3, <2>4, <2>5
<1> QED
  BY <1>1, <1>2

\* Two that have the same pieces are the same put together.
LEMMA SameFirst ==
    ASSUME NEW k \in Nat, NEW f, NEW g, \A j \in 1 .. k : f[j] = g[j]
    PROVE  FirstOf(f, k) = FirstOf(g, k)
<1>1. [j \in 1 .. k |-> f[j]] = [j \in 1 .. k |-> g[j]]
  OBVIOUS
<1> QED
  BY <1>1 DEF FirstOf

\* The pieces from the a-th on up to the b-th.
Between(f, a, b) == FirstOf([j \in 1 .. b - a |-> f[a + j]], b - a)

\* Sequences put together are the first of them and then the rest.
LEMMA Split ==
    ASSUME NEW S, NEW n \in Nat, NEW f, \A j \in 1 .. n : f[j] \in Seq(S),
           NEW a \in 0 .. n, NEW b \in a .. n
    PROVE  /\ FirstOf(f, b) = FirstOf(f, a) \o Between(f, a, b)
           /\ Between(f, a, b) \in Seq(S)
<1> DEFINE m == b - a
           g == [j \in 1 .. m |-> f[a + j]]
           T == {j \in 0 .. m : FirstOf(f, a + j) = FirstOf(f, a) \o FirstOf(g, j)}
<1>1. m \in Nat /\ a \in Nat /\ a + m = b
  OBVIOUS
<1>2. \A j \in 1 .. m : a + j \in 1 .. n /\ g[j] = f[a + j] /\ g[j] \in Seq(S)
  OBVIOUS
<1>3. Extends(f, n, S)
  BY FirstOfFacts
<1> HIDE DEF g
<1>4. Extends(g, m, S)
  BY <1>1, <1>2, FirstOfFacts
<1> HIDE DEF m
<1>5. 0 \in T
  <2>1. FirstOf(g, 0) = <<>> /\ FirstOf(f, a) \in Seq(S) /\ a + 0 = a /\ 0 \in 0 .. m
    BY <1>1, <1>3, <1>4 DEF Extends
  <2>2. FirstOf(f, a) \o <<>> = FirstOf(f, a)
    BY <2>1
  <2> QED
    BY <2>1, <2>2
<1>6. ASSUME NEW j \in 0 .. m - 1, j \in T PROVE j + 1 \in T
  <2>1. a + j \in 0 .. n - 1 /\ j + 1 \in 1 .. m /\ a + (j + 1) = (a + j) + 1 /\ j + 1 \in 0 .. m /\ j \in 0 .. m
    BY <1>1
  <2>2. FirstOf(f, (a + j) + 1) = FirstOf(f, a + j) \o f[(a + j) + 1]
    BY <1>3, <2>1 DEF Extends
  <2>3. FirstOf(g, j + 1) = FirstOf(g, j) \o g[j + 1] /\ FirstOf(g, j) \in Seq(S)
    BY <1>4, <2>1 DEF Extends
  <2>4. g[j + 1] = f[(a + j) + 1] /\ g[j + 1] \in Seq(S)
    BY <1>2, <2>1
  <2>5. FirstOf(f, a) \in Seq(S)
    BY <1>3 DEF Extends
  <2>6. \A x, y, z \in Seq(S) : (x \o y) \o z = x \o (y \o z)
    OBVIOUS
  <2>7. FirstOf(f, a + j) = FirstOf(f, a) \o FirstOf(g, j)
    BY <1>6
  <2>8. (FirstOf(f, a) \o FirstOf(g, j)) \o g[j + 1] = FirstOf(f, a) \o (FirstOf(g, j) \o g[j + 1])
    BY <2>3, <2>4, <2>5, <2>6
  <2>9. FirstOf(f, a + (j + 1)) = FirstOf(f, a) \o FirstOf(g, j + 1)
    BY <2>1, <2>2, <2>3, <2>4, <2>7, <2>8, Zenon
  <2> QED
    BY <2>1, <2>9
<1>7. 0 .. m \subseteq T
  <2> HIDE DEF T
  <2> QED
    BY <1>1, <1>5, <1>6, UpTo
<1>8. m \in T
  BY <1>1, <1>7
<1>9. FirstOf(g, m) \in Seq(S)
  BY <1>1, <1>4 DEF Extends
<1>10. Between(f, a, b) = FirstOf(g, m)
  BY DEF Between, g, m
<1> QED
  BY <1>1, <1>8, <1>9, <1>10

\* Where a piece stands, and in which piece what stands somewhere.
Arranged(f, n) ==
    /\ \A k \in 1 .. n : \A o \in 1 .. Len(f[k]) :
           /\ Len(FirstOf(f, k - 1)) + o \in 1 .. Len(FirstOf(f, n))
           /\ FirstOf(f, n)[Len(FirstOf(f, k - 1)) + o] = f[k][o]
    /\ \A p \in 1 .. Len(FirstOf(f, n)) :
           \E k \in 1 .. n : \E o \in 1 .. Len(f[k]) : p = Len(FirstOf(f, k - 1)) + o

\* Each element of sequences put together stands at its place in one of them.
LEMMA Pieces ==
    ASSUME NEW S, NEW n \in Nat, NEW f, \A j \in 1 .. n : f[j] \in Seq(S)
    PROVE  Arranged(f, n)
<1> DEFINE L(k) == Len(FirstOf(f, k))
           Placed(m) == \A k \in 1 .. m : \A o \in 1 .. Len(f[k]) :
                  /\ Len(FirstOf(f, k - 1)) + o \in 1 .. Len(FirstOf(f, m))
                  /\ FirstOf(f, m)[Len(FirstOf(f, k - 1)) + o] = f[k][o]
           Covered(m) == \A p \in 1 .. Len(FirstOf(f, m)) :
                  \E k \in 1 .. m : \E o \in 1 .. Len(f[k]) : p = Len(FirstOf(f, k - 1)) + o
           T == {m \in 0 .. n : Placed(m) /\ Covered(m)}
<1>1. Extends(f, n, S)
  BY FirstOfFacts
<1>2. 0 \in T
  BY <1>1 DEF Extends
<1>3. ASSUME NEW m \in 0 .. n - 1, m \in T PROVE m + 1 \in T
  <2> DEFINE x == FirstOf(f, m)
             y == f[m + 1]
             z == FirstOf(f, m + 1)
  <2>1. x \in Seq(S) /\ y \in Seq(S) /\ z = x \o y /\ m \in Nat /\ m + 1 \in 1 .. n /\ (m + 1) - 1 = m
    BY <1>1 DEF Extends
  <2>2. Placed(m) /\ Covered(m)
    BY <1>3
  <2>3. /\ Len(z) = Len(x) + Len(y) /\ Len(x) \in Nat /\ Len(y) \in Nat
        /\ \A i \in 1 .. Len(x) : z[i] = x[i]
        /\ \A i \in 1 .. Len(y) : z[Len(x) + i] = y[i]
    BY <2>1
  <2>4. Placed(m + 1)
    <3> SUFFICES ASSUME NEW k \in 1 .. m + 1, NEW o \in 1 .. Len(f[k])
                 PROVE  /\ Len(FirstOf(f, k - 1)) + o \in 1 .. Len(z)
                        /\ z[Len(FirstOf(f, k - 1)) + o] = f[k][o]
      OBVIOUS
    <3>1. CASE k = m + 1
      <4>1. FirstOf(f, k - 1) = x /\ f[k] = y
        BY <2>1, <3>1
      <4> HIDE DEF x, y, z
      <4> QED
        BY <2>3, <4>1
    <3>2. CASE k # m + 1
      <4>1. k \in 1 .. m
        BY <2>1, <3>2
      <4>2. Len(FirstOf(f, k - 1)) + o \in 1 .. Len(x) /\ x[Len(FirstOf(f, k - 1)) + o] = f[k][o]
        BY <2>2, <4>1
      <4> HIDE DEF x, y, z
      <4> QED
        BY <2>3, <4>2
    <3> QED
      BY <3>1, <3>2
  <2>5. Covered(m + 1)
    <3> SUFFICES ASSUME NEW p \in 1 .. Len(z)
                 PROVE  \E k \in 1 .. m + 1 : \E o \in 1 .. Len(f[k]) : p = Len(FirstOf(f, k - 1)) + o
      OBVIOUS
    <3>1. CASE p \in 1 .. Len(x)
      <4>1. PICK k \in 1 .. m : \E o \in 1 .. Len(f[k]) : p = Len(FirstOf(f, k - 1)) + o
        BY <2>2, <3>1
      <4>2. k \in 1 .. m + 1
        BY <2>1
      <4> QED
        BY <4>1, <4>2
    <3>2. CASE p \notin 1 .. Len(x)
      <4> HIDE DEF x, y, z
      <4>1. p - Len(x) \in 1 .. Len(y) /\ p = Len(x) + (p - Len(x))
        BY <2>3, <3>2
      <4>2. f[m + 1] = y /\ FirstOf(f, (m + 1) - 1) = x
        BY <2>1 DEF x, y
      <4>3. m + 1 \in 1 .. m + 1
        BY <2>1
      <4>4. \E o \in 1 .. Len(f[m + 1]) : p = Len(FirstOf(f, (m + 1) - 1)) + o
        BY <4>1, <4>2
      <4> QED
        BY <4>3, <4>4
    <3> QED
      BY <3>1, <3>2
  <2> QED
    BY <2>1, <2>4, <2>5
<1>4. 0 .. n \subseteq T
  <2> HIDE DEF T
  <2> QED
    BY <1>2, <1>3, UpTo
<1>5. n \in T
  <2>1. n \in 0 .. n
    OBVIOUS
  <2> QED
    BY <1>4, <2>1, Zenon
<1>6. Placed(n) /\ Covered(n)
  BY <1>5, Zenon
<1> QED
  BY <1>6, Zenon DEF Arranged

\* Multiples grow with what is multiplied.
LEMMA Multiples ==
    ASSUME NEW a \in Nat, NEW b \in Nat, NEW m \in Nat
    PROVE  /\ a * m \in Nat /\ (a + 1) * m = a * m + m
           /\ a <= b => a * m <= b * m
OBVIOUS

\* What a division leaves.
LEMMA Remains ==
    ASSUME NEW m \in Nat \ {0}, NEW x \in Nat
    PROVE  /\ x \div m \in Nat /\ x % m \in 0 .. m - 1
           /\ (x % m) + (x \div m) * m = x
OBVIOUS

\* Sequences with the same elements are the same.
LEMMA SameElements ==
    ASSUME NEW S, NEW s \in Seq(S), NEW t \in Seq(S), Len(s) = Len(t),
           \A j \in 1 .. Len(t) : s[j] = t[j]
    PROVE  s = t
<1>1. s = [j \in 1 .. Len(s) |-> s[j]] /\ t = [j \in 1 .. Len(t) |-> t[j]]
  OBVIOUS
<1>2. [j \in 1 .. Len(s) |-> s[j]] = [j \in 1 .. Len(t) |-> t[j]]
  OBVIOUS
<1> QED
  BY <1>1, <1>2

\* A part of a sequence.
LEMMA PartOf ==
    ASSUME NEW S, NEW x \in Seq(S), NEW a \in 0 .. Len(x), NEW b \in a .. Len(x)
    PROVE  /\ SubSeq(x, a + 1, b) = [j \in 1 .. b - a |-> x[a + j]]
           /\ SubSeq(x, a + 1, b) \in Seq(S) /\ Len(SubSeq(x, a + 1, b)) = b - a
           /\ \A j \in 1 .. b - a : a + j \in 1 .. Len(x)
<1>1. a \in Nat /\ b \in Nat /\ Len(x) \in Nat /\ b - a \in Nat
  OBVIOUS
<1>2. SubSeq(x, a + 1, b) \in Seq(S) /\ Len(SubSeq(x, a + 1, b)) = b - a
  BY <1>1
<1>3. \A j \in 1 .. b - a : SubSeq(x, a + 1, b)[j] = x[a + j] /\ a + j \in 1 .. Len(x)
  BY <1>1
<1> DEFINE s == SubSeq(x, a + 1, b)
<1>4. s = [j \in 1 .. Len(s) |-> s[j]]
  BY <1>2
<1> HIDE DEF s
<1>5. s = [j \in 1 .. b - a |-> x[a + j]]
  BY <1>2, <1>3, <1>4 DEF s
<1> QED
  BY <1>2, <1>3, <1>5 DEF s

\* A function on the first numbers is a sequence.
LEMMA IsSequence ==
    ASSUME NEW S, NEW c \in Nat, NEW y \in [1 .. c -> S]
    PROVE  y \in Seq(S) /\ Len(y) = c
OBVIOUS

\* The elements of a sequence.
LEMMA Elements ==
    ASSUME NEW S, NEW s \in Seq(S)
    PROVE  \A i \in 1 .. Len(s) : s[i] \in S
OBVIOUS

\* Nothing put together of nothing.
LEMMA NothingThere ==
    ASSUME NEW n \in Nat, NEW f, \A j \in 1 .. n : f[j] = <<>>
    PROVE  FirstOf(f, n) = <<>>
<1> DEFINE T == {k \in 0 .. n : FirstOf(f, k) = <<>>}
<1>1. Extends(f, n, Nat)
  <2>1. \A j \in 1 .. n : f[j] \in Seq(Nat)
    <3>1. <<>> \in Seq(Nat)
      OBVIOUS
    <3> QED
      BY <3>1, Zenon
  <2> QED
    BY <2>1, FirstOfFacts
<1>2. 0 \in T
  BY <1>1 DEF Extends
<1>3. ASSUME NEW k \in 0 .. n - 1, k \in T PROVE k + 1 \in T
  <2>1. k + 1 \in 1 .. n /\ k + 1 \in 0 .. n
    OBVIOUS
  <2>2. FirstOf(f, k + 1) = FirstOf(f, k) \o f[k + 1]
    BY <1>1 DEF Extends
  <2>3. FirstOf(f, k) = <<>> /\ f[k + 1] = <<>>
    BY <1>3, <2>1
  <2>4. <<>> \o <<>> = <<>>
    OBVIOUS
  <2> QED
    BY <2>1, <2>2, <2>3, <2>4
<1>4. 0 .. n \subseteq T
  <2> HIDE DEF T
  <2> QED
    BY <1>2, <1>3, UpTo
<1>5. n \in 0 .. n
  OBVIOUS
<1> QED
  BY <1>4, <1>5
=============================================================================
