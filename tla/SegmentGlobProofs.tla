-------------------------- MODULE SegmentGlobProofs --------------------------
(***************************************************************************)
(* Proofs about SegmentGlob, for every pattern and every value of any      *)
(* length.                                                                 *)
(***************************************************************************)
EXTENDS SegmentGlob, WellFoundedInduction, TLAPS

-----------------------------------------------------------------------------
(* Sequences *)

\* A sequence is a function on its positions.
LEMMA SeqTyped ==
  ASSUME NEW S, NEW q \in Seq(S)
  PROVE  Len(q) \in Nat /\ q \in [1..Len(q) -> S] /\ DOMAIN q = 1..Len(q)
OBVIOUS

\* What a sequence holds.
LEMMA SeqElement ==
  ASSUME NEW S, NEW q \in Seq(S), NEW k \in 1..Len(q)
  PROVE  q[k] \in S
OBVIOUS

\* Sequences with the same elements are the same.
LEMMA SameSeq ==
  ASSUME NEW S, NEW q \in Seq(S), NEW r \in Seq(S), Len(q) = Len(r),
         \A k \in 1..Len(q) : q[k] = r[k]
  PROVE  q = r
OBVIOUS

\* A sequence with one more element.
LEMMA LongerSeq ==
  ASSUME NEW S, NEW q \in Seq(S), NEW e \in S
  PROVE  /\ Append(q, e) \in Seq(S) /\ Len(Append(q, e)) = Len(q) + 1
         /\ \A k \in 1..Len(q) : Append(q, e)[k] = q[k]
         /\ Append(q, e)[Len(q) + 1] = e
OBVIOUS

\* A part of a sequence.
LEMMA PartOfSeq ==
  ASSUME NEW S, NEW q \in Seq(S), NEW m \in Nat, NEW n \in Nat, \A k \in m..n : q[k] \in S
  PROVE  /\ SubSeq(q, m, n) \in Seq(S)
         /\ Len(SubSeq(q, m, n)) = IF m <= n THEN n - m + 1 ELSE 0
         /\ \A k \in 1 .. n - m + 1 : SubSeq(q, m, n)[k] = q[m + k - 1]
OBVIOUS

\* A part that ends before it begins is empty.
LEMMA NoPart ==
  ASSUME NEW q, NEW m \in Int, NEW n \in Int, n < m
  PROVE  SubSeq(q, m, n) = <<>>
OBVIOUS

-----------------------------------------------------------------------------
(* Least and greatest elements *)

\* A set of positions has a least one.
LEMMA LeastPosition ==
  ASSUME NEW T \in SUBSET Nat, T # {}
  PROVE  \E m \in T : \A j \in T : m <= j
<1> DEFINE Less == {ss \in Nat \X Nat : ss[1] < ss[2]}
<1>1. IsWellFoundedOn(Less, Nat)
  BY NatLessThanWellFounded, Zenon DEF OpToRel
<1>2. \A k, j \in T : ~(<<j, k>> \in Less) => k <= j
  OBVIOUS
<1> HIDE DEF Less
<1>3. \E m \in T : \A j \in T : ~(<<j, m>> \in Less)
  BY <1>1, WFMin, Zenon
<1>. QED  BY <1>2, <1>3, Zenon

\* Min picks the least position of a set.
LEMMA MinIsLeast ==
  ASSUME NEW T \in SUBSET Nat, T # {}
  PROVE  Min(T) \in T /\ \A j \in T : Min(T) <= j
BY LeastPosition, Zenon DEF Min

\* Max picks the greatest position of a bounded set.
LEMMA MaxIsGreatest ==
  ASSUME NEW n \in Nat, NEW T \in SUBSET (0..n), T # {}
  PROVE  Max(T) \in T /\ \A j \in T : j <= Max(T)
<1> DEFINE U == {k \in Nat : \E j \in T : k + j = n}
<1>1. U \in SUBSET Nat
  BY Zenon
<1>2. PICK t \in T : TRUE
  BY Zenon
<1>3. n - t \in U
  BY <1>2
<1>4. PICK m \in U : \A k \in U : m <= k
  <2> HIDE DEF U
  <2>. QED  BY <1>1, <1>3, LeastPosition, Zenon
<1>5. PICK g \in T : m + g = n
  BY <1>4, Zenon
<1>6. \A j \in T : j <= g
  <2> TAKE j \in T
  <2>1. n - j \in U
    OBVIOUS
  <2>2. m <= n - j
    BY <1>4, <2>1, Zenon
  <2>. QED  BY <2>2, <1>5
<1>7. \A j \in T : g >= j
  BY <1>6, Zenon
<1>8. \E x \in T : \A y \in T : x >= y
  BY <1>7, Zenon
<1>9. Max(T) \in T /\ \A j \in T : Max(T) >= j
  BY <1>8, Zenon DEF Max
<1>. QED  BY <1>9, Zenon

-----------------------------------------------------------------------------
(* Laying the rest of a pattern on the rest of a value *)

\* f[j] is where the first j characters of p end in v, for j from a on.
Layout(p, v, a, f) ==
  /\ f \in [a..Len(p) -> 0..Len(v)]
  /\ f[Len(p)] = Len(v)
  /\ \A j \in a + 1 .. Len(p) :
       IF p[j] = Star THEN f[j - 1] <= f[j]
       ELSE f[j] = f[j - 1] + 1 /\ v[f[j]] = p[j]

\* What follows position a of p stands for what follows offset x of v.
Rest(p, v, a, x) == \E f : Layout(p, v, a, f) /\ f[a] = x

\* The characters of p between two positions lie in v from offset x on.
LiesAt(p, v, a, b, x) ==
  /\ x + (b - a) <= Len(v)
  /\ \A j \in a + 1 .. b : v[x + (j - a)] = p[j]

AllStars(p, a, b) == \A j \in a + 1 .. b : p[j] = Star
NoStars(p, a, b) == \A j \in a + 1 .. b : p[j] # Star

\* A layout never goes back.
LEMMA InOrder ==
  ASSUME NEW p \in Seq(Chars), NEW v \in Seq(Chars), NEW a \in Nat, NEW f, Layout(p, v, a, f),
         NEW b \in a..Len(p), NEW c \in b..Len(p)
  PROVE  f[b] <= f[c]
<1> DEFINE T == {k \in b..Len(p) : ~(f[b] <= f[k])}
<1>1. Len(p) \in Nat /\ Len(v) \in Nat
  OBVIOUS
<1>2. T \in SUBSET Nat
  BY <1>1
<1>3. SUFFICES ASSUME T # {} PROVE FALSE
  BY Zenon
<1>4. PICK m \in T : \A j \in T : m <= j
  <2> HIDE DEF T
  <2>. QED  BY <1>2, <1>3, LeastPosition, Zenon
<1>5. \A k \in a..Len(p) : f[k] \in 0..Len(v)
  BY Zenon DEF Layout
<1>6. m # b
  BY <1>1, <1>4, <1>5
<1>7. m - 1 \in b..Len(p) /\ m \in a + 1 .. Len(p)
  BY <1>1, <1>4, <1>6
<1>8. f[b] <= f[m - 1]
  BY <1>1, <1>4, <1>7
<1>9. f[m - 1] <= f[m]
  <2>1. f[m - 1] \in Nat /\ f[m] \in Nat
    BY <1>1, <1>5, <1>7
  <2>2. IF p[m] = Star THEN f[m - 1] <= f[m] ELSE f[m] = f[m - 1] + 1
    BY <1>7, Zenon DEF Layout
  <2>. QED  BY <2>1, <2>2
<1>10. f[b] \in Nat /\ f[m - 1] \in Nat /\ f[m] \in Nat
  BY <1>1, <1>5, <1>7
<1>11. ~(f[b] <= f[m])
  BY <1>4, Zenon
<1>. QED  BY <1>8, <1>9, <1>10, <1>11

\* In a run of letters a layout advances by one.
LEMMA RunTogether ==
  ASSUME NEW p \in Seq(Chars), NEW v \in Seq(Chars), NEW a \in Nat, NEW f, Layout(p, v, a, f),
         NEW b \in a..Len(p), NoStars(p, a, b), NEW c \in a..b
  PROVE  f[c] = f[a] + (c - a)
<1> DEFINE T == {k \in a..b : f[k] # f[a] + (k - a)}
<1>1. Len(p) \in Nat /\ Len(v) \in Nat
  OBVIOUS
<1>2. T \in SUBSET Nat
  BY <1>1
<1>3. SUFFICES ASSUME T # {} PROVE FALSE
  BY Zenon
<1>4. PICK m \in T : \A j \in T : m <= j
  <2> HIDE DEF T
  <2>. QED  BY <1>2, <1>3, LeastPosition, Zenon
<1>5. \A k \in a..Len(p) : f[k] \in 0..Len(v)
  BY Zenon DEF Layout
<1>6. m # a
  BY <1>1, <1>4, <1>5
<1>7. m - 1 \in a..b /\ m \in a + 1 .. b /\ m \in a + 1 .. Len(p)
  BY <1>1, <1>4, <1>6
<1>8. f[m - 1] = f[a] + (m - 1 - a)
  BY <1>1, <1>4, <1>7
<1>9. f[m] = f[m - 1] + 1
  BY <1>7, Zenon DEF Layout, NoStars
<1>10. f[a] \in Nat /\ m \in Nat
  BY <1>1, <1>5, <1>7
<1>11. f[m] # f[a] + (m - a)
  BY <1>4, Zenon
<1>. QED  BY <1>8, <1>9, <1>10, <1>11

\* What a layout does after a position is a layout from there.
LEMMA LaterLayout ==
  ASSUME NEW p \in Seq(Chars), NEW v \in Seq(Chars), NEW a \in Nat, NEW f, Layout(p, v, a, f),
         NEW b \in a..Len(p)
  PROVE  Rest(p, v, b, f[b])
<1> DEFINE g == [j \in b..Len(p) |-> f[j]]
<1>1. Len(p) \in Nat /\ Len(v) \in Nat
  OBVIOUS
<1>2. g \in [b..Len(p) -> 0..Len(v)]
  BY <1>1 DEF Layout
<1>3. g[Len(p)] = Len(v) /\ g[b] = f[b]
  BY <1>1 DEF Layout
<1>4. \A j \in b + 1 .. Len(p) : g[j] = f[j] /\ g[j - 1] = f[j - 1] /\ j \in a + 1 .. Len(p)
  BY <1>1
<1> HIDE DEF g
<1>5. Layout(p, v, b, g)
  BY <1>2, <1>3, <1>4, Zenon DEF Layout
<1>. QED  BY <1>3, <1>5, Zenon DEF Rest

\* After the last character of a pattern nothing of the value is left.
LEMMA RestEnd ==
  ASSUME NEW p \in Seq(Chars), NEW v \in Seq(Chars), NEW x
  PROVE  Rest(p, v, Len(p), x) <=> x = Len(v)
<1> DEFINE f == [j \in Len(p)..Len(p) |-> Len(v)]
<1>1. Len(p) \in Nat /\ Len(v) \in Nat
  OBVIOUS
<1>2. f \in [Len(p)..Len(p) -> 0..Len(v)] /\ f[Len(p)] = Len(v)
  BY <1>1
<1>3. \A j \in Len(p) + 1 .. Len(p) : FALSE
  BY <1>1
<1> HIDE DEF f
<1>4. Layout(p, v, Len(p), f)
  BY <1>2, <1>3, Zenon DEF Layout
<1>. QED  BY <1>2, <1>4, Zenon DEF Rest, Layout

\* An offset from which a pattern is laid is an offset of the value.
LEMMA RestInValue ==
  ASSUME NEW p \in Seq(Chars), NEW v \in Seq(Chars), NEW a \in 0..Len(p), NEW x, Rest(p, v, a, x)
  PROVE  x \in 0..Len(v)
<1>1. PICK f : Layout(p, v, a, f) /\ f[a] = x
  BY Zenon DEF Rest
<1>2. f \in [a..Len(p) -> 0..Len(v)]
  BY <1>1, Zenon DEF Layout
<1>3. a \in a..Len(p)
  OBVIOUS
<1>. QED  BY <1>1, <1>2, <1>3, Zenon

\* What is laid from a position on continues, further on, from a later offset.
LEMMA RestLater ==
  ASSUME NEW p \in Seq(Chars), NEW v \in Seq(Chars), NEW a \in 0..Len(p), NEW b \in a..Len(p),
         NEW x, Rest(p, v, a, x)
  PROVE  \E y \in 0..Len(v) : x <= y /\ Rest(p, v, b, y)
<1>1. PICK f : Layout(p, v, a, f) /\ f[a] = x
  BY Zenon DEF Rest
<1>2. a \in Nat /\ a \in a..Len(p)
  OBVIOUS
<1>3. f[a] <= f[b]
  BY <1>1, <1>2, InOrder, Zenon
<1>4. Rest(p, v, b, f[b])
  BY <1>1, <1>2, LaterLayout, Zenon
<1>5. f[b] \in 0..Len(v)
  BY <1>1, Zenon DEF Layout
<1>. QED  BY <1>1, <1>3, <1>4, <1>5, Zenon

\* A run of letters stands for itself.
LEMMA RestRun ==
  ASSUME NEW p \in Seq(Chars), NEW v \in Seq(Chars), NEW a \in 0..Len(p), NEW b \in a..Len(p),
         NoStars(p, a, b), NEW x \in 0..Len(v)
  PROVE  Rest(p, v, a, x) <=> LiesAt(p, v, a, b, x) /\ Rest(p, v, b, x + (b - a))
<1>1. Len(p) \in Nat /\ Len(v) \in Nat /\ a \in Nat
  OBVIOUS
<1>2. ASSUME Rest(p, v, a, x)
      PROVE  LiesAt(p, v, a, b, x) /\ Rest(p, v, b, x + (b - a))
  <2>1. PICK f : Layout(p, v, a, f) /\ f[a] = x
    BY <1>2, Zenon DEF Rest
  <2>2. \A c \in a..b : f[c] = x + (c - a)
    <3>1. ASSUME NEW c \in a..b
          PROVE  f[c] = f[a] + (c - a)
      BY <1>1, <2>1, RunTogether, SMT
    <3>. QED  BY <2>1, <3>1, Zenon
  <2>3. b \in a..b /\ \A j \in a + 1 .. b : j \in a..b /\ j \in a + 1 .. Len(p)
    BY <1>1
  <2>4. f[b] = x + (b - a)
    BY <2>2, <2>3, Zenon
  <2>5. \A j \in a + 1 .. b : v[x + (j - a)] = p[j]
    BY <2>1, <2>2, <2>3, Zenon DEF Layout, NoStars
  <2>6. f[b] \in 0..Len(v)
    BY <2>1, Zenon DEF Layout
  <2>7. Rest(p, v, b, f[b])
    BY <1>1, <2>1, LaterLayout, Zenon
  <2>8. x + (b - a) <= Len(v)
    BY <1>1, <2>4, <2>6
  <2>. QED  BY <2>4, <2>5, <2>7, <2>8, Zenon DEF LiesAt
<1>3. ASSUME LiesAt(p, v, a, b, x), Rest(p, v, b, x + (b - a))
      PROVE  Rest(p, v, a, x)
  <2>1. PICK g : Layout(p, v, b, g) /\ g[b] = x + (b - a)
    BY <1>3, Zenon DEF Rest
  <2> DEFINE f == [j \in a..Len(p) |-> IF j <= b THEN x + (j - a) ELSE g[j]]
  <2>2. \A j \in a..b : f[j] = x + (j - a)
    BY <1>1
  <2>3. \A j \in b..Len(p) : f[j] = g[j]
    BY <1>1, <2>1
  <2>4. f \in [a..Len(p) -> 0..Len(v)]
    <3>1. \A j \in a..b : x + (j - a) \in 0..Len(v)
      BY <1>1, <1>3 DEF LiesAt
    <3>2. \A j \in b..Len(p) : g[j] \in 0..Len(v)
      BY <2>1, Zenon DEF Layout
    <3>3. \A j \in a..Len(p) : (j <= b => j \in a..b) /\ (~(j <= b) => j \in b..Len(p))
      BY <1>1
    <3>. QED  BY <3>1, <3>2, <3>3, Zenon
  <2> HIDE DEF f
  <2>5. f[Len(p)] = Len(v)
    <3>1. Len(p) \in b..Len(p)
      BY <1>1
    <3>. QED  BY <2>1, <2>3, <3>1, Zenon DEF Layout
  <2>6. ASSUME NEW j \in a + 1 .. Len(p)
        PROVE  IF p[j] = Star THEN f[j - 1] <= f[j] ELSE f[j] = f[j - 1] + 1 /\ v[f[j]] = p[j]
    <3>1. CASE j <= b
      <4>1. j \in a + 1 .. b /\ j \in a..b /\ j - 1 \in a..b
        BY <1>1, <3>1
      <4>2. p[j] # Star
        BY <4>1, Zenon DEF NoStars
      <4>3. f[j] = x + (j - a) /\ f[j - 1] = x + (j - 1 - a)
        BY <2>2, <4>1, Zenon
      <4>4. v[x + (j - a)] = p[j]
        BY <1>3, <4>1, Zenon DEF LiesAt
      <4>5. x + (j - a) = x + (j - 1 - a) + 1
        BY <1>1, <4>1
      <4>. QED  BY <4>2, <4>3, <4>4, <4>5, Zenon
    <3>2. CASE ~(j <= b)
      <4>1. j \in b + 1 .. Len(p) /\ j \in b..Len(p) /\ j - 1 \in b..Len(p)
        BY <1>1, <3>2
      <4>2. f[j] = g[j] /\ f[j - 1] = g[j - 1]
        BY <2>3, <4>1, Zenon
      <4>. QED  BY <2>1, <4>1, <4>2, Zenon DEF Layout
    <3>. QED  BY <3>1, <3>2, Zenon
  <2>7. f[a] = x
    <3>1. a \in a..b /\ x + (a - a) = x
      BY <1>1
    <3>. QED  BY <2>2, <3>1, Zenon
  <2>8. Layout(p, v, a, f)
    BY <2>4, <2>5, <2>6, Zenon DEF Layout
  <2>. QED  BY <2>7, <2>8, Zenon DEF Rest
<1>. QED  BY <1>2, <1>3, Zenon

\* A run of wildcards stands for any word.
LEMMA RestStars ==
  ASSUME NEW p \in Seq(Chars), NEW v \in Seq(Chars), NEW a \in 0..Len(p), NEW b \in a..Len(p),
         a < b, AllStars(p, a, b), NEW x \in 0..Len(v)
  PROVE  Rest(p, v, a, x) <=> \E y \in 0..Len(v) : x <= y /\ Rest(p, v, b, y)
<1>1. Len(p) \in Nat /\ Len(v) \in Nat /\ a \in Nat /\ b \in Nat /\ x \in Nat
  OBVIOUS
<1>2. Rest(p, v, a, x) => \E y \in 0..Len(v) : x <= y /\ Rest(p, v, b, y)
  BY RestLater, Zenon
<1>3. ASSUME NEW y \in 0..Len(v), x <= y, Rest(p, v, b, y)
      PROVE  Rest(p, v, a, x)
  <2>1. PICK g : Layout(p, v, b, g) /\ g[b] = y
    BY <1>3, Zenon DEF Rest
  <2> DEFINE f == [j \in a..Len(p) |-> IF j = a THEN x ELSE IF j <= b THEN y ELSE g[j]]
  <2>2. f[a] = x /\ \A j \in a + 1 .. b : f[j] = y
    BY <1>1
  <2>3. \A j \in b..Len(p) : f[j] = g[j]
    BY <1>1, <2>1
  <2>4. f \in [a..Len(p) -> 0..Len(v)]
    <3>1. \A j \in b..Len(p) : g[j] \in 0..Len(v)
      BY <2>1, Zenon DEF Layout
    <3>2. \A j \in a..Len(p) : ~(j <= b) => j \in b..Len(p)
      BY <1>1
    <3>. QED  BY <3>1, <3>2, Zenon
  <2> HIDE DEF f
  <2>5. f[Len(p)] = Len(v)
    <3>1. Len(p) \in b..Len(p)
      BY <1>1
    <3>. QED  BY <2>1, <2>3, <3>1, Zenon DEF Layout
  <2>6. ASSUME NEW j \in a + 1 .. Len(p)
        PROVE  IF p[j] = Star THEN f[j - 1] <= f[j] ELSE f[j] = f[j - 1] + 1 /\ v[f[j]] = p[j]
    <3>1. CASE j <= b
      <4>1. j \in a + 1 .. b /\ (j = a + 1 \/ j - 1 \in a + 1 .. b)
        BY <1>1, <3>1
      <4>2. p[j] = Star
        BY <4>1, Zenon DEF AllStars
      <4>3. f[j] = y
        BY <2>2, <4>1, Zenon
      <4>4. f[j - 1] = x \/ f[j - 1] = y
        <5>1. CASE j = a + 1
          <6>1. j - 1 = a
            BY <1>1, <5>1
          <6>. QED  BY <2>2, <6>1, Zenon
        <5>2. CASE j - 1 \in a + 1 .. b
          BY <2>2, <5>2, Zenon
        <5>. QED  BY <4>1, <5>1, <5>2, Zenon
      <4>5. f[j - 1] <= f[j]
        BY <1>1, <1>3, <4>3, <4>4
      <4>. QED  BY <4>2, <4>5, Zenon
    <3>2. CASE ~(j <= b)
      <4>1. j \in b + 1 .. Len(p) /\ j \in b..Len(p) /\ j - 1 \in b..Len(p)
        BY <1>1, <3>2
      <4>2. f[j] = g[j] /\ f[j - 1] = g[j - 1]
        BY <2>3, <4>1, Zenon
      <4>. QED  BY <2>1, <4>1, <4>2, Zenon DEF Layout
    <3>. QED  BY <3>1, <3>2, Zenon
  <2>7. Layout(p, v, a, f)
    BY <2>4, <2>5, <2>6, Zenon DEF Layout
  <2>. QED  BY <2>2, <2>7, Zenon DEF Rest
<1>. QED  BY <1>2, <1>3, Zenon

\* Before a wildcard an earlier offset is as good as a later one: taking a literal
\* at its first place loses no match.
LEMMA RestEarlier ==
  ASSUME NEW p \in Seq(Chars), NEW v \in Seq(Chars), NEW a \in 0..Len(p), a < Len(p),
         p[a + 1] = Star, NEW x \in 0..Len(v), NEW y \in 0..Len(v), x <= y, Rest(p, v, a, y)
  PROVE  Rest(p, v, a, x)
<1>1. a + 1 \in a..Len(p) /\ a < a + 1
  OBVIOUS
<1>2. AllStars(p, a, a + 1)
  <2>1. \A j \in a + 1 .. a + 1 : j = a + 1
    OBVIOUS
  <2>. QED  BY <2>1, Zenon DEF AllStars
<1>3. PICK z \in 0..Len(v) : y <= z /\ Rest(p, v, a + 1, z)
  BY <1>1, RestLater, Zenon
<1>4. x <= z
  BY <1>3
<1>. QED  BY <1>1, <1>2, <1>3, <1>4, RestStars, Zenon

\* The letters that end a pattern end the value: what precedes them stays before.
LEMMA RestFits ==
  ASSUME NEW p \in Seq(Chars), NEW v \in Seq(Chars), NEW a \in 0..Len(p), NEW c \in a..Len(p),
         NoStars(p, c, Len(p)), NEW x, Rest(p, v, a, x)
  PROVE  /\ x <= Len(v) - (Len(p) - c)
         /\ LiesAt(p, v, c, Len(p), Len(v) - (Len(p) - c))
<1>1. PICK y \in 0..Len(v) : x <= y /\ Rest(p, v, c, y)
  BY RestLater, Zenon
<1>2. c \in 0..Len(p) /\ Len(p) \in c..Len(p) /\ c \in Nat /\ Len(p) \in Nat /\ Len(v) \in Nat
  OBVIOUS
<1>3. LiesAt(p, v, c, Len(p), y) /\ Rest(p, v, Len(p), y + (Len(p) - c))
  BY <1>1, <1>2, RestRun, Zenon
<1>4. y + (Len(p) - c) = Len(v)
  BY <1>3, RestEnd, ZenonT(60)
<1>5. x \in 0..Len(v)
  BY RestInValue, Zenon
<1>6. y = Len(v) - (Len(p) - c)
  BY <1>1, <1>2, <1>4
<1>. QED  BY <1>1, <1>3, <1>6, Zenon

-----------------------------------------------------------------------------
(* The meaning of a pattern is a layout of all of it *)

\* What EndOf computes, one character after the other.
LEMMA EndOfSteps ==
  ASSUME NEW p \in Seq(Chars), NEW v \in Seq(Chars), NEW w \in [Stars(p) -> 0..Len(v)]
  PROVE  /\ EndOf(p, w, 0) = 0
         /\ \A j \in 0..Len(p) : EndOf(p, w, j) \in Nat
         /\ \A j \in 1..Len(p) : p[j] = Star => EndOf(p, w, j) = w[j]
         /\ \A j \in 1..Len(p) : p[j] # Star => EndOf(p, w, j) = EndOf(p, w, j - 1) + 1
<1> DEFINE B(j) == {s \in Stars(p) : s <= j}
<1>1. Len(p) \in Nat /\ Len(v) \in Nat
  OBVIOUS
<1>2. ASSUME NEW j
      PROVE  EndOf(p, w, j) = IF B(j) = {} THEN j ELSE w[Max(B(j))] + (j - Max(B(j)))
  BY Zenon DEF EndOf
<1>3. ASSUME NEW j \in 0..Len(p)
      PROVE  B(j) \in SUBSET (0..j)
  BY <1>1 DEF Stars
<1>4. ASSUME NEW j \in 0..Len(p), B(j) # {}
      PROVE  Max(B(j)) \in B(j) /\ \A k \in B(j) : k <= Max(B(j))
  <2>1. j \in Nat
    BY <1>1
  <2> HIDE DEF B
  <2>. QED  BY <1>3, <1>4, <2>1, MaxIsGreatest, Zenon
<1>5. ASSUME NEW j \in 0..Len(p), B(j) # {}
      PROVE  w[Max(B(j))] \in Nat /\ Max(B(j)) \in 0..j
  <2>1. Max(B(j)) \in Stars(p) /\ Max(B(j)) \in 0..j
    <3>1. Max(B(j)) \in B(j)
      BY <1>4, <1>5, Zenon
    <3>. QED  BY <1>3, <3>1, Zenon
  <2>. QED  BY <1>1, <2>1
<1>6. EndOf(p, w, 0) = 0
  <2>1. B(0) = {}
    BY <1>1 DEF Stars
  <2>. QED  BY <1>2, <2>1, Zenon
<1>7. ASSUME NEW j \in 0..Len(p)
      PROVE  EndOf(p, w, j) \in Nat
  <2> HIDE DEF B
  <2>1. CASE B(j) = {}
    BY <1>1, <1>2, <2>1
  <2>2. CASE B(j) # {}
    <3>1. w[Max(B(j))] \in Nat /\ Max(B(j)) \in 0..j
      BY <1>5, <2>2, Zenon
    <3>. QED  BY <1>1, <1>2, <2>2, <3>1
  <2>. QED  BY <2>1, <2>2, Zenon
<1>8. ASSUME NEW j \in 1..Len(p), p[j] = Star
      PROVE  EndOf(p, w, j) = w[j]
  <2>1. j \in B(j) /\ j \in 0..Len(p)
    BY <1>1, <1>8 DEF Stars
  <2>2. Max(B(j)) \in 0..j /\ w[Max(B(j))] \in Nat
    BY <1>5, <2>1, Zenon
  <2>3. j <= Max(B(j))
    BY <1>4, <2>1, Zenon
  <2>4. Max(B(j)) = j
    BY <2>2, <2>3
  <2> HIDE DEF B
  <2>. QED  BY <1>2, <2>1, <2>2, <2>4
<1>9. ASSUME NEW j \in 1..Len(p), p[j] # Star
      PROVE  EndOf(p, w, j) = EndOf(p, w, j - 1) + 1
  <2>1. B(j) = B(j - 1)
    BY <1>1, <1>9 DEF Stars
  <2>2. j - 1 \in 0..Len(p) /\ j \in 0..Len(p) /\ j \in Nat
    BY <1>1
  <2> HIDE DEF B
  <2>3. CASE B(j) = {}
    BY <1>2, <2>1, <2>2, <2>3
  <2>4. CASE B(j) # {}
    <3>1. w[Max(B(j))] \in Nat /\ Max(B(j)) \in 0..j
      BY <1>5, <2>2, <2>4, Zenon
    <3>2. EndOf(p, w, j) = w[Max(B(j))] + (j - Max(B(j)))
      BY <1>2, <2>4, Zenon
    <3>3. EndOf(p, w, j - 1) = w[Max(B(j))] + (j - 1 - Max(B(j)))
      BY <1>2, <2>1, <2>4, Zenon
    <3>. QED  BY <2>2, <3>1, <3>2, <3>3
  <2>. QED  BY <2>3, <2>4, Zenon
<1>. QED  BY <1>6, <1>7, <1>8, <1>9, Zenon

\* A choice of a word for every wildcard is a layout of the whole pattern.
LEMMA MeansIsRest ==
  ASSUME NEW p \in Seq(Chars), NEW v \in Seq(Chars)
  PROVE  Means(p, v) <=> Rest(p, v, 0, 0)
<1>1. Len(p) \in Nat /\ Len(v) \in Nat
  OBVIOUS
<1>2. ASSUME Means(p, v)
      PROVE  Rest(p, v, 0, 0)
  <2>1. PICK w \in [Stars(p) -> 0..Len(v)] :
          /\ EndOf(p, w, Len(p)) = Len(v)
          /\ \A j \in 1..Len(p) :
               IF p[j] = Star THEN EndOf(p, w, j - 1) <= w[j]
               ELSE EndOf(p, w, j) <= Len(v) /\ v[EndOf(p, w, j)] = p[j]
    BY <1>2, Zenon DEF Means
  <2> DEFINE f == [j \in 0..Len(p) |-> EndOf(p, w, j)]
  <2>2. \A j \in 0..Len(p) : f[j] = EndOf(p, w, j)
    BY Zenon
  <2>3. \A j \in 1..Len(p) : f[j] = EndOf(p, w, j) /\ f[j - 1] = EndOf(p, w, j - 1)
    BY <1>1
  <2>4. f \in [0..Len(p) -> 0..Len(v)]
    <3>1. ASSUME NEW j \in 0..Len(p)
          PROVE  EndOf(p, w, j) \in 0..Len(v)
      <4>1. EndOf(p, w, j) \in Nat
        BY EndOfSteps, Zenon
      <4>2. CASE j = 0
        BY <1>1, <4>2, EndOfSteps
      <4>3. CASE j # 0 /\ p[j] = Star
        <5>1. j \in 1..Len(p) /\ j \in Stars(p)
          BY <1>1, <4>3 DEF Stars
        <5>2. EndOf(p, w, j) = w[j]
          BY <4>3, <5>1, EndOfSteps, Zenon
        <5>. QED  BY <5>1, <5>2, Zenon
      <4>4. CASE j # 0 /\ p[j] # Star
        <5>1. j \in 1..Len(p)
          BY <1>1, <4>4
        <5>2. EndOf(p, w, j) <= Len(v)
          BY <2>1, <4>4, <5>1, Zenon
        <5>. QED  BY <1>1, <4>1, <5>2
      <4>. QED  BY <4>2, <4>3, <4>4, Zenon
    <3>. QED  BY <3>1, Zenon
  <2> HIDE DEF f
  <2>5. f[0] = 0 /\ f[Len(p)] = Len(v)
    <3>1. 0 \in 0..Len(p) /\ Len(p) \in 0..Len(p)
      BY <1>1
    <3>. QED  BY <2>1, <2>2, <3>1, EndOfSteps, Zenon
  <2>6. ASSUME NEW j \in 0 + 1 .. Len(p)
        PROVE  IF p[j] = Star THEN f[j - 1] <= f[j] ELSE f[j] = f[j - 1] + 1 /\ v[f[j]] = p[j]
    <3>1. j \in 1..Len(p)
      BY <1>1
    <3>2. f[j] = EndOf(p, w, j) /\ f[j - 1] = EndOf(p, w, j - 1)
      BY <2>3, <3>1, Zenon
    <3>3. CASE p[j] = Star
      <4>1. EndOf(p, w, j) = w[j]
        BY <3>1, <3>3, EndOfSteps, Zenon
      <4>. QED  BY <2>1, <3>1, <3>2, <3>3, <4>1, Zenon
    <3>4. CASE p[j] # Star
      <4>1. EndOf(p, w, j) = EndOf(p, w, j - 1) + 1
        BY <3>1, <3>4, EndOfSteps, Zenon
      <4>. QED  BY <2>1, <3>1, <3>2, <3>4, <4>1, Zenon
    <3>. QED  BY <3>3, <3>4, Zenon
  <2>7. Layout(p, v, 0, f)
    BY <2>4, <2>5, <2>6, Zenon DEF Layout
  <2>. QED  BY <2>5, <2>7, Zenon DEF Rest
<1>3. ASSUME Rest(p, v, 0, 0)
      PROVE  Means(p, v)
  <2>1. PICK f : Layout(p, v, 0, f) /\ f[0] = 0
    BY <1>3, Zenon DEF Rest
  <2>2. f \in [0..Len(p) -> 0..Len(v)] /\ f[Len(p)] = Len(v)
    BY <2>1, Zenon DEF Layout
  <2>3. \A j \in 1..Len(p) : IF p[j] = Star THEN f[j - 1] <= f[j]
                             ELSE f[j] = f[j - 1] + 1 /\ v[f[j]] = p[j]
    BY <2>1 DEF Layout
  <2> DEFINE w == [s \in Stars(p) |-> f[s]]
  <2>4. w \in [Stars(p) -> 0..Len(v)] /\ \A s \in Stars(p) : w[s] = f[s]
    BY <1>1, <2>2 DEF Stars
  <2> HIDE DEF w
  <2> DEFINE T == {k \in 0..Len(p) : EndOf(p, w, k) # f[k]}
  <2>5. T = {}
    <3>1. SUFFICES ASSUME T # {} PROVE FALSE
      BY Zenon
    <3>2. T \in SUBSET Nat
      BY <1>1
    <3>3. PICK m \in T : \A j \in T : m <= j
      <4> HIDE DEF T
      <4>. QED  BY <3>1, <3>2, LeastPosition, Zenon
    <3>4. m # 0
      BY <2>1, <2>4, <3>3, EndOfSteps, Zenon
    <3>5. m \in 1..Len(p) /\ m - 1 \in 0..Len(p)
      BY <1>1, <3>3, <3>4
    <3>6. EndOf(p, w, m - 1) = f[m - 1]
      BY <1>1, <3>3, <3>5
    <3>7. CASE p[m] = Star
      <4>1. m \in Stars(p)
        BY <3>5, <3>7, Zenon DEF Stars
      <4>2. EndOf(p, w, m) = w[m]
        BY <2>4, <3>5, <3>7, EndOfSteps, Zenon
      <4>. QED  BY <2>4, <3>3, <4>1, <4>2, Zenon
    <3>8. CASE p[m] # Star
      <4>1. EndOf(p, w, m) = EndOf(p, w, m - 1) + 1
        BY <2>4, <3>5, <3>8, EndOfSteps, Zenon
      <4>2. f[m] = f[m - 1] + 1
        BY <2>3, <3>5, <3>8, Zenon
      <4>. QED  BY <3>3, <3>6, <4>1, <4>2, Zenon
    <3>. QED  BY <3>7, <3>8, Zenon
  <2>6. \A k \in 0..Len(p) : EndOf(p, w, k) = f[k]
    BY <2>5, Zenon
  <2>7. \A j \in 1..Len(p) : j \in 0..Len(p) /\ j - 1 \in 0..Len(p)
    BY <1>1
  <2>8. EndOf(p, w, Len(p)) = Len(v)
    BY <1>1, <2>2, <2>6
  <2>9. ASSUME NEW j \in 1..Len(p)
        PROVE  IF p[j] = Star THEN EndOf(p, w, j - 1) <= w[j]
               ELSE EndOf(p, w, j) <= Len(v) /\ v[EndOf(p, w, j)] = p[j]
    <3>1. EndOf(p, w, j) = f[j] /\ EndOf(p, w, j - 1) = f[j - 1]
      BY <2>6, <2>7, Zenon
    <3>2. CASE p[j] = Star
      <4>1. j \in Stars(p)
        BY <3>2, Zenon DEF Stars
      <4>. QED  BY <2>3, <2>4, <3>1, <3>2, <4>1, Zenon
    <3>3. CASE p[j] # Star
      <4>1. f[j] <= Len(v)
        BY <1>1, <2>2, <2>7
      <4>. QED  BY <2>3, <3>1, <3>3, <4>1, Zenon
    <3>. QED  BY <3>2, <3>3, Zenon
  <2>. QED  BY <2>4, <2>8, <2>9, Zenon DEF Means
<1>. QED  BY <1>2, <1>3, Zenon

-----------------------------------------------------------------------------
(* Wildcards followed by a literal *)

\* Wildcards, then letters to the end: the letters end the value.
LEMMA RestTail ==
  ASSUME NEW p \in Seq(Chars), NEW v \in Seq(Chars), NEW a \in 0..Len(p), NEW c \in a..Len(p),
         a < c, AllStars(p, a, c), NoStars(p, c, Len(p)), NEW x \in 0..Len(v)
  PROVE  Rest(p, v, a, x) <=> /\ x <= Len(v) - (Len(p) - c)
                              /\ LiesAt(p, v, c, Len(p), Len(v) - (Len(p) - c))
<1> DEFINE e == Len(v) - (Len(p) - c)
<1>1. Len(p) \in Nat /\ Len(v) \in Nat /\ x \in Nat
  OBVIOUS
<1>2. c \in 0..Len(p) /\ Len(p) \in c..Len(p)
  BY <1>1
<1>3. ASSUME NEW y \in 0..Len(v)
      PROVE  Rest(p, v, c, y) <=> LiesAt(p, v, c, Len(p), y) /\ y = e
  <2>1. Rest(p, v, c, y) <=> LiesAt(p, v, c, Len(p), y) /\ Rest(p, v, Len(p), y + (Len(p) - c))
    BY <1>2, RestRun, Zenon
  <2>2. Rest(p, v, Len(p), y + (Len(p) - c)) <=> y + (Len(p) - c) = Len(v)
    BY RestEnd, ZenonT(60)
  <2>3. y + (Len(p) - c) = Len(v) <=> y = e
    BY <1>1, <1>2
  <2>. QED  BY <2>1, <2>2, <2>3, Zenon
<1>4. Rest(p, v, a, x) <=> \E y \in 0..Len(v) : x <= y /\ Rest(p, v, c, y)
  BY RestStars, ZenonT(60)
<1>5. x <= e => e \in 0..Len(v)
  BY <1>1, <1>2
<1> HIDE DEF e
<1>6. Rest(p, v, a, x) <=> x <= e /\ LiesAt(p, v, c, Len(p), e)
  BY <1>3, <1>4, <1>5, Zenon
<1>. QED  BY <1>6, Zenon DEF e

\* Wildcards, then a literal, wherever it lies further on.
LEMMA RestLiteral ==
  ASSUME NEW p \in Seq(Chars), NEW v \in Seq(Chars), NEW a \in 0..Len(p), NEW b \in a..Len(p),
         NEW c \in b..Len(p), a < b, AllStars(p, a, b), NoStars(p, b, c), NEW x \in 0..Len(v)
  PROVE  Rest(p, v, a, x) <=>
           \E y \in 0..Len(v) : x <= y /\ LiesAt(p, v, b, c, y) /\ Rest(p, v, c, y + (c - b))
<1>1. b \in 0..Len(p)
  OBVIOUS
<1>2. \A y \in 0..Len(v) :
        Rest(p, v, b, y) <=> LiesAt(p, v, b, c, y) /\ Rest(p, v, c, y + (c - b))
  BY <1>1, RestRun, ZenonT(60)
<1>3. Rest(p, v, a, x) <=> \E y \in 0..Len(v) : x <= y /\ Rest(p, v, b, y)
  BY RestStars, ZenonT(60)
<1>. QED  BY <1>2, <1>3, Zenon

\* The offsets between x and h at which a literal fits.
Fits(p, v, b, c, x, h) == {y \in x..h : y + (c - b) <= h /\ LiesAt(p, v, b, c, y)}

\* One literal of the greedy search: without a place before the final letters
\* there is no match, and with one the first place decides nothing it should not.
LEMMA GreedyStep ==
  ASSUME NEW p \in Seq(Chars), NEW v \in Seq(Chars), NEW a \in 0..Len(p), NEW b \in a..Len(p),
         NEW c \in b..Len(p), NEW s \in c..Len(p), a < b, AllStars(p, a, b), NoStars(p, b, c),
         NoStars(p, s, Len(p)), c < Len(p), p[c + 1] = Star, NEW x \in 0..Len(v),
         NEW h \in 0..Len(v), h = Len(v) - (Len(p) - s)
  PROVE  /\ Fits(p, v, b, c, x, h) = {} => ~Rest(p, v, a, x)
         /\ \A y \in Fits(p, v, b, c, x, h) :
              (\A z \in Fits(p, v, b, c, x, h) : y <= z)
                => (Rest(p, v, a, x) <=> Rest(p, v, c, y + (c - b)))
<1> DEFINE F == Fits(p, v, b, c, x, h)
<1>1. /\ Len(p) \in Nat /\ Len(v) \in Nat /\ x \in Nat /\ h \in Nat
      /\ b \in Nat /\ c \in Nat /\ b <= c /\ c \in 0..Len(p)
  OBVIOUS
<1>2. Rest(p, v, a, x) <=>
        \E y \in 0..Len(v) : x <= y /\ LiesAt(p, v, b, c, y) /\ Rest(p, v, c, y + (c - b))
  BY RestLiteral, Zenon
<1>3. ASSUME NEW y \in 0..Len(v), x <= y, LiesAt(p, v, b, c, y), Rest(p, v, c, y + (c - b))
      PROVE  y \in F
  <2>1. y + (c - b) <= Len(v) - (Len(p) - s)
    BY <1>1, <1>3, RestFits, Zenon
  <2>2. y \in x..h /\ y + (c - b) <= h
    BY <1>1, <1>3, <2>1
  <2>. QED  BY <1>3, <2>2, Zenon DEF Fits
<1>4. F = {} => ~Rest(p, v, a, x)
  <2> HIDE DEF F
  <2>. QED  BY <1>2, <1>3, Zenon
<1>5. ASSUME NEW y \in F, \A z \in F : y <= z
      PROVE  Rest(p, v, a, x) <=> Rest(p, v, c, y + (c - b))
  <2>1. y \in x..h /\ y + (c - b) <= h /\ LiesAt(p, v, b, c, y)
    BY <1>5, Zenon DEF Fits
  <2>2. y \in 0..Len(v) /\ x <= y /\ y + (c - b) \in 0..Len(v)
    BY <1>1, <2>1, SMTT(30)
  <2>3. ASSUME Rest(p, v, c, y + (c - b)) PROVE Rest(p, v, a, x)
    BY <1>2, <2>1, <2>2, <2>3, Zenon
  <2>4. ASSUME Rest(p, v, a, x) PROVE Rest(p, v, c, y + (c - b))
    <3>1. PICK z \in 0..Len(v) : x <= z /\ LiesAt(p, v, b, c, z) /\ Rest(p, v, c, z + (c - b))
      BY <1>2, <2>4, Zenon
    <3>2. z \in F
      BY <1>3, <3>1, Zenon
    <3>3. y <= z
      BY <1>5, <3>2, Zenon
    <3>4. z + (c - b) \in 0..Len(v)
      BY <1>1, <3>1, RestInValue, Zenon
    <3>5. y + (c - b) <= z + (c - b)
      BY <1>1, <2>2, <3>1, <3>3
    <3>. QED  BY <1>1, <2>2, <3>1, <3>4, <3>5, RestEarlier, Zenon
  <2>. QED  BY <2>3, <2>4, Zenon
<1> HIDE DEF F
<1>6. \A y \in F : (\A z \in F : y <= z) => (Rest(p, v, a, x) <=> Rest(p, v, c, y + (c - b)))
  BY <1>5, Zenon
<1>. QED  BY <1>4, <1>6, Zenon DEF F

-----------------------------------------------------------------------------
(* The literals of a pattern *)

\* Where the first k literals end.
EndBefore(ps, k) == IF k = 0 THEN 0 ELSE ps[k][2]

\* ps are the literals of the first n characters of p: runs of letters, with
\* nothing but wildcards between them.
Cut(p, ps, n) ==
  /\ ps \in Seq((0..Len(p)) \X (0..Len(p)))
  /\ \A k \in 1..Len(ps) :
       /\ ps[k][1] < ps[k][2] /\ ps[k][2] <= n /\ k <= ps[k][2]
       /\ NoStars(p, ps[k][1], ps[k][2])
       /\ EndBefore(ps, k - 1) <= ps[k][1]
       /\ AllStars(p, EndBefore(ps, k - 1), ps[k][1])
  /\ \A k, m \in 1..Len(ps) : k < m => ps[k][2] < ps[m][1]
  /\ AllStars(p, EndBefore(ps, Len(ps)), n)

\* The bounds of a literal are positions of the pattern.
LEMMA CutBounds ==
  ASSUME NEW p \in Seq(Chars), NEW ps, NEW n, Cut(p, ps, n)
  PROVE  /\ Len(p) \in Nat /\ Len(ps) \in Nat
         /\ \A k \in 1..Len(ps) : ps[k][1] \in 0..Len(p) /\ ps[k][2] \in 0..Len(p)
         /\ \A k \in 0..Len(ps) : EndBefore(ps, k) \in 0..Len(p)
<1>1. ps \in Seq((0..Len(p)) \X (0..Len(p)))
  BY Zenon DEF Cut
<1>2. Len(p) \in Nat /\ Len(ps) \in Nat
  BY <1>1
<1>3. ASSUME NEW k \in 1..Len(ps)
      PROVE  ps[k][1] \in 0..Len(p) /\ ps[k][2] \in 0..Len(p)
  <2>1. ps[k] \in (0..Len(p)) \X (0..Len(p))
    BY <1>1, SeqElement, Zenon
  <2>. QED  BY <2>1, Zenon
<1>4. ASSUME NEW k \in 0..Len(ps)
      PROVE  EndBefore(ps, k) \in 0..Len(p)
  <2>1. CASE k = 0
    BY <1>2, <2>1 DEF EndBefore
  <2>2. CASE k # 0
    <3>1. k \in 1..Len(ps)
      BY <1>2, <2>2
    <3>. QED  BY <1>3, <2>2, <3>1, Zenon DEF EndBefore
  <2>. QED  BY <2>1, <2>2, Zenon
<1>. QED  BY <1>2, <1>3, <1>4, Zenon

\* Scanning letters up to a position ends one literal, or none when there are none.
LEMMA CutGrows ==
  ASSUME NEW p \in Seq(Chars), NEW ps, NEW n \in 0..Len(p), Cut(p, ps, n),
         \A k \in 1..Len(ps) : ps[k][2] < n, NEW e \in n..Len(p), NoStars(p, n, e), n # e
  PROVE  Cut(p, Append(ps, <<n, e>>), e)
<1> DEFINE qs == Append(ps, <<n, e>>)
           N == Len(ps)
           S == (0..Len(p)) \X (0..Len(p))
<1>1. Len(p) \in Nat /\ N \in Nat /\ n \in Nat /\ e \in Nat /\ n < e /\ e <= Len(p)
  BY CutBounds
<1>2. ps \in Seq(S) /\ <<n, e>> \in S
  <2>1. ps \in Seq(S)
    BY Zenon DEF Cut
  <2>. QED  BY <1>1, <2>1
<1>3. qs \in Seq(S) /\ Len(qs) = N + 1 /\ (\A k \in 1..N : qs[k] = ps[k]) /\ qs[N + 1] = <<n, e>>
  <2> HIDE DEF S
  <2>. QED  BY <1>2, LongerSeq
<1>4. qs[N + 1][1] = n /\ qs[N + 1][2] = e
  BY <1>3
<1> HIDE DEF qs, S
<1>5. \A k \in 1..N + 1 : k \in 1..N \/ k = N + 1
  BY <1>1
<1>6. \A k \in 0..N : EndBefore(qs, k) = EndBefore(ps, k)
  <2>1. \A k \in 0..N : k = 0 \/ k \in 1..N
    BY <1>1
  <2>. QED  BY <1>3, <2>1, Zenon DEF EndBefore
<1>7. EndBefore(qs, N + 1) = e
  <2>1. N + 1 # 0
    BY <1>1
  <2>. QED  BY <1>4, <2>1, Zenon DEF EndBefore
<1>8. ASSUME NEW k \in 1..N + 1
      PROVE  /\ qs[k][1] < qs[k][2] /\ qs[k][2] <= e /\ k <= qs[k][2]
             /\ NoStars(p, qs[k][1], qs[k][2])
             /\ EndBefore(qs, k - 1) <= qs[k][1]
             /\ AllStars(p, EndBefore(qs, k - 1), qs[k][1])
  <2>1. CASE k \in 1..N
    <3>1. qs[k] = ps[k] /\ k - 1 \in 0..N
      BY <1>1, <1>3, <2>1
    <3>2. EndBefore(qs, k - 1) = EndBefore(ps, k - 1)
      BY <1>6, <3>1, Zenon
    <3>3. ps[k][2] <= e
      <4>1. ps[k][2] < n /\ ps[k][2] \in 0..Len(p)
        BY <2>1, CutBounds, Zenon
      <4>. QED  BY <1>1, <4>1
    <3>. QED  BY <2>1, <3>1, <3>2, <3>3, Zenon DEF Cut
  <2>2. CASE k = N + 1
    <3>1. k - 1 = N /\ N \in 0..N
      BY <1>1, <2>2
    <3>2. EndBefore(qs, k - 1) = EndBefore(ps, N)
      BY <1>6, <3>1, Zenon
    <3>3. AllStars(p, EndBefore(ps, N), n)
      BY Zenon DEF Cut
    <3>4. EndBefore(ps, N) <= n /\ N + 1 <= e
      <4>1. CASE N = 0
        BY <1>1, <4>1 DEF EndBefore
      <4>2. CASE N # 0
        <5>1. N \in 1..N
          BY <1>1, <4>2
        <5>2. ps[N][2] \in 0..Len(p) /\ ps[N][2] < n /\ N <= ps[N][2]
          BY <5>1, CutBounds, Zenon DEF Cut
        <5>3. EndBefore(ps, N) = ps[N][2]
          BY <4>2, Zenon DEF EndBefore
        <5>. QED  BY <1>1, <5>2, <5>3
      <4>. QED  BY <4>1, <4>2, Zenon
    <3>5. qs[k][1] = n /\ qs[k][2] = e /\ e <= e
      BY <1>1, <1>4, <2>2
    <3>. QED  BY <1>1, <2>2, <3>2, <3>3, <3>4, <3>5, Zenon
  <2>. QED  BY <1>5, <2>1, <2>2, Zenon
<1>9. ASSUME NEW k \in 1..N + 1, NEW m \in 1..N + 1, k < m
      PROVE  qs[k][2] < qs[m][1]
  <2>1. k \in 1..N
    BY <1>1, <1>9
  <2>2. qs[k] = ps[k]
    BY <1>3, <2>1, Zenon
  <2>3. CASE m \in 1..N
    BY <1>3, <1>9, <2>1, <2>2, <2>3, Zenon DEF Cut
  <2>4. CASE m = N + 1
    BY <1>4, <2>1, <2>2, <2>4, Zenon
  <2>. QED  BY <1>5, <2>3, <2>4, Zenon
<1>10. AllStars(p, e, e)
  BY <1>1 DEF AllStars
<1>11. Cut(p, qs, e)
  BY <1>3, <1>7, <1>8, <1>9, <1>10, Zenon DEF Cut, S
<1>. QED  BY <1>11, Zenon DEF qs

\* A wildcard after the literals lengthens what has been scanned.
LEMMA CutStar ==
  ASSUME NEW p \in Seq(Chars), NEW ps, NEW n \in 0..Len(p), Cut(p, ps, n), n < Len(p),
         p[n + 1] = Star
  PROVE  Cut(p, ps, n + 1) /\ \A k \in 1..Len(ps) : ps[k][2] < n + 1
<1>1. \A k \in 1..Len(ps) : ps[k][2] \in 0..Len(p) /\ ps[k][2] <= n
  BY CutBounds, Zenon DEF Cut
<1>2. \A k \in 1..Len(ps) : ps[k][2] <= n + 1 /\ ps[k][2] < n + 1
  BY <1>1
<1>3. Len(ps) \in 0..Len(ps) /\ EndBefore(ps, Len(ps)) \in 0..Len(p)
  BY CutBounds
<1>4. \A j \in EndBefore(ps, Len(ps)) + 1 .. n + 1 :
        j \in EndBefore(ps, Len(ps)) + 1 .. n \/ j = n + 1
  BY <1>3
<1>5. AllStars(p, EndBefore(ps, Len(ps)), n + 1)
  BY <1>4, Zenon DEF AllStars, Cut
<1>. QED  BY <1>2, <1>5, Zenon DEF Cut

\* Before the scan there are no literals.
LEMMA CutNothing ==
  ASSUME NEW p \in Seq(Chars)
  PROVE  Cut(p, <<>>, 0)
<1>1. Len(<<>>) = 0 /\ <<>> \in Seq((0..Len(p)) \X (0..Len(p)))
  OBVIOUS
<1>2. \A j \in 1..0 : FALSE
  OBVIOUS
<1>3. AllStars(p, 0, 0)
  BY DEF AllStars
<1>. QED  BY <1>1, <1>2, <1>3, Zenon DEF Cut, EndBefore

\* The literals lie in the pattern one after the other, before the final letters.
LEMMA CutShape ==
  ASSUME NEW p \in Seq(Chars), NEW ps, Cut(p, ps, Len(p)), Stars(p) # {}
  PROVE  /\ Len(p) > 0
         /\ p[1] # Star => Len(ps) > 0 /\ ps[1][1] = 0
         /\ p[Len(p)] # Star => Len(ps) > 0 /\ ps[Len(ps)][2] = Len(p)
         /\ Len(ps) = 1 => p[1] = Star \/ p[Len(p)] = Star
<1>1. /\ Len(p) \in Nat /\ Len(ps) \in Nat
      /\ \A k \in 1..Len(ps) : ps[k][1] \in 0..Len(p) /\ ps[k][2] \in 0..Len(p)
      /\ \A k \in 0..Len(ps) : EndBefore(ps, k) \in 0..Len(p)
  BY CutBounds, Zenon
<1>2. PICK t \in 1..Len(p) : p[t] = Star
  BY Zenon DEF Stars
<1>3. 1 \in 1..Len(p) /\ Len(p) \in 1..Len(p) /\ Len(p) > 0
  BY <1>1, <1>2
<1>4. AllStars(p, EndBefore(ps, Len(ps)), Len(p))
  BY Zenon DEF Cut
<1>5. ASSUME Len(ps) = 0, NEW j \in 1..Len(p)
      PROVE  p[j] = Star
  <2>1. EndBefore(ps, Len(ps)) = 0
    BY <1>5, Zenon DEF EndBefore
  <2>2. j \in 0 + 1 .. Len(p)
    BY <1>1
  <2>. QED  BY <1>4, <2>1, <2>2, Zenon DEF AllStars
<1>6. ASSUME p[1] # Star PROVE Len(ps) > 0 /\ ps[1][1] = 0
  <2>1. Len(ps) # 0
    BY <1>3, <1>5, <1>6, Zenon
  <2>2. Len(ps) > 0 /\ 1 \in 1..Len(ps) /\ 1 - 1 = 0
    BY <1>1, <2>1
  <2>3. AllStars(p, 0, ps[1][1])
    BY <2>2, Zenon DEF Cut, EndBefore
  <2>4. ps[1][1] \in 0..Len(p)
    BY <1>1, <2>2, Zenon
  <2>. QED  BY <1>1, <1>6, <2>2, <2>3, <2>4 DEF AllStars
<1>7. ASSUME p[Len(p)] # Star PROVE Len(ps) > 0 /\ ps[Len(ps)][2] = Len(p)
  <2>1. Len(ps) # 0
    BY <1>3, <1>5, <1>7, Zenon
  <2>2. Len(ps) > 0 /\ Len(ps) \in 1..Len(ps)
    BY <1>1, <2>1
  <2>3. EndBefore(ps, Len(ps)) = ps[Len(ps)][2]
    BY <2>1, Zenon DEF EndBefore
  <2>4. ps[Len(ps)][2] \in 0..Len(p)
    BY <1>1, <2>2, Zenon
  <2>5. AllStars(p, ps[Len(ps)][2], Len(p))
    BY <1>4, <2>3, Zenon
  <2>6. ASSUME ps[Len(ps)][2] # Len(p) PROVE FALSE
    <3>1. Len(p) \in ps[Len(ps)][2] + 1 .. Len(p)
      BY <1>1, <2>4, <2>6
    <3>. QED  BY <1>7, <2>5, <3>1, Zenon DEF AllStars
  <2>. QED  BY <2>2, <2>6, Zenon
<1>8. ASSUME Len(ps) = 1, p[1] # Star, p[Len(p)] # Star PROVE FALSE
  <2>1. ps[1][1] = 0 /\ ps[1][2] = Len(p) /\ 1 \in 1..Len(ps)
    BY <1>6, <1>7, <1>8
  <2>2. NoStars(p, 0, Len(p))
    BY <2>1, Zenon DEF Cut
  <2>3. t \in 0 + 1 .. Len(p)
    BY <1>1, <1>2
  <2>. QED  BY <1>2, <2>2, <2>3, Zenon DEF NoStars
<1>. QED  BY <1>3, <1>6, <1>7, <1>8, Zenon

\* Between two literals, and at an end that is not anchored, there is a wildcard.
LEMMA GapHasStar ==
  ASSUME NEW p \in Seq(Chars), NEW ps, Cut(p, ps, Len(p)), Stars(p) # {}, NEW k \in 0..Len(ps),
         k = 0 => p[1] = Star, k = Len(ps) => p[Len(p)] = Star
  PROVE  EndBefore(ps, k) < Len(p) /\ p[EndBefore(ps, k) + 1] = Star
<1> DEFINE b == EndBefore(ps, k)
<1>1. /\ Len(p) \in Nat /\ Len(ps) \in Nat /\ Len(p) > 0
      /\ \A m \in 1..Len(ps) : ps[m][1] \in 0..Len(p) /\ ps[m][2] \in 0..Len(p)
      /\ b \in 0..Len(p)
  BY CutBounds, CutShape, Zenon
<1>2. CASE k = 0
  BY <1>1, <1>2 DEF EndBefore
<1>3. CASE k # 0
  <2>1. k \in 1..Len(ps) /\ k \in Nat /\ k <= Len(ps)
    BY <1>1, <1>3
  <2>2. b = ps[k][2] /\ b \in 0..Len(p)
    BY <1>1, <1>3, Zenon DEF EndBefore
  <2>3. CASE k = Len(ps)
    <3>1. AllStars(p, b, Len(p))
      BY <2>3, Zenon DEF Cut
    <3>2. NoStars(p, ps[k][1], ps[k][2]) /\ ps[k][1] < ps[k][2]
      BY <2>1, Zenon DEF Cut
    <3>3. b # Len(p)
      <4>1. SUFFICES ASSUME b = Len(p) PROVE FALSE
        BY Zenon
      <4>2. Len(p) \in ps[k][1] + 1 .. ps[k][2]
        BY <1>1, <2>1, <2>2, <3>2, <4>1
      <4>. QED  BY <2>3, <3>2, <4>2, Zenon DEF NoStars
    <3>4. b < Len(p) /\ b + 1 \in b + 1 .. Len(p)
      BY <1>1, <2>2, <3>3
    <3>. QED  BY <3>1, <3>4, Zenon DEF AllStars
  <2>4. CASE k # Len(ps)
    <3>1. k + 1 \in 1..Len(ps) /\ k < k + 1 /\ (k + 1) - 1 = k
      BY <1>1, <2>1, <2>4
    <3>2. ps[k][2] < ps[k + 1][1]
      BY <2>1, <3>1, Zenon DEF Cut
    <3>3. AllStars(p, b, ps[k + 1][1])
      <4>1. AllStars(p, EndBefore(ps, (k + 1) - 1), ps[k + 1][1])
        BY <3>1, Zenon DEF Cut
      <4>. QED  BY <3>1, <4>1, Zenon
    <3>4. ps[k + 1][1] \in 0..Len(p)
      BY <1>1, <3>1, Zenon
    <3>5. b < Len(p) /\ b + 1 \in b + 1 .. ps[k + 1][1]
      BY <1>1, <2>2, <3>2, <3>4, SMTT(30)
    <3>. QED  BY <3>3, <3>5, Zenon DEF AllStars
  <2>. QED  BY <2>3, <2>4, Zenon
<1>. QED  BY <1>2, <1>3, Zenon

-----------------------------------------------------------------------------
(* The literals of the code *)

\* The text of a literal, and where it lies in the value.
LEMMA TextLies ==
  ASSUME pattern \in Seq(Chars), value \in Seq(Chars), NEW r, r[1] \in 0..Len(pattern),
         r[2] \in 0..Len(pattern), r[1] <= r[2], NEW x \in Nat
  PROVE  /\ Len(Text(r)) = r[2] - r[1]
         /\ At(Text(r), x) <=> LiesAt(pattern, value, r[1], r[2], x)
<1> DEFINE t == Text(r)
           a == r[1]
           b == r[2]
           u == SubSeq(value, x + 1, x + Len(t))
<1>1. a \in Nat /\ b \in Nat /\ a <= b /\ b <= Len(pattern) /\ a + 1 \in Int /\ b \in Int
  OBVIOUS
<1>2. \A j \in a + 1 .. b : pattern[j] \in Chars
  <2>1. \A j \in a + 1 .. b : j \in 1..Len(pattern)
    BY <1>1
  <2>. QED  BY <2>1, SeqElement, Zenon
<1>3. t = SubSeq(pattern, a + 1, b)
  BY Zenon DEF Text
<1> HIDE DEF t, a, b
<1>4. /\ t \in Seq(Chars)
      /\ Len(t) = IF a + 1 <= b THEN b - (a + 1) + 1 ELSE 0
      /\ \A j \in 1 .. b - (a + 1) + 1 : t[j] = pattern[a + 1 + j - 1]
  BY <1>1, <1>2, <1>3, PartOfSeq
<1>5. Len(t) = b - a /\ Len(t) \in Nat
  BY <1>1, <1>4
<1>6. \A j \in 1..Len(t) : t[j] = pattern[a + j]
  <2>1. \A j \in 1..Len(t) : j \in 1 .. b - (a + 1) + 1 /\ a + 1 + j - 1 = a + j
    BY <1>1, <1>5
  <2>. QED  BY <1>4, <2>1, Zenon
<1>7. ASSUME x + (b - a) <= Len(value)
      PROVE  u = t <=> \A j \in a + 1 .. b : value[x + (j - a)] = pattern[j]
  <2>1. Len(value) \in Nat /\ x + 1 \in Int /\ x + Len(t) \in Int
    BY <1>5
  <2>2. \A j \in x + 1 .. x + Len(t) : value[j] \in Chars
    <3>1. \A j \in x + 1 .. x + Len(t) : j \in 1..Len(value)
      BY <1>5, <1>7, <2>1
    <3>. QED  BY <3>1, SeqElement, Zenon
  <2>3. /\ u \in Seq(Chars)
        /\ Len(u) = IF x + 1 <= x + Len(t) THEN x + Len(t) - (x + 1) + 1 ELSE 0
        /\ \A j \in 1 .. x + Len(t) - (x + 1) + 1 : u[j] = value[x + 1 + j - 1]
    BY <2>1, <2>2, PartOfSeq
  <2> HIDE DEF u
  <2>4. Len(u) = Len(t)
    BY <1>5, <2>3
  <2>5. \A j \in 1..Len(t) : u[j] = value[x + j]
    <3>1. \A j \in 1..Len(t) : j \in 1 .. x + Len(t) - (x + 1) + 1 /\ x + 1 + j - 1 = x + j
      BY <1>5
    <3>. QED  BY <2>3, <3>1, Zenon
  <2>6. u = t <=> \A j \in 1..Len(t) : value[x + j] = pattern[a + j]
    <3>1. u = t <=> \A j \in 1..Len(t) : u[j] = t[j]
      BY <1>4, <2>3, <2>4, SameSeq, Zenon
    <3>. QED  BY <1>6, <2>5, <3>1, Zenon
  <2>7. ASSUME \A j \in 1..Len(t) : value[x + j] = pattern[a + j], NEW j \in a + 1 .. b
        PROVE  value[x + (j - a)] = pattern[j]
    <3>1. j - a \in 1..Len(t) /\ a + (j - a) = j
      BY <1>1, <1>5
    <3>. QED  BY <2>7, <3>1, Zenon
  <2>8. ASSUME \A j \in a + 1 .. b : value[x + (j - a)] = pattern[j], NEW j \in 1..Len(t)
        PROVE  value[x + j] = pattern[a + j]
    <3>1. a + j \in a + 1 .. b /\ (a + j) - a = j
      BY <1>1, <1>5
    <3>2. value[x + ((a + j) - a)] = pattern[a + j]
      BY <2>8, <3>1, Zenon
    <3>. QED  BY <3>1, <3>2, Zenon
  <2>. QED  BY <2>6, <2>7, <2>8, Zenon
<1>8. At(t, x) <=> x + Len(t) <= Len(value) /\ u = t
  BY Zenon DEF At
<1> HIDE DEF u
<1>9. At(t, x) <=> LiesAt(pattern, value, a, b, x)
  BY <1>5, <1>7, <1>8, Zenon DEF LiesAt
<1>. QED  BY <1>5, <1>9, Zenon DEF t, a, b

\* What TypeOK says of a word.
LEMMA WordIsSeq ==
  ASSUME NEW S, NEW n \in Nat, NEW w \in Words(S, n)
  PROVE  w \in Seq(S) /\ Len(w) \in 0..n
<1>1. PICK k \in 0..n : w \in [1..k -> S]
  BY Zenon DEF Words
<1>. QED  BY <1>1

\* The code's tests of the ends of the pattern.
LEMMA AnchorTests ==
  ASSUME pattern \in Seq(Chars), Len(pattern) > 0
  PROVE  /\ AnchoredStart <=> pattern[1] # Star
         /\ AnchoredEnd <=> pattern[Len(pattern)] # Star
<1>1. pattern # <<>> /\ Head(pattern) = pattern[1]
  OBVIOUS
<1>. QED  BY <1>1, Zenon DEF AnchoredStart, AnchoredEnd

\* What a kind says of the literals.
LEMMA KindCases ==
  ASSUME NEW ps, NEW n \in Nat, n = Len(ps)
  PROVE  LET k == KindOf(ps) IN
         /\ k \in Kinds /\ k # "Exact"
         /\ k = "Any" => n = 0
         /\ k = "Prefix" => n = 1 /\ AnchoredStart
         /\ k = "Suffix" => n = 1 /\ ~AnchoredStart /\ AnchoredEnd
         /\ k = "Contains" => n = 1 /\ ~AnchoredStart /\ ~AnchoredEnd
         /\ k = "PrefixSuffix" => n = 2 /\ AnchoredStart /\ AnchoredEnd
         /\ k = "Multi" => n >= 2
         /\ k \in {"Any", "Prefix", "Suffix", "Contains", "PrefixSuffix", "Multi"}
<1> USE DEF Kinds
<1>1. CASE n = 0
  <2>1. KindOf(ps) = "Any"
    BY <1>1 DEF KindOf
  <2>. QED  BY <1>1, <2>1, Zenon
<1>2. CASE n = 1
  <2>1. KindOf(ps) = IF AnchoredStart THEN "Prefix" ELSE IF AnchoredEnd THEN "Suffix" ELSE "Contains"
    BY <1>2 DEF KindOf
  <2>. QED  BY <1>2, <2>1, Zenon
<1>3. CASE n = 2 /\ AnchoredStart /\ AnchoredEnd
  <2>1. KindOf(ps) = "PrefixSuffix"
    BY <1>3 DEF KindOf
  <2>. QED  BY <1>3, <2>1, Zenon
<1>4. CASE n >= 2 /\ ~(n = 2 /\ AnchoredStart /\ AnchoredEnd)
  <2>1. KindOf(ps) = "Multi"
    BY <1>4 DEF KindOf
  <2>. QED  BY <1>4, <2>1, Zenon
<1>5. n = 0 \/ n = 1 \/ n >= 2
  OBVIOUS
<1>. QED  BY <1>1, <1>2, <1>3, <1>4, <1>5, Zenon

\* Wildcards to the end take whatever is left.
LEMMA StarsToEnd ==
  ASSUME NEW p \in Seq(Chars), NEW v \in Seq(Chars), NEW a \in 0..Len(p), a < Len(p),
         AllStars(p, a, Len(p)), NEW x \in 0..Len(v)
  PROVE  Rest(p, v, a, x)
<1>1. Len(p) \in Nat /\ Len(v) \in Nat /\ Len(p) \in a..Len(p)
  OBVIOUS
<1>2. Rest(p, v, Len(p), Len(v))
  BY RestEnd, Zenon
<1>3. Len(v) \in 0..Len(v) /\ x <= Len(v)
  BY <1>1
<1>. QED  BY <1>1, <1>2, <1>3, RestStars, Zenon

\* A pattern without wildcards matches itself only.
LEMMA MatchExact ==
  ASSUME NEW p \in Seq(Chars), NEW v \in Seq(Chars), Stars(p) = {}
  PROVE  Rest(p, v, 0, 0) <=> v = p
<1>1. Len(p) \in Nat /\ Len(v) \in Nat /\ 0 \in 0..Len(p) /\ Len(p) \in 0..Len(p) /\ 0 \in 0..Len(v)
  OBVIOUS
<1>2. NoStars(p, 0, Len(p))
  BY DEF NoStars, Stars
<1>3. Rest(p, v, 0, 0) <=> LiesAt(p, v, 0, Len(p), 0) /\ Rest(p, v, Len(p), 0 + (Len(p) - 0))
  BY <1>1, <1>2, RestRun, Zenon
<1>4. 0 + (Len(p) - 0) = Len(p)
  BY <1>1
<1>5. Rest(p, v, Len(p), Len(p)) <=> Len(p) = Len(v)
  BY RestEnd, Zenon
<1>6. ASSUME Len(p) = Len(v)
      PROVE  LiesAt(p, v, 0, Len(p), 0) <=> v = p
  <2>1. LiesAt(p, v, 0, Len(p), 0) <=> \A j \in 1..Len(p) : v[j] = p[j]
    BY <1>1, <1>6 DEF LiesAt
  <2>2. \A j \in 1..Len(v) : j \in 1..Len(p)
    BY <1>6, Zenon
  <2>. QED  BY <1>6, <2>1, <2>2, SameSeq, Zenon
<1>7. v = p => Len(p) = Len(v)
  BY Zenon
<1>. QED  BY <1>3, <1>4, <1>5, <1>6, <1>7, Zenon

-----------------------------------------------------------------------------
(* The short cuts of matches() *)

\* What new() has made of the pattern.
Compiled ==
  \/ kind = "Exact" /\ Stars(pattern) = {} /\ parts = <<>>
  \/ Stars(pattern) # {} /\ Cut(pattern, parts, Len(pattern)) /\ kind = KindOf(parts)

\* The facts about a compiled pattern with wildcards that every kind rests on.
LEMMA CompiledShape ==
  ASSUME pattern \in Seq(Chars), Compiled, kind # "Exact"
  PROVE  /\ Stars(pattern) # {} /\ Cut(pattern, parts, Len(pattern)) /\ kind = KindOf(parts)
         /\ Len(pattern) \in Nat /\ Len(pattern) > 0 /\ Len(parts) \in Nat
         /\ \A k \in 1..Len(parts) :
              /\ parts[k][1] \in 0..Len(pattern) /\ parts[k][2] \in 0..Len(pattern)
              /\ parts[k][1] < parts[k][2] /\ parts[k][1] <= parts[k][2]
              /\ NoStars(pattern, parts[k][1], parts[k][2])
         /\ \A k, m \in 1..Len(parts) : k < m => parts[k][2] < parts[m][1]
         /\ AnchoredStart => Len(parts) > 0 /\ parts[1][1] = 0
         /\ AnchoredEnd => Len(parts) > 0 /\ parts[Len(parts)][2] = Len(pattern)
         /\ ~AnchoredStart => pattern[1] = Star
         /\ ~AnchoredEnd => pattern[Len(pattern)] = Star
         /\ Len(parts) = 1 => ~AnchoredStart \/ ~AnchoredEnd
<1>1. Stars(pattern) # {} /\ Cut(pattern, parts, Len(pattern)) /\ kind = KindOf(parts)
  BY Zenon DEF Compiled
<1>2. /\ Len(pattern) \in Nat /\ Len(parts) \in Nat /\ Len(pattern) > 0
      /\ \A k \in 1..Len(parts) : parts[k][1] \in 0..Len(pattern) /\ parts[k][2] \in 0..Len(pattern)
  BY <1>1, CutBounds, CutShape, Zenon
<1>3. /\ \A k \in 1..Len(parts) : /\ parts[k][1] < parts[k][2]
                                  /\ NoStars(pattern, parts[k][1], parts[k][2])
      /\ \A k, m \in 1..Len(parts) : k < m => parts[k][2] < parts[m][1]
  BY <1>1, Zenon DEF Cut
<1>4. \A k \in 1..Len(parts) : parts[k][1] <= parts[k][2]
  BY <1>2, <1>3
<1>5. /\ AnchoredStart <=> pattern[1] # Star
      /\ AnchoredEnd <=> pattern[Len(pattern)] # Star
  BY <1>2, AnchorTests, Zenon
<1>6. /\ pattern[1] # Star => Len(parts) > 0 /\ parts[1][1] = 0
      /\ pattern[Len(pattern)] # Star => Len(parts) > 0 /\ parts[Len(parts)][2] = Len(pattern)
      /\ Len(parts) = 1 => pattern[1] = Star \/ pattern[Len(pattern)] = Star
  BY <1>1, CutShape, Zenon
<1>. QED  BY <1>1, <1>2, <1>3, <1>4, <1>5, <1>6, Zenon

\* What the kind of a compiled pattern says of its literals.
LEMMA CompiledKind ==
  ASSUME pattern \in Seq(Chars), Compiled, kind # "Exact"
  PROVE  /\ kind = "Any" => Len(parts) = 0
         /\ kind = "Prefix" => Len(parts) = 1 /\ AnchoredStart
         /\ kind = "Suffix" => Len(parts) = 1 /\ ~AnchoredStart /\ AnchoredEnd
         /\ kind = "Contains" => Len(parts) = 1 /\ ~AnchoredStart /\ ~AnchoredEnd
         /\ kind = "PrefixSuffix" => Len(parts) = 2 /\ AnchoredStart /\ AnchoredEnd
         /\ kind = "Multi" => Len(parts) >= 2
         /\ kind \in {"Any", "Prefix", "Suffix", "Contains", "PrefixSuffix", "Multi"}
<1>1. kind = KindOf(parts) /\ Len(parts) \in Nat
  BY CompiledShape, Zenon
<1>. QED  BY <1>1, KindCases, Zenon

\* The wildcards around the literals: none is missing between two of them, nor at
\* an end that is not anchored.
LEMMA CompiledGaps ==
  ASSUME pattern \in Seq(Chars), Compiled, kind # "Exact", NEW k \in 0..Len(parts),
         AnchoredStart => k # 0
  PROVE  /\ EndBefore(parts, k) \in 0..Len(pattern)
         /\ k = Len(parts) => AllStars(pattern, EndBefore(parts, k), Len(pattern))
         /\ k = Len(parts) /\ ~AnchoredEnd => EndBefore(parts, k) < Len(pattern)
         /\ k # Len(parts) => /\ EndBefore(parts, k) < parts[k + 1][1]
                              /\ AllStars(pattern, EndBefore(parts, k), parts[k + 1][1])
         /\ k # Len(parts) \/ ~AnchoredEnd => /\ EndBefore(parts, k) < Len(pattern)
                                              /\ pattern[EndBefore(parts, k) + 1] = Star
<1> DEFINE b == EndBefore(parts, k)
<1>1. /\ Stars(pattern) # {} /\ Cut(pattern, parts, Len(pattern))
      /\ Len(pattern) \in Nat /\ Len(parts) \in Nat
      /\ ~AnchoredStart => pattern[1] = Star
      /\ ~AnchoredEnd => pattern[Len(pattern)] = Star
      /\ \A m \in 1..Len(parts) :
           /\ parts[m][1] \in 0..Len(pattern) /\ parts[m][2] \in 0..Len(pattern)
           /\ parts[m][1] < parts[m][2] /\ NoStars(pattern, parts[m][1], parts[m][2])
  BY CompiledShape, Zenon
<1>2. b \in 0..Len(pattern)
  BY <1>1, CutBounds, Zenon
<1>3. k = Len(parts) => AllStars(pattern, b, Len(pattern))
  BY <1>1, Zenon DEF Cut
<1>4. ASSUME k # Len(parts) \/ ~AnchoredEnd
      PROVE  b < Len(pattern) /\ pattern[b + 1] = Star
  BY <1>1, <1>4, GapHasStar, Zenon
<1>5. ASSUME k # Len(parts)
      PROVE  b < parts[k + 1][1] /\ AllStars(pattern, b, parts[k + 1][1])
  <2>1. k + 1 \in 1..Len(parts) /\ (k + 1) - 1 = k
    BY <1>1, <1>5
  <2>2. /\ EndBefore(parts, (k + 1) - 1) <= parts[k + 1][1]
        /\ AllStars(pattern, EndBefore(parts, (k + 1) - 1), parts[k + 1][1])
    BY <1>1, <2>1, Zenon DEF Cut
  <2>3. b <= parts[k + 1][1] /\ AllStars(pattern, b, parts[k + 1][1])
    BY <2>1, <2>2, Zenon
  <2>4. b # parts[k + 1][1]
    <3>1. SUFFICES ASSUME b = parts[k + 1][1] PROVE FALSE
      BY Zenon
    <3>2. NoStars(pattern, b, parts[k + 1][2]) /\ b < parts[k + 1][2] /\ parts[k + 1][2] \in 0..Len(pattern)
      BY <1>1, <2>1, <3>1, Zenon
    <3>3. b + 1 \in b + 1 .. parts[k + 1][2]
      BY <1>2, <3>2
    <3>. QED  BY <1>4, <1>5, <3>2, <3>3, Zenon DEF NoStars
  <2>5. parts[k + 1][1] \in 0..Len(pattern)
    BY <1>1, <2>1, Zenon
  <2>6. b < parts[k + 1][1]
    BY <1>1, <1>2, <2>3, <2>4, <2>5
  <2>. QED  BY <2>3, <2>6, Zenon
<1>. QED  BY <1>2, <1>3, <1>4, <1>5, Zenon

\* A pattern of one or two literals with an anchored prefix, wildcards and perhaps
\* an anchored suffix: the prefix starts the value and the suffix ends it, apart.
LEMMA PrefixThenTail ==
  ASSUME NEW p \in Seq(Chars), NEW v \in Seq(Chars), NEW b \in 0..Len(p), NEW c \in b..Len(p),
         b < c, NoStars(p, 0, b), AllStars(p, b, c), NoStars(p, c, Len(p))
  PROVE  Rest(p, v, 0, 0) <=> /\ LiesAt(p, v, 0, b, 0)
                              /\ b <= Len(v) - (Len(p) - c)
                              /\ LiesAt(p, v, c, Len(p), Len(v) - (Len(p) - c))
<1>1. Len(p) \in Nat /\ Len(v) \in Nat /\ b \in Nat /\ 0 \in 0..Len(p) /\ 0 \in 0..Len(v)
  OBVIOUS
<1>2. Rest(p, v, 0, 0) <=> LiesAt(p, v, 0, b, 0) /\ Rest(p, v, b, 0 + (b - 0))
  BY <1>1, RestRun, Zenon
<1>3. 0 + (b - 0) = b
  BY <1>1
<1>4. LiesAt(p, v, 0, b, 0) => b \in 0..Len(v)
  BY <1>1 DEF LiesAt
<1>5. ASSUME b \in 0..Len(v)
      PROVE  Rest(p, v, b, b) <=> /\ b <= Len(v) - (Len(p) - c)
                                  /\ LiesAt(p, v, c, Len(p), Len(v) - (Len(p) - c))
  BY <1>5, RestTail, Zenon
<1>. QED  BY <1>2, <1>3, <1>4, <1>5, Zenon

\* The tests of the code on the text of a literal, as facts about positions.
LEMMA TextTests ==
  ASSUME pattern \in Seq(Chars), value \in Seq(Chars), NEW k, parts[k][1] \in 0..Len(pattern),
         parts[k][2] \in 0..Len(pattern), parts[k][1] <= parts[k][2]
  PROVE  LET a == parts[k][1] b == parts[k][2] t == Text(parts[k]) IN
         /\ Len(t) = b - a
         /\ \A x \in Nat : At(t, x) <=> LiesAt(pattern, value, a, b, x)
         /\ StartsWith(t) <=> LiesAt(pattern, value, a, b, 0)
         /\ EndsWith(t) <=> /\ 0 <= Len(value) - (b - a)
                            /\ LiesAt(pattern, value, a, b, Len(value) - (b - a))
<1> DEFINE a == parts[k][1]
           b == parts[k][2]
           t == Text(parts[k])
<1>1. Len(t) = b - a /\ \A x \in Nat : At(t, x) <=> LiesAt(pattern, value, a, b, x)
  <2>1. 0 \in Nat
    BY Zenon
  <2>. QED  BY <2>1, TextLies, Zenon
<1> HIDE DEF a, b, t
<1>2. a \in Nat /\ b \in Nat /\ a <= b /\ Len(value) \in Nat
  BY DEF a, b
<1>3. StartsWith(t) <=> LiesAt(pattern, value, a, b, 0)
  <2>1. 0 \in Nat
    BY Zenon
  <2>. QED  BY <1>1, <2>1, Zenon DEF StartsWith
<1>4. Len(t) <= Len(value) <=> 0 <= Len(value) - (b - a)
  BY <1>1, <1>2
<1>5. 0 <= Len(value) - (b - a) => Len(value) - (b - a) \in Nat
  BY <1>2
<1>6. EndsWith(t) <=> /\ 0 <= Len(value) - (b - a)
                      /\ LiesAt(pattern, value, a, b, Len(value) - (b - a))
  BY <1>1, <1>4, <1>5, Zenon DEF EndsWith
<1>. QED  BY <1>1, <1>3, <1>6, Zenon DEF a, b, t

\* Every kind but Multi answers what the pattern means.
LEMMA SimpleRight ==
  ASSUME pattern \in Seq(Chars), value \in Seq(Chars), Compiled, kind # "Multi"
  PROVE  MatchesSimple <=> Means(pattern, value)
<1> DEFINE p == pattern
           v == value
           L == Len(pattern)
           R == Rest(pattern, value, 0, 0)
<1>1. Means(pattern, value) <=> R
  BY MeansIsRest, Zenon
<1>2. CASE kind = "Exact"
  <2>1. Stars(pattern) = {}
    <3>1. kind = KindOf(parts) /\ Cut(pattern, parts, Len(pattern)) => kind # "Exact"
      <4>1. Cut(pattern, parts, Len(pattern)) => Len(parts) \in Nat
        BY CutBounds, Zenon
      <4>. QED  BY <4>1, KindCases, Zenon
    <3>. QED  BY <1>2, <3>1, Zenon DEF Compiled
  <2>2. MatchesSimple <=> value = pattern
    BY <1>2, Zenon DEF MatchesSimple
  <2>. QED  BY <1>1, <2>1, <2>2, MatchExact, Zenon
<1>3. ASSUME kind # "Exact"
      PROVE  MatchesSimple <=> R
  <2>1. /\ kind = KindOf(parts) /\ L \in Nat /\ L > 0 /\ Len(parts) \in Nat
        /\ \A k \in 1..Len(parts) :
             /\ parts[k][1] \in 0..L /\ parts[k][2] \in 0..L
             /\ parts[k][1] < parts[k][2] /\ parts[k][1] <= parts[k][2]
             /\ NoStars(p, parts[k][1], parts[k][2])
    BY <1>3, CompiledShape, Zenon
  <2>2. /\ AnchoredStart => parts[1][1] = 0
        /\ AnchoredEnd => parts[Len(parts)][2] = L
        /\ Len(parts) = 1 => ~AnchoredStart \/ ~AnchoredEnd
    BY <1>3, CompiledShape, Zenon
  <2>3. ASSUME NEW k \in 0..Len(parts), AnchoredStart => k # 0
        PROVE  /\ k = Len(parts) => AllStars(p, EndBefore(parts, k), L)
               /\ k = Len(parts) /\ ~AnchoredEnd => EndBefore(parts, k) < L
               /\ k # Len(parts) => /\ EndBefore(parts, k) < parts[k + 1][1]
                                    /\ AllStars(p, EndBefore(parts, k), parts[k + 1][1])
    BY <1>3, <2>3, CompiledGaps, Zenon
  <2>4. /\ EndBefore(parts, 0) = 0 /\ EndBefore(parts, 1) = parts[1][2]
        /\ Len(value) \in Nat /\ 0 \in 0..L /\ 0 \in 0..Len(value) /\ L \in 0..L /\ 0 \in Nat
    BY <2>1 DEF EndBefore
  <2>5. NoStars(p, L, L) /\ \A x \in 0..Len(value) : LiesAt(p, v, L, L, x)
    BY <2>1, <2>4 DEF NoStars, LiesAt
  <2>6. CASE kind = "Any"
    <3>1. Len(parts) = 0 /\ 0 \in 0..Len(parts)
      <4>1. Len(parts) = 0
        BY <1>3, <2>6, CompiledKind, Zenon
      <4>. QED  BY <4>1
    <3>2. EndBefore(parts, 0) < L /\ AllStars(p, EndBefore(parts, 0), L)
      <4>1. ~AnchoredStart /\ ~AnchoredEnd
        BY <1>3, <3>1, CompiledShape
      <4>. QED  BY <2>3, <3>1, <4>1, Zenon
    <3>3. R
      BY <2>4, <3>2, StarsToEnd, Zenon
    <3>4. MatchesSimple
      BY <2>6, Zenon DEF MatchesSimple
    <3>. QED  BY <3>3, <3>4, Zenon
  <2>7. CASE kind = "Prefix"
    <3>1. Len(parts) = 1 /\ AnchoredStart /\ 1 \in 0..Len(parts) /\ 1 \in 1..Len(parts)
      <4>1. Len(parts) = 1 /\ AnchoredStart
        BY <1>3, <2>7, CompiledKind, Zenon
      <4>. QED  BY <4>1
    <3>2. parts[1][1] = 0 /\ parts[1][2] < L /\ AllStars(p, parts[1][2], L)
      <4>1. AnchoredStart => 1 # 0
        OBVIOUS
      <4>. QED  BY <2>2, <2>3, <2>4, <3>1, <4>1, Zenon
    <3>3. parts[1][2] \in 0..L /\ NoStars(p, 0, parts[1][2]) /\ 0 <= parts[1][2]
      BY <2>1, <3>1, <3>2, Zenon
    <3>4. L \in parts[1][2]..L /\ Len(value) - (L - L) = Len(value)
      BY <2>1, <2>4, <3>2, <3>3
    <3>5. R <=> /\ LiesAt(p, v, 0, parts[1][2], 0)
                /\ parts[1][2] <= Len(value) - (L - L)
                /\ LiesAt(p, v, L, L, Len(value) - (L - L))
      BY <3>2, <3>3, <3>4, <2>5, PrefixThenTail, Zenon
    <3>6. LiesAt(p, v, 0, parts[1][2], 0) => parts[1][2] <= Len(value)
      BY <2>4, <3>3 DEF LiesAt
    <3>7. Len(value) \in 0..Len(value)
      BY <2>4
    <3>8. StartsWith(Text(parts[1])) <=> LiesAt(p, v, 0, parts[1][2], 0)
      BY <2>4, <3>2, <3>3, TextTests, Zenon
    <3>9. MatchesSimple <=> StartsWith(Text(parts[1]))
      BY <2>7, Zenon DEF MatchesSimple
    <3>. QED  BY <2>5, <3>4, <3>5, <3>6, <3>7, <3>8, <3>9, Zenon
  <2>8. CASE kind = "Suffix"
    <3>1. Len(parts) = 1 /\ ~AnchoredStart /\ AnchoredEnd /\ 0 \in 0..Len(parts) /\ 1 \in 1..Len(parts)
      <4>1. Len(parts) = 1 /\ ~AnchoredStart /\ AnchoredEnd
        BY <1>3, <2>8, CompiledKind, Zenon
      <4>. QED  BY <4>1
    <3>2. parts[1][2] = L /\ 0 < parts[1][1] /\ AllStars(p, 0, parts[1][1])
      <4>1. 0 # Len(parts) /\ 0 + 1 = 1
        BY <3>1
      <4>. QED  BY <2>2, <2>3, <2>4, <3>1, <4>1, Zenon
    <3>3. parts[1][1] \in 0..L /\ NoStars(p, parts[1][1], L) /\ parts[1][1] <= L
      BY <2>1, <3>1, <3>2, Zenon
    <3>4. R <=> /\ 0 <= Len(value) - (L - parts[1][1])
                /\ LiesAt(p, v, parts[1][1], L, Len(value) - (L - parts[1][1]))
      BY <2>4, <3>2, <3>3, RestTail, Zenon
    <3>5. EndsWith(Text(parts[1])) <=>
            /\ 0 <= Len(value) - (L - parts[1][1])
            /\ LiesAt(p, v, parts[1][1], L, Len(value) - (L - parts[1][1]))
      BY <2>4, <3>2, <3>3, TextTests, Zenon
    <3>6. MatchesSimple <=> EndsWith(Text(parts[1]))
      BY <2>8, Zenon DEF MatchesSimple
    <3>. QED  BY <3>4, <3>5, <3>6, Zenon
  <2>9. CASE kind = "Contains"
    <3>1. /\ Len(parts) = 1 /\ ~AnchoredStart /\ ~AnchoredEnd /\ 0 \in 0..Len(parts)
          /\ 1 \in 0..Len(parts) /\ 1 \in 1..Len(parts)
      <4>1. Len(parts) = 1 /\ ~AnchoredStart /\ ~AnchoredEnd
        BY <1>3, <2>9, CompiledKind, Zenon
      <4>. QED  BY <4>1
    <3>2. 0 < parts[1][1] /\ AllStars(p, 0, parts[1][1])
      <4>1. 0 # Len(parts) /\ 0 + 1 = 1
        BY <3>1
      <4>. QED  BY <2>3, <2>4, <3>1, <4>1, Zenon
    <3>3. parts[1][2] < L /\ AllStars(p, parts[1][2], L)
      BY <2>3, <2>4, <3>1, Zenon
    <3>4. /\ parts[1][1] \in 0..L /\ NoStars(p, parts[1][1], parts[1][2])
          /\ parts[1][1] <= parts[1][2] /\ parts[1][2] \in 0..L /\ parts[1][2] \in parts[1][1]..L
      BY <2>1, <3>1
    <3>5. R <=> \E y \in 0..Len(value) :
                  /\ 0 <= y /\ LiesAt(p, v, parts[1][1], parts[1][2], y)
                  /\ Rest(p, v, parts[1][2], y + (parts[1][2] - parts[1][1]))
      BY <2>4, <3>2, <3>4, RestLiteral, Zenon
    <3>6. ASSUME NEW y \in 0..Len(value), LiesAt(p, v, parts[1][1], parts[1][2], y)
          PROVE  0 <= y /\ Rest(p, v, parts[1][2], y + (parts[1][2] - parts[1][1]))
      <4>1. y + (parts[1][2] - parts[1][1]) <= Len(value)
        BY <3>6, Zenon DEF LiesAt
      <4>2. 0 <= y /\ y + (parts[1][2] - parts[1][1]) \in 0..Len(value)
        BY <2>4, <3>4, <4>1
      <4>. QED  BY <3>3, <3>4, <4>2, StarsToEnd, Zenon
    <3>7. \A y \in Nat : At(Text(parts[1]), y) <=> LiesAt(p, v, parts[1][1], parts[1][2], y)
      BY <3>4, TextTests, Zenon
    <3>8. \A y \in 0..Len(value) : y \in Nat
      BY <2>4
    <3>9. MatchesSimple <=> \E y \in 0..Len(value) : At(Text(parts[1]), y)
      BY <2>9, Zenon DEF MatchesSimple
    <3>. QED  BY <3>5, <3>6, <3>7, <3>8, <3>9, Zenon
  <2>10. CASE kind = "PrefixSuffix"
    <3>1. /\ Len(parts) = 2 /\ AnchoredStart /\ AnchoredEnd
          /\ 1 \in 0..Len(parts) /\ 1 \in 1..Len(parts) /\ 2 \in 1..Len(parts)
      <4>1. Len(parts) = 2 /\ AnchoredStart /\ AnchoredEnd
        BY <1>3, <2>10, CompiledKind, Zenon
      <4>. QED  BY <4>1
    <3>2. /\ parts[1][1] = 0 /\ parts[2][2] = L
          /\ parts[1][2] < parts[2][1] /\ AllStars(p, parts[1][2], parts[2][1])
      <4>1. 1 # Len(parts) /\ 1 + 1 = 2 /\ 1 # 0
        BY <3>1
      <4>. QED  BY <2>2, <2>3, <2>4, <3>1, <4>1, Zenon
    <3>3. /\ parts[1][2] \in 0..L /\ NoStars(p, 0, parts[1][2]) /\ 0 <= parts[1][2]
          /\ parts[2][1] \in 0..L /\ NoStars(p, parts[2][1], L) /\ parts[2][1] <= L
      BY <2>1, <3>1, <3>2, Zenon
    <3>4. parts[2][1] \in parts[1][2]..L
      BY <2>1, <3>2, <3>3
    <3> DEFINE b == parts[1][2]
               c == parts[2][1]
    <3>5. R <=> /\ LiesAt(p, v, 0, b, 0)
                /\ b <= Len(value) - (L - c)
                /\ LiesAt(p, v, c, L, Len(value) - (L - c))
      BY <3>2, <3>3, <3>4, PrefixThenTail, Zenon
    <3>6. Len(Text(parts[1])) = b - 0 /\ (StartsWith(Text(parts[1])) <=> LiesAt(p, v, 0, b, 0))
      BY <2>4, <3>2, <3>3, TextTests, Zenon
    <3>7. /\ Len(Text(parts[2])) = L - c
          /\ EndsWith(Text(parts[2])) <=> /\ 0 <= Len(value) - (L - c)
                                          /\ LiesAt(p, v, c, L, Len(value) - (L - c))
      BY <2>4, <3>2, <3>3, TextTests, Zenon
    <3>8. MatchesSimple <=> /\ Len(value) >= Len(Text(parts[1])) + Len(Text(parts[2]))
                            /\ StartsWith(Text(parts[1])) /\ EndsWith(Text(parts[2]))
      BY <2>10, Zenon DEF MatchesSimple
    <3>9. Len(value) >= Len(Text(parts[1])) + Len(Text(parts[2])) <=> b <= Len(value) - (L - c)
      <4>1. \A m, d, e, f \in Nat : m >= (d - 0) + (f - e) <=> d <= m - (f - e)
        OBVIOUS
      <4>2. Len(value) \in Nat /\ L \in Nat /\ b \in Nat /\ c \in Nat
        BY <2>4, <3>3
      <4>3. Len(value) >= (b - 0) + (L - c) <=> b <= Len(value) - (L - c)
        BY <4>1, <4>2, Zenon
      <4>. QED  BY <3>6, <3>7, <4>3, Zenon
    <3>10. b <= Len(value) - (L - c) => 0 <= Len(value) - (L - c)
      BY <2>1, <2>4, <3>3
    <3>. QED  BY <3>5, <3>6, <3>7, <3>8, <3>9, <3>10, Zenon
  <2>11. kind \in {"Any", "Prefix", "Suffix", "Contains", "PrefixSuffix", "Multi"}
    BY <1>3, CompiledKind, Zenon
  <2>. QED  BY <2>6, <2>7, <2>8, <2>9, <2>10, <2>11, Zenon
<1>. QED  BY <1>1, <1>2, <1>3, Zenon

-----------------------------------------------------------------------------
(* The search of matches_multi *)

\* The letters of the pattern up to PrefixEnd and from SuffixStart on are anchored.
PrefixEnd == IF AnchoredStart THEN parts[1][2] ELSE 0
SuffixStart == IF AnchoredEnd THEN parts[Len(parts)][1] ELSE Len(pattern)

\* Where the anchored suffix lies in the value.
SuffixAt == Len(value) - (Len(pattern) - SuffixStart)

\* The anchored letters are runs, with the other literals between them.
LEMMA MultiShape ==
  ASSUME pattern \in Seq(Chars), Compiled, kind = "Multi"
  PROVE  /\ Len(parts) \in Nat /\ Len(parts) >= 2 /\ Len(pattern) \in Nat
         /\ PrefixEnd \in 0..Len(pattern) /\ SuffixStart \in 0..Len(pattern)
         /\ PrefixEnd <= SuffixStart
         /\ NoStars(pattern, 0, PrefixEnd) /\ NoStars(pattern, SuffixStart, Len(pattern))
         /\ \A k \in 1..Len(parts) :
              (AnchoredEnd => k < Len(parts)) => parts[k][2] <= SuffixStart
<1> DEFINE n == Len(parts)
           L == Len(pattern)
<1>1. /\ L \in Nat /\ n \in Nat
      /\ \A k \in 1..n : /\ parts[k][1] \in 0..L /\ parts[k][2] \in 0..L
                         /\ parts[k][1] < parts[k][2]
                         /\ NoStars(pattern, parts[k][1], parts[k][2])
      /\ \A k, m \in 1..n : k < m => parts[k][2] < parts[m][1]
      /\ AnchoredStart => parts[1][1] = 0
      /\ AnchoredEnd => parts[n][2] = L
  BY CompiledShape, Zenon
<1>2. n >= 2
  BY CompiledKind, Zenon
<1>3. 1 \in 1..n /\ n \in 1..n /\ 1 < n
  BY <1>1, <1>2
<1>4. PrefixEnd \in 0..L /\ NoStars(pattern, 0, PrefixEnd)
  <2>1. CASE AnchoredStart
    BY <1>1, <1>3, <2>1, Zenon DEF PrefixEnd
  <2>2. CASE ~AnchoredStart
    BY <1>1, <2>2 DEF PrefixEnd, NoStars
  <2>. QED  BY <2>1, <2>2, Zenon
<1>5. SuffixStart \in 0..L /\ NoStars(pattern, SuffixStart, L)
  <2>1. CASE AnchoredEnd
    BY <1>1, <1>3, <2>1, Zenon DEF SuffixStart
  <2>2. CASE ~AnchoredEnd
    BY <1>1, <2>2 DEF SuffixStart, NoStars
  <2>. QED  BY <2>1, <2>2, Zenon
<1>6. ASSUME NEW k \in 1..n, AnchoredEnd => k < n
      PROVE  parts[k][2] <= SuffixStart
  <2>1. parts[k][2] \in 0..L
    BY <1>1, Zenon
  <2>2. CASE AnchoredEnd
    <3>1. parts[k][2] < SuffixStart
      BY <1>1, <1>3, <1>6, <2>2, Zenon DEF SuffixStart
    <3>. QED  BY <1>1, <1>5, <2>1, <3>1
  <2>3. CASE ~AnchoredEnd
    BY <1>1, <2>1, <2>3 DEF SuffixStart
  <2>. QED  BY <2>2, <2>3, Zenon
<1>7. PrefixEnd <= SuffixStart
  <2>1. CASE AnchoredStart
    BY <1>3, <1>6, <2>1, Zenon DEF PrefixEnd
  <2>2. CASE ~AnchoredStart
    BY <1>1, <1>5, <2>2 DEF PrefixEnd
  <2>. QED  BY <2>1, <2>2, Zenon
<1>. QED  BY <1>1, <1>2, <1>4, <1>5, <1>6, <1>7, Zenon

\* Nothing lies at every offset.
LEMMA EmptyLies ==
  ASSUME value \in Seq(Chars), NEW x \in 0..Len(value), NEW a \in Nat
  PROVE  At(<<>>, x) /\ LiesAt(pattern, value, a, a, x)
<1>1. Len(<<>>) = 0 /\ x \in Nat /\ Len(value) \in Nat
  OBVIOUS
<1>2. x + 1 \in Int /\ x + 0 \in Int /\ x + 0 < x + 1
  BY <1>1
<1>3. SubSeq(value, x + 1, x + 0) = <<>>
  BY <1>2, NoPart, Zenon
<1>4. x + Len(<<>>) <= Len(value) /\ x + Len(<<>>) = x + 0
  BY <1>1
<1>5. At(<<>>, x)
  BY <1>3, <1>4, Zenon DEF At
<1>6. LiesAt(pattern, value, a, a, x)
  BY <1>1 DEF LiesAt
<1>. QED  BY <1>5, <1>6, Zenon

\* The tests that matches_multi makes of the ends of the value.
LEMMA EndTests ==
  ASSUME pattern \in Seq(Chars), value \in Seq(Chars), Compiled, kind = "Multi"
  PROVE  LET prefix == IF AnchoredStart THEN Text(Head(parts)) ELSE <<>>
             suffix == IF AnchoredEnd THEN Text(parts[Len(parts)]) ELSE <<>>
         IN  /\ Len(prefix) = PrefixEnd /\ Len(value) - Len(suffix) = SuffixAt
             /\ StartsWith(prefix) <=> LiesAt(pattern, value, 0, PrefixEnd, 0)
             /\ EndsWith(suffix) <=> /\ 0 <= SuffixAt
                                     /\ LiesAt(pattern, value, SuffixStart, Len(pattern), SuffixAt)
<1> DEFINE n == Len(parts)
           L == Len(pattern)
           prefix == IF AnchoredStart THEN Text(Head(parts)) ELSE <<>>
           suffix == IF AnchoredEnd THEN Text(parts[Len(parts)]) ELSE <<>>
<1>1. /\ L \in Nat /\ n \in Nat /\ n >= 2
      /\ AnchoredStart => parts[1][1] = 0
      /\ AnchoredEnd => parts[n][2] = L
      /\ \A k \in 1..n : /\ parts[k][1] \in 0..L /\ parts[k][2] \in 0..L
                         /\ parts[k][1] <= parts[k][2]
  BY CompiledShape, MultiShape, Zenon
<1>2. 1 \in 1..n /\ n \in 1..n /\ Len(value) \in Nat /\ 0 \in 0..Len(value) /\ Len(value) \in 0..Len(value)
  BY <1>1
<1>3. parts # <<>> /\ Head(parts) = parts[1]
  <2>1. parts \in Seq((0..L) \X (0..L))
    BY CompiledShape, Zenon DEF Cut
  <2>. QED  BY <1>1, <2>1
<1>4. Len(prefix) = PrefixEnd /\ (StartsWith(prefix) <=> LiesAt(pattern, value, 0, PrefixEnd, 0))
  <2>1. CASE AnchoredStart
    <3>1. prefix = Text(parts[1]) /\ PrefixEnd = parts[1][2]
      BY <1>3, <2>1, Zenon DEF PrefixEnd
    <3>2. Len(Text(parts[1])) = parts[1][2] - parts[1][1]
      BY <1>1, <1>2, TextTests, Zenon
    <3>3. StartsWith(Text(parts[1])) <=> LiesAt(pattern, value, parts[1][1], parts[1][2], 0)
      BY <1>1, <1>2, TextTests, Zenon
    <3>4. Len(Text(parts[1])) = parts[1][2]
      BY <1>1, <1>2, <2>1, <3>2
    <3> HIDE DEF prefix
    <3>. QED  BY <1>1, <2>1, <3>1, <3>3, <3>4, Zenon
  <2>2. CASE ~AnchoredStart
    <3>1. prefix = <<>> /\ PrefixEnd = 0 /\ Len(<<>>) = 0 /\ 0 \in Nat
      BY <2>2, Zenon DEF PrefixEnd
    <3>2. At(<<>>, 0) /\ LiesAt(pattern, value, 0, 0, 0)
      BY <1>2, <3>1, EmptyLies, Zenon
    <3> HIDE DEF prefix
    <3>. QED  BY <3>1, <3>2, Zenon DEF StartsWith
  <2>. QED  BY <2>1, <2>2, Zenon
<1>5. /\ Len(value) - Len(suffix) = SuffixAt
      /\ EndsWith(suffix) <=> /\ 0 <= SuffixAt
                              /\ LiesAt(pattern, value, SuffixStart, L, SuffixAt)
  <2>1. CASE AnchoredEnd
    <3>1. suffix = Text(parts[n]) /\ SuffixStart = parts[n][1] /\ parts[n][2] = L
      BY <1>1, <1>3, <2>1, Zenon DEF SuffixStart
    <3>2. /\ Len(Text(parts[n])) = parts[n][2] - parts[n][1]
          /\ EndsWith(Text(parts[n])) <=>
               /\ 0 <= Len(value) - (parts[n][2] - parts[n][1])
               /\ LiesAt(pattern, value, parts[n][1], parts[n][2], Len(value) - (parts[n][2] - parts[n][1]))
      BY <1>1, <1>2, TextTests, Zenon
    <3> HIDE DEF suffix
    <3>. QED  BY <3>1, <3>2, Zenon DEF SuffixAt
  <2>2. CASE ~AnchoredEnd
    <3>1. suffix = <<>> /\ SuffixStart = L /\ Len(<<>>) = 0
      BY <2>2, Zenon DEF SuffixStart
    <3>2. SuffixAt = Len(value)
      BY <1>1, <1>2, <3>1 DEF SuffixAt
    <3>3. Len(<<>>) <= Len(value) /\ Len(value) - Len(<<>>) = Len(value) /\ 0 <= Len(value)
      BY <1>2
    <3>4. At(<<>>, Len(value)) /\ LiesAt(pattern, value, L, L, Len(value))
      BY <1>1, <1>2, EmptyLies, Zenon
    <3>5. EndsWith(<<>>)
      BY <3>3, <3>4, Zenon DEF EndsWith
    <3> HIDE DEF suffix
    <3>. QED  BY <3>1, <3>2, <3>3, <3>4, <3>5, Zenon
  <2>. QED  BY <2>1, <2>2, Zenon
<1>. QED  BY <1>4, <1>5, Zenon

\* Taking off the anchored ends leaves the question of what lies between them.
LEMMA AnchorsRight ==
  ASSUME pattern \in Seq(Chars), value \in Seq(Chars), Compiled, kind = "Multi"
  PROVE  LET ends == /\ LiesAt(pattern, value, 0, PrefixEnd, 0)
                     /\ LiesAt(pattern, value, SuffixStart, Len(pattern), SuffixAt)
                     /\ PrefixEnd <= SuffixAt
         IN  /\ ~ends => ~Means(pattern, value)
             /\ ends => (Means(pattern, value) <=> Rest(pattern, value, PrefixEnd, PrefixEnd))
<1> DEFINE p == pattern
           v == value
           L == Len(pattern)
           b == PrefixEnd
           s == SuffixStart
<1>1. L \in Nat /\ b \in 0..L /\ s \in 0..L /\ b <= s /\ NoStars(p, 0, b) /\ NoStars(p, s, L)
  BY MultiShape, Zenon
<1>2. 0 \in 0..L /\ 0 \in 0..Len(v) /\ s \in b..L /\ 0 + (b - 0) = b
  BY <1>1
<1>3. Means(p, v) <=> LiesAt(p, v, 0, b, 0) /\ Rest(p, v, b, 0 + (b - 0))
  BY <1>1, <1>2, MeansIsRest, RestRun, Zenon
<1>4. Rest(p, v, b, b) => b <= SuffixAt /\ LiesAt(p, v, s, L, SuffixAt)
  BY <1>1, <1>2, RestFits, Zenon DEF SuffixAt
<1>. QED  BY <1>2, <1>3, <1>4, Zenon

\* The state of the search: the literals before the i-th are placed as early as they
\* can be, so a match of the whole is a match of the rest of the pattern from lo on.
Searching ==
  /\ kind = "Multi"
  /\ last = IF AnchoredEnd THEN Len(parts) - 1 ELSE Len(parts)
  /\ (AnchoredStart => i # 0) /\ i <= last
  /\ lo <= hi /\ hi = SuffixAt
  /\ LiesAt(pattern, value, SuffixStart, Len(pattern), SuffixAt)
  /\ Means(pattern, value) <=> Rest(pattern, value, EndBefore(parts, i), lo)

\* The numbers of the search are positions.
LEMMA SearchBounds ==
  ASSUME pattern \in Seq(Chars), value \in Seq(Chars), Compiled, Searching, lo \in Nat, i \in Nat
  PROVE  /\ Len(parts) \in Nat /\ last \in Nat /\ last <= Len(parts) /\ i \in 0..Len(parts)
         /\ Len(pattern) \in Nat /\ Len(value) \in Nat
         /\ hi \in 0..Len(value) /\ lo \in 0..Len(value)
         /\ SuffixStart \in 0..Len(pattern) /\ hi = Len(value) - (Len(pattern) - SuffixStart)
<1>1. kind = "Multi" /\ lo <= hi /\ hi = SuffixAt /\ i <= last
  BY Zenon DEF Searching
<1>2. /\ Len(parts) \in Nat /\ Len(parts) >= 2 /\ Len(pattern) \in Nat
      /\ SuffixStart \in 0..Len(pattern)
  BY <1>1, MultiShape, Zenon
<1>3. Len(value) \in Nat
  OBVIOUS
<1>4. last = Len(parts) - 1 \/ last = Len(parts)
  BY Zenon DEF Searching
<1>5. last \in Nat /\ last <= Len(parts) /\ i \in 0..Len(parts)
  BY <1>1, <1>2, <1>4
<1>6. hi = Len(value) - (Len(pattern) - SuffixStart)
  BY <1>1, Zenon DEF SuffixAt
<1>. QED  BY <1>1, <1>2, <1>3, <1>5, <1>6

\* A literal that is found keeps the question, one that is not answers it.
LEMMA FindRight ==
  ASSUME pattern \in Seq(Chars), value \in Seq(Chars), Compiled, Searching, i < last,
         lo \in Nat, i \in Nat
  PROVE  LET lit == Text(parts[i + 1])
             x == Min(Places(lit)) + Len(lit)
         IN  /\ Places(lit) = {} => ~Means(pattern, value)
             /\ Places(lit) # {} =>
                  /\ x \in 0..Len(value) /\ x <= hi
                  /\ Means(pattern, value) <=> Rest(pattern, value, EndBefore(parts, i + 1), x)
<1> DEFINE p == pattern
           v == value
           L == Len(pattern)
           n == Len(parts)
           a == EndBefore(parts, i)
           b == parts[i + 1][1]
           c == parts[i + 1][2]
           s == SuffixStart
           F == Fits(pattern, value, parts[i + 1][1], parts[i + 1][2], lo, hi)
           lit == Text(parts[i + 1])
<1>1. /\ n \in Nat /\ last \in Nat /\ last <= n /\ i \in 0..n /\ L \in Nat /\ Len(v) \in Nat
      /\ hi \in 0..Len(v) /\ lo \in 0..Len(v) /\ s \in 0..L /\ hi = Len(v) - (L - s)
  BY SearchBounds, Zenon
<1>2. kind = "Multi" /\ kind # "Exact" /\ (AnchoredStart => i # 0)
  BY Zenon DEF Searching
<1>3. /\ i + 1 \in 1..n /\ i + 1 \in 0..n /\ i # n /\ i + 1 # 0
      /\ i + 1 = n => ~AnchoredEnd
      /\ AnchoredEnd => i + 1 < n
  <2>1. last = IF AnchoredEnd THEN n - 1 ELSE n
    BY Zenon DEF Searching
  <2>. QED  BY <1>1, <2>1, SMTT(30)
<1>4. b \in 0..L /\ c \in 0..L /\ b < c /\ b <= c /\ NoStars(p, b, c)
  BY <1>2, <1>3, CompiledShape, Zenon
<1>5. a \in 0..L /\ a < b /\ AllStars(p, a, b)
  BY <1>1, <1>2, <1>3, CompiledGaps, Zenon
<1>6. EndBefore(parts, i + 1) = c
  BY <1>3, Zenon DEF EndBefore
<1>7. c < L /\ p[c + 1] = Star
  BY <1>2, <1>3, <1>6, CompiledGaps, Zenon
<1>8. c <= s /\ NoStars(p, s, L)
  BY <1>2, <1>3, MultiShape, Zenon
<1>9. b \in a..L /\ c \in b..L /\ s \in c..L /\ lo \in Nat /\ hi \in Nat /\ c - b \in Nat
  <2> HIDE DEF a, b, c, s, L
  <2>. QED  BY <1>1, <1>4, <1>5, <1>8
<1>10. /\ F = {} => ~Rest(p, v, a, lo)
       /\ \A y \in F : (\A z \in F : y <= z) => (Rest(p, v, a, lo) <=> Rest(p, v, c, y + (c - b)))
  BY <1>1, <1>4, <1>5, <1>7, <1>8, <1>9, GreedyStep, Zenon
<1>11. Len(lit) = c - b /\ \A y \in Nat : At(lit, y) <=> LiesAt(p, v, b, c, y)
  BY <1>4, TextTests, Zenon
<1>12. Places(lit) = F
  <2>1. \A y \in lo..hi : y \in Nat
    BY <1>1
  <2>. QED  BY <1>11, <2>1, Zenon DEF Places, Fits
<1>13. F \in SUBSET Nat /\ \A y \in F : y \in Nat /\ y + (c - b) <= hi
  <2>1. \A y \in lo..hi : y \in Nat
    BY <1>1
  <2>. QED  BY <2>1, Zenon DEF Fits
<1>14. Means(p, v) <=> Rest(p, v, a, lo)
  BY Zenon DEF Searching
<1> HIDE DEF F, lit
<1>15. ASSUME F # {}
       PROVE  /\ Min(F) + (c - b) \in 0..Len(v) /\ Min(F) + (c - b) <= hi
              /\ Rest(p, v, a, lo) <=> Rest(p, v, c, Min(F) + (c - b))
  <2>1. Min(F) \in F /\ \A z \in F : Min(F) <= z
    BY <1>13, <1>15, MinIsLeast, Zenon
  <2>2. Rest(p, v, a, lo) <=> Rest(p, v, c, Min(F) + (c - b))
    BY <1>10, <2>1, Zenon
  <2>3. Min(F) \in Nat /\ Min(F) + (c - b) <= hi
    BY <1>13, <2>1, Zenon
  <2>4. Min(F) + (c - b) \in 0..Len(v)
    <3> DEFINE m == Min(F)
               d == c - b
    <3>1. m \in Nat /\ d \in Nat /\ m + d <= hi /\ hi \in 0..Len(v) /\ Len(v) \in Nat
      BY <1>1, <1>9, <2>3, Zenon
    <3> HIDE DEF m, d
    <3>2. m + d \in 0..Len(v)
      BY <3>1
    <3>. QED  BY <3>2, Zenon DEF m, d
  <2>. QED  BY <2>2, <2>3, <2>4, Zenon
<1>16. /\ Places(lit) = {} => ~Means(p, v)
       /\ Places(lit) # {} =>
            /\ Min(Places(lit)) + Len(lit) \in 0..Len(v) /\ Min(Places(lit)) + Len(lit) <= hi
            /\ Means(p, v) <=> Rest(p, v, EndBefore(parts, i + 1), Min(Places(lit)) + Len(lit))
  BY <1>6, <1>10, <1>11, <1>12, <1>14, <1>15, Zenon
<1>. QED  BY <1>16, Zenon DEF lit

\* When every literal has its place, wildcards reach from there to the suffix.
LEMMA AllFoundRight ==
  ASSUME pattern \in Seq(Chars), value \in Seq(Chars), Compiled, Searching, i >= last,
         lo \in Nat, i \in Nat
  PROVE  Means(pattern, value)
<1> DEFINE p == pattern
           v == value
           L == Len(pattern)
           n == Len(parts)
           a == EndBefore(parts, i)
           s == SuffixStart
<1>1. /\ n \in Nat /\ last \in Nat /\ last <= n /\ i \in 0..n /\ L \in Nat /\ Len(v) \in Nat
      /\ lo \in 0..Len(v) /\ s \in 0..L
  BY SearchBounds, Zenon
<1>2. kind = "Multi" /\ kind # "Exact" /\ (AnchoredStart => i # 0) /\ i <= last
  BY Zenon DEF Searching
<1>3. i = last
  BY <1>1, <1>2
<1>4. NoStars(p, s, L) /\ a \in 0..L
  BY <1>1, <1>2, MultiShape, CompiledGaps, Zenon
<1>5. AllStars(p, a, s) /\ a < s
  <2>1. CASE AnchoredEnd
    <3>1. i # n /\ i + 1 = n
      BY <1>1, <1>3, <2>1 DEF Searching
    <3>2. a < parts[n][1] /\ AllStars(p, a, parts[n][1])
      BY <1>1, <1>2, <3>1, CompiledGaps, Zenon
    <3>. QED  BY <2>1, <3>2, Zenon DEF SuffixStart
  <2>2. CASE ~AnchoredEnd
    <3>1. i = n /\ s = L
      BY <1>1, <1>3, <2>2, Zenon DEF Searching, SuffixStart
    <3>2. a < L /\ AllStars(p, a, L)
      BY <1>1, <1>2, <2>2, <3>1, CompiledGaps, Zenon
    <3>. QED  BY <3>1, <3>2, Zenon
  <2>. QED  BY <2>1, <2>2, Zenon
<1>6. s \in a..L
  BY <1>1, <1>4, <1>5
<1>7. Rest(p, v, a, lo) <=> lo <= Len(v) - (L - s) /\ LiesAt(p, v, s, L, Len(v) - (L - s))
  BY <1>1, <1>4, <1>5, <1>6, RestTail, Zenon
<1>8. lo <= SuffixAt /\ LiesAt(p, v, s, L, SuffixAt) /\ (Means(p, v) <=> Rest(p, v, a, lo))
  BY Zenon DEF Searching
<1>. QED  BY <1>7, <1>8, Zenon DEF SuffixAt

-----------------------------------------------------------------------------
(* The inductive invariant *)

\* The state of the scan of new(): the literals up to start are cut.
Splitting ==
  /\ Stars(pattern) # {}
  /\ start \in 0..Len(pattern)
  /\ Cut(pattern, parts, start)
  /\ \A k \in 1..Len(parts) : parts[k][2] < start

Inv ==
  /\ TypeOK
  /\ pc = "new" => start = 0 /\ parts = <<>>
  /\ pc = "split" => Splitting
  /\ pc \in {"matches", "multi"} => Compiled
  /\ pc = "multi" => Searching
  /\ pc = "done" => (result <=> Means(pattern, value))

\* A sequence over a set is one over every larger set.
LEMMA WiderSeq ==
  ASSUME NEW S, NEW T, S \subseteq T, NEW s \in Seq(S)
  PROVE  s \in Seq(T)
<1>1. Len(s) \in Nat /\ s \in [1..Len(s) -> S]
  BY SeqTyped, Zenon
<1>2. s \in [1..Len(s) -> T]
  BY <1>1, Zenon
<1>. QED  BY <1>1, <1>2

\* The words of a state are sequences.
LEMMA WordsTyped ==
  ASSUME TypeOK
  PROVE  /\ pattern \in Seq(Chars) /\ Len(pattern) \in 0..MaxPattern
         /\ value \in Seq(Chars) /\ Len(value) \in 0..MaxValue
BY GlobAssumption, WordIsSeq, Zenon DEF TypeOK

\* The literals of a pattern have the type of the code's parts.
LEMMA CutTyped ==
  ASSUME NEW p \in Seq(Chars), Len(p) \in 0..MaxPattern, NEW ps, NEW n \in 0..Len(p), Cut(p, ps, n)
  PROVE  ps \in Seq((0..MaxPattern) \X (0..MaxPattern)) /\ Len(ps) \in 0..MaxPattern
<1>1. ps \in Seq((0..Len(p)) \X (0..Len(p))) /\ Len(ps) \in Nat
  BY CutBounds, Zenon DEF Cut
<1>2. (0..Len(p)) \X (0..Len(p)) \subseteq (0..MaxPattern) \X (0..MaxPattern)
  BY GlobAssumption
<1>3. ps \in Seq((0..MaxPattern) \X (0..MaxPattern))
  <2> DEFINE S == (0..Len(p)) \X (0..Len(p))
             T == (0..MaxPattern) \X (0..MaxPattern)
  <2>1. S \subseteq T /\ ps \in Seq(S)
    BY <1>1, <1>2, Zenon
  <2> HIDE DEF S, T
  <2>2. ps \in Seq(T)
    BY <2>1, WiderSeq, SMT
  <2>. QED  BY <2>2, Zenon DEF T
<1>4. Len(ps) <= Len(p)
  <2>1. CASE Len(ps) = 0
    BY <2>1
  <2>2. CASE Len(ps) # 0
    <3>1. Len(ps) \in 1..Len(ps)
      BY <1>1, <2>2
    <3>2. Len(ps) <= ps[Len(ps)][2] /\ ps[Len(ps)][2] \in 0..Len(p)
      BY <3>1, CutBounds, Zenon DEF Cut
    <3>. QED  BY <1>1, <3>2
  <2>. QED  BY <2>1, <2>2, Zenon
<1>. QED  BY <1>1, <1>3, <1>4, GlobAssumption

\* The scan starts with nothing cut.
LEMMA InitInv == Init => Inv
<1> SUFFICES ASSUME Init PROVE Inv
  BY Zenon
<1>1. <<>> \in Seq((0..MaxPattern) \X (0..MaxPattern)) /\ 0 \in 0..MaxPattern /\ 0 \in 0..MaxValue
  BY GlobAssumption
<1>2. TypeOK
  BY <1>1, Zenon DEF Init, TypeOK, Kinds
<1>. QED  BY <1>2, Zenon DEF Init, Inv

\* new() on a pattern without wildcards, and its preparation on any other.
LEMMA NewInv == Inv /\ New => Inv'
<1> SUFFICES ASSUME Inv, New PROVE Inv'
  BY Zenon
<1>1. /\ pc = "new" /\ start = 0 /\ parts = <<>> /\ TypeOK
      /\ UNCHANGED <<pattern, value, start, parts, lo, hi, i, last, result>>
  BY Zenon DEF Inv, New
<1>2. pattern \in Seq(Chars) /\ Len(pattern) \in Nat
  BY <1>1, WordsTyped, GlobAssumption
<1>3. CASE Stars(pattern) = {}
  <2>1. kind' = "Exact" /\ pc' = "matches"
    BY <1>3, Zenon DEF New
  <2>2. TypeOK'
    BY <1>1, <2>1, Zenon DEF TypeOK, Kinds
  <2>3. Compiled'
    BY <1>1, <1>3, <2>1, Zenon DEF Compiled, Stars
  <2>. QED  BY <2>1, <2>2, <2>3, Zenon DEF Inv
<1>4. CASE Stars(pattern) # {}
  <2>1. kind' = kind /\ pc' = "split"
    BY <1>4, Zenon DEF New
  <2>2. TypeOK'
    BY <1>1, <2>1, Zenon DEF TypeOK, Kinds
  <2>3. Cut(pattern, <<>>, 0) /\ 0 \in 0..Len(pattern) /\ \A k \in 1..Len(<<>>) : FALSE
    BY <1>2, CutNothing
  <2>4. Splitting
    BY <1>1, <1>4, <2>3, Zenon DEF Splitting
  <2>5. Splitting'
    BY <1>1, <2>4, Zenon DEF Splitting, Stars
  <2>. QED  BY <2>1, <2>2, <2>5, Zenon DEF Inv
<1>. QED  BY <1>3, <1>4, Zenon

\* A wildcard ends the literal being scanned.
LEMMA SplitAtInv == Inv /\ SplitAt => Inv'
<1> SUFFICES ASSUME Inv, SplitAt PROVE Inv'
  BY Zenon
<1> DEFINE s == Min(StarsLeft)
           L == Len(pattern)
<1>1. /\ pc = "split" /\ TypeOK /\ Splitting /\ StarsLeft # {}
      /\ parts' = PartsUpTo(s - 1) /\ start' = s
      /\ UNCHANGED <<pattern, value, pc, kind, lo, hi, i, last, result>>
  BY Zenon DEF Inv, SplitAt
<1>2. pattern \in Seq(Chars) /\ L \in Nat /\ L \in 0..MaxPattern
  BY <1>1, WordsTyped, GlobAssumption
<1>3. /\ Stars(pattern) # {} /\ start \in 0..L /\ Cut(pattern, parts, start)
      /\ \A k \in 1..Len(parts) : parts[k][2] < start
  BY <1>1, Zenon DEF Splitting
<1>4. s \in StarsLeft /\ \A t \in StarsLeft : s <= t
  <2>1. StarsLeft \in SUBSET Nat
    BY <1>2 DEF StarsLeft, Stars
  <2>. QED  BY <1>1, <2>1, MinIsLeast, Zenon
<1> HIDE DEF s
<1>5. s \in 1..L /\ pattern[s] = Star /\ start < s
  BY <1>3, <1>4, Zenon DEF StarsLeft, Stars
<1>6. s - 1 \in start..L /\ s - 1 \in 0..L /\ s - 1 < L /\ (s - 1) + 1 = s /\ s \in 0..L
  BY <1>2, <1>3, <1>5
<1>7. NoStars(pattern, start, s - 1)
  <2> SUFFICES ASSUME NEW j \in start + 1 .. s - 1, pattern[j] = Star PROVE FALSE
    BY Zenon DEF NoStars
  <2>1. j \in 1..L /\ j > start /\ ~(s <= j)
    BY <1>2, <1>3, <1>5
  <2>. QED  BY <1>4, <2>1, Zenon DEF StarsLeft, Stars
<1>8. Cut(pattern, PartsUpTo(s - 1), s - 1)
  <2>1. CASE start = s - 1
    BY <1>3, <2>1, Zenon DEF PartsUpTo
  <2>2. CASE start # s - 1
    <3>1. Cut(pattern, Append(parts, <<start, s - 1>>), s - 1)
      BY <1>2, <1>3, <1>6, <1>7, <2>2, CutGrows, Zenon
    <3>. QED  BY <2>2, <3>1, Zenon DEF PartsUpTo
  <2>. QED  BY <2>1, <2>2, Zenon
<1>9. /\ Cut(pattern, PartsUpTo(s - 1), s)
      /\ \A k \in 1..Len(PartsUpTo(s - 1)) : PartsUpTo(s - 1)[k][2] < s
  <2>1. pattern[(s - 1) + 1] = Star
    BY <1>5, <1>6, Zenon
  <2>2. /\ Cut(pattern, PartsUpTo(s - 1), (s - 1) + 1)
        /\ \A k \in 1..Len(PartsUpTo(s - 1)) : PartsUpTo(s - 1)[k][2] < (s - 1) + 1
    BY <1>2, <1>6, <1>8, <2>1, CutStar, Zenon
  <2>. QED  BY <1>6, <2>2, Zenon
<1>10. parts' \in Seq((0..MaxPattern) \X (0..MaxPattern)) /\ s \in 0..MaxPattern
  <2>1. PartsUpTo(s - 1) \in Seq((0..MaxPattern) \X (0..MaxPattern))
    BY <1>2, <1>6, <1>9, CutTyped, Zenon
  <2>2. s \in 0..MaxPattern
    BY <1>2, <1>5, GlobAssumption
  <2>. QED  BY <1>1, <2>1, <2>2, Zenon
<1>11. TypeOK'
  BY <1>1, <1>10, Zenon DEF TypeOK
<1>12. Splitting'
  <2>1. pattern' = pattern /\ start' = s /\ parts' = PartsUpTo(s - 1)
    BY <1>1, Zenon DEF s
  <2>2. Stars(pattern') # {} /\ Cut(pattern', parts', start')
    BY <1>3, <1>9, <2>1, Zenon
  <2>3. start' \in 0..Len(pattern') /\ \A k \in 1..Len(parts') : parts'[k][2] < start'
    BY <1>6, <1>9, <2>1, Zenon
  <2>. QED  BY <2>2, <2>3, Zenon DEF Splitting
<1>. QED  BY <1>1, <1>11, <1>12, Zenon DEF Inv

\* The end of the pattern ends the last literal, and the kind is chosen.
LEMMA EndSplitInv == Inv /\ EndSplit => Inv'
<1> SUFFICES ASSUME Inv, EndSplit PROVE Inv'
  BY Zenon
<1> DEFINE L == Len(pattern)
<1>1. /\ pc = "split" /\ TypeOK /\ Splitting /\ StarsLeft = {} /\ pc' = "matches"
      /\ parts' = PartsUpTo(L) /\ kind' = KindOf(parts')
      /\ UNCHANGED <<pattern, value, start, lo, hi, i, last, result>>
  BY Zenon DEF Inv, EndSplit
<1>2. pattern \in Seq(Chars) /\ L \in Nat /\ L \in 0..MaxPattern
  BY <1>1, WordsTyped, GlobAssumption
<1>3. /\ Stars(pattern) # {} /\ start \in 0..L /\ Cut(pattern, parts, start)
      /\ \A k \in 1..Len(parts) : parts[k][2] < start
  BY <1>1, Zenon DEF Splitting
<1>4. L \in start..L /\ L \in 0..L
  BY <1>2, <1>3
<1>5. NoStars(pattern, start, L)
  <2> SUFFICES ASSUME NEW j \in start + 1 .. L, pattern[j] = Star PROVE FALSE
    BY Zenon DEF NoStars
  <2>1. j \in 1..L /\ j > start
    BY <1>2, <1>3
  <2>. QED  BY <1>1, <2>1, Zenon DEF StarsLeft, Stars
<1>6. Cut(pattern, PartsUpTo(L), L)
  <2>1. CASE start = L
    BY <1>3, <2>1, Zenon DEF PartsUpTo
  <2>2. CASE start # L
    <3>1. Cut(pattern, Append(parts, <<start, L>>), L)
      BY <1>2, <1>3, <1>4, <1>5, <2>2, CutGrows, Zenon
    <3>. QED  BY <2>2, <3>1, Zenon DEF PartsUpTo
  <2>. QED  BY <2>1, <2>2, Zenon
<1>7. PartsUpTo(L) \in Seq((0..MaxPattern) \X (0..MaxPattern)) /\ Len(PartsUpTo(L)) \in Nat
  <2>1. /\ PartsUpTo(L) \in Seq((0..MaxPattern) \X (0..MaxPattern))
        /\ Len(PartsUpTo(L)) \in 0..MaxPattern
    BY <1>2, <1>4, <1>6, CutTyped, Zenon
  <2>. QED  BY <2>1, GlobAssumption
<1>8. KindOf(PartsUpTo(L)) \in Kinds
  BY <1>7, KindCases, Zenon
<1>9. TypeOK'
  <2>1. kind' \in Kinds /\ parts' \in Seq((0..MaxPattern) \X (0..MaxPattern))
    BY <1>1, <1>7, <1>8, Zenon
  <2>. QED  BY <1>1, <2>1, Zenon DEF TypeOK
<1>10. Compiled'
  <2>1. pattern' = pattern /\ parts' = PartsUpTo(L)
    BY <1>1, Zenon
  <2>2. kind' = KindOf(parts)'
    BY <1>1, Zenon DEF KindOf, AnchoredStart, AnchoredEnd
  <2>3. Stars(pattern') # {} /\ Cut(pattern', parts', Len(pattern'))
    BY <1>3, <1>6, <2>1, Zenon
  <2>. QED  BY <2>2, <2>3, Zenon DEF Compiled
<1>. QED  BY <1>1, <1>9, <1>10, Zenon DEF Inv

\* A pattern stays compiled.
LEMMA CompiledFrame ==
  ASSUME Compiled, UNCHANGED <<pattern, kind, parts>>
  PROVE  Compiled'
<1>1. pattern' = pattern /\ kind' = kind /\ parts' = parts
  BY Zenon
<1>2. KindOf(parts)' = KindOf(parts)
  BY <1>1, Zenon DEF KindOf, AnchoredStart, AnchoredEnd
<1>3. Stars(pattern)' = Stars(pattern) /\ (Cut(pattern, parts, Len(pattern))' <=> Cut(pattern, parts, Len(pattern)))
  BY <1>1, Zenon
<1>. QED  BY <1>1, <1>2, <1>3, Zenon DEF Compiled

\* An answer that is right ends in a state that is right.
LEMMA ReturnInv ==
  ASSUME Inv, NEW answer \in BOOLEAN, answer <=> Means(pattern, value), Return(answer),
         UNCHANGED <<lo, hi, i, last>>
  PROVE  Inv'
<1>1. /\ pc' = "done" /\ result' = answer
      /\ UNCHANGED <<pattern, value, start, kind, parts, lo, hi, i, last>>
  BY Zenon DEF Return
<1>2. TypeOK'
  BY <1>1, Zenon DEF Inv, TypeOK
<1>3. result' <=> Means(pattern', value')
  BY <1>1, Zenon
<1>. QED  BY <1>1, <1>2, <1>3, Zenon DEF Inv

\* matches() of every kind but Multi.
LEMMA MatchKindInv == Inv /\ MatchKind => Inv'
<1> SUFFICES ASSUME Inv, MatchKind PROVE Inv'
  BY Zenon
<1>1. /\ pc = "matches" /\ kind # "Multi" /\ TypeOK /\ Compiled
      /\ Return(MatchesSimple) /\ UNCHANGED <<lo, hi, i, last>>
  BY Zenon DEF Inv, MatchKind
<1>2. pattern \in Seq(Chars) /\ value \in Seq(Chars)
  BY <1>1, WordsTyped, Zenon
<1>3. MatchesSimple <=> Means(pattern, value)
  BY <1>1, <1>2, SimpleRight, Zenon
<1>4. MatchesSimple \in BOOLEAN
  <2>1. kind \in {"Any", "Exact", "Prefix", "Suffix", "Contains", "PrefixSuffix"}
    BY <1>1, <1>2, CompiledKind, Zenon
  <2>2. StartsWith(Text(parts[1])) \in BOOLEAN /\ EndsWith(Text(parts[1])) \in BOOLEAN
    BY Zenon DEF StartsWith, EndsWith, At
  <2>. QED  BY <2>1, <2>2, Zenon DEF MatchesSimple
<1>. QED  BY <1>1, <1>3, <1>4, ReturnInv, Zenon

\* matches_multi takes off the anchored ends.
LEMMA AnchorsInv == Inv /\ Anchors => Inv'
<1> SUFFICES ASSUME Inv, Anchors PROVE Inv'
  BY Zenon
<1> DEFINE prefix == IF AnchoredStart THEN Text(Head(parts)) ELSE <<>>
           suffix == IF AnchoredEnd THEN Text(parts[Len(parts)]) ELSE <<>>
           test == /\ StartsWith(prefix) /\ EndsWith(suffix)
                   /\ Len(prefix) <= Len(value) - Len(suffix)
           L == Len(pattern)
           n == Len(parts)
<1>1. pc = "matches" /\ kind = "Multi" /\ TypeOK /\ Compiled
  BY Zenon DEF Inv, Anchors
<1>2. /\ pattern \in Seq(Chars) /\ L \in 0..MaxPattern
      /\ value \in Seq(Chars) /\ Len(value) \in 0..MaxValue
  BY <1>1, WordsTyped, Zenon
<1>3. /\ Len(prefix) = PrefixEnd /\ Len(value) - Len(suffix) = SuffixAt
      /\ StartsWith(prefix) <=> LiesAt(pattern, value, 0, PrefixEnd, 0)
      /\ EndsWith(suffix) <=> /\ 0 <= SuffixAt
                              /\ LiesAt(pattern, value, SuffixStart, L, SuffixAt)
  BY <1>1, <1>2, EndTests, Zenon
<1>4. /\ n \in Nat /\ n >= 2 /\ L \in Nat /\ PrefixEnd \in 0..L /\ SuffixStart \in 0..L
  BY <1>1, <1>2, MultiShape, Zenon
<1>5. Len(value) \in Nat /\ (PrefixEnd <= SuffixAt => 0 <= SuffixAt)
  BY <1>2, <1>4, GlobAssumption DEF SuffixAt
<1>6. test <=> /\ LiesAt(pattern, value, 0, PrefixEnd, 0)
               /\ LiesAt(pattern, value, SuffixStart, L, SuffixAt)
               /\ PrefixEnd <= SuffixAt
  BY <1>3, <1>5, Zenon
<1>7. IF test
      THEN /\ lo' = Len(prefix) /\ hi' = Len(value) - Len(suffix)
           /\ i' = IF AnchoredStart THEN 1 ELSE 0
           /\ last' = IF AnchoredEnd THEN Len(parts) - 1 ELSE Len(parts)
           /\ pc' = "multi" /\ UNCHANGED <<pattern, value, start, kind, parts, result>>
      ELSE Return(FALSE) /\ UNCHANGED <<lo, hi, i, last>>
  BY Zenon DEF Anchors
<1> HIDE DEF prefix, suffix, test
<1>8. CASE ~test
  <2>1. ~Means(pattern, value)
    BY <1>1, <1>2, <1>6, <1>8, AnchorsRight, Zenon
  <2>. QED  BY <1>7, <1>8, <2>1, ReturnInv, Zenon
<1>9. CASE test
  <2>1. /\ lo' = PrefixEnd /\ hi' = SuffixAt
        /\ i' = (IF AnchoredStart THEN 1 ELSE 0)
        /\ last' = (IF AnchoredEnd THEN n - 1 ELSE n)
        /\ pc' = "multi" /\ UNCHANGED <<pattern, value, start, kind, parts, result>>
    BY <1>3, <1>7, <1>9, Zenon
  <2>2. Means(pattern, value) <=> Rest(pattern, value, PrefixEnd, PrefixEnd)
    BY <1>1, <1>2, <1>6, <1>9, AnchorsRight, Zenon
  <2>3. EndBefore(parts, IF AnchoredStart THEN 1 ELSE 0) = PrefixEnd
    BY DEF EndBefore, PrefixEnd
  <2>4. SuffixAt \in 0..Len(value) /\ PrefixEnd \in 0..Len(value) /\ PrefixEnd <= SuffixAt
    BY <1>4, <1>5, <1>6, <1>9 DEF SuffixAt
  <2>5. n \in 0..MaxPattern
    <3>1. Cut(pattern, parts, L) /\ L \in 0..L
      BY <1>1, <1>2, <1>4, CompiledShape
    <3>. QED  BY <1>2, <3>1, CutTyped, Zenon
  <2>6. TypeOK'
    <3>1. lo' \in 0..MaxValue /\ hi' \in 0..MaxValue
      BY <1>2, <2>1, <2>4, GlobAssumption
    <3>2. i' \in 0..MaxPattern /\ last' \in 0..MaxPattern
      BY <1>4, <2>1, <2>5, GlobAssumption
    <3>. QED  BY <1>1, <2>1, <3>1, <3>2, Zenon DEF TypeOK
  <2>7. Compiled'
    BY <1>1, <2>1, CompiledFrame, Zenon
  <2>8. Searching'
    <3>1. pattern' = pattern /\ value' = value /\ parts' = parts /\ kind' = kind
      BY <2>1, Zenon
    <3>2. /\ AnchoredStart' <=> AnchoredStart
          /\ AnchoredEnd' <=> AnchoredEnd
      BY <3>1, Zenon DEF AnchoredStart, AnchoredEnd
    <3>3. SuffixStart' = SuffixStart /\ SuffixAt' = SuffixAt
      BY <3>1, <3>2, Zenon DEF SuffixStart, SuffixAt
    <3>4. (AnchoredStart => i' # 0) /\ i' <= last'
      BY <1>4, <2>1
    <3>5. EndBefore(parts', i') = PrefixEnd
      BY <2>1, <2>3, Zenon
    <3>6. LiesAt(pattern', value', SuffixStart', Len(pattern'), SuffixAt')
      BY <1>6, <1>9, <3>1, <3>3, Zenon
    <3>7. Means(pattern', value') <=> Rest(pattern', value', EndBefore(parts', i'), lo')
      BY <2>1, <2>2, <3>1, <3>5, Zenon
    <3>8. lo' <= hi' /\ hi' = SuffixAt'
      BY <2>1, <2>4, <3>3, Zenon
    <3>9. last' = IF AnchoredEnd' THEN Len(parts') - 1 ELSE Len(parts')
      BY <2>1, <3>1, <3>2, Zenon
    <3>. QED  BY <1>1, <3>1, <3>2, <3>4, <3>6, <3>7, <3>8, <3>9, Zenon DEF Searching
  <2>. QED  BY <2>1, <2>6, <2>7, <2>8, Zenon DEF Inv
<1>. QED  BY <1>8, <1>9, Zenon

\* matches_multi finds the next literal, or fails to.
LEMMA FindPartInv == Inv /\ FindPart => Inv'
<1> SUFFICES ASSUME Inv, FindPart PROVE Inv'
  BY Zenon
<1> DEFINE lit == Text(parts[i + 1])
           x == Min(Places(lit)) + Len(lit)
<1>1. pc = "multi" /\ i < last /\ TypeOK /\ Compiled /\ Searching
  BY Zenon DEF Inv, FindPart
<1>2. /\ pattern \in Seq(Chars) /\ value \in Seq(Chars)
      /\ Len(pattern) \in 0..MaxPattern /\ Len(value) \in 0..MaxValue
  BY <1>1, WordsTyped, Zenon
<1>3. lo \in Nat /\ i \in Nat /\ last \in Nat
  BY <1>1, GlobAssumption DEF TypeOK
<1>4. /\ Places(lit) = {} => ~Means(pattern, value)
      /\ Places(lit) # {} =>
           /\ x \in 0..Len(value) /\ x <= hi
           /\ Means(pattern, value) <=> Rest(pattern, value, EndBefore(parts, i + 1), x)
  BY <1>1, <1>2, <1>3, FindRight, Zenon
<1>5. IF Places(lit) = {}
      THEN Return(FALSE) /\ UNCHANGED <<lo, hi, i, last>>
      ELSE /\ lo' = x /\ i' = i + 1
           /\ UNCHANGED <<pattern, value, pc, start, kind, parts, hi, last, result>>
  BY Zenon DEF FindPart
<1> HIDE DEF lit, x
<1>6. CASE Places(lit) = {}
  BY <1>4, <1>5, <1>6, ReturnInv, Zenon
<1>7. CASE Places(lit) # {}
  <2>1. /\ lo' = x /\ i' = i + 1
        /\ UNCHANGED <<pattern, value, pc, start, kind, parts, hi, last, result>>
    BY <1>5, <1>7, Zenon
  <2>2. /\ x \in 0..Len(value) /\ x <= hi
        /\ Means(pattern, value) <=> Rest(pattern, value, EndBefore(parts, i + 1), x)
    BY <1>4, <1>7, Zenon
  <2>3. TypeOK'
    <3>1. lo' \in 0..MaxValue
      BY <1>2, <2>1, <2>2, GlobAssumption
    <3>2. i' \in 0..MaxPattern
      BY <1>1, <1>3, <2>1, GlobAssumption DEF TypeOK
    <3>. QED  BY <1>1, <2>1, <3>1, <3>2, Zenon DEF TypeOK
  <2>4. Compiled'
    BY <1>1, <2>1, CompiledFrame, Zenon
  <2>5. Searching'
    <3>1. /\ pattern' = pattern /\ value' = value /\ parts' = parts /\ kind' = kind
          /\ last' = last /\ hi' = hi
      BY <2>1, Zenon
    <3>2. /\ AnchoredStart' <=> AnchoredStart
          /\ AnchoredEnd' <=> AnchoredEnd
      BY <3>1, Zenon DEF AnchoredStart, AnchoredEnd
    <3>3. SuffixStart' = SuffixStart /\ SuffixAt' = SuffixAt
      BY <3>1, <3>2, Zenon DEF SuffixStart, SuffixAt
    <3>4. i' # 0 /\ i' <= last
      BY <1>1, <1>3, <2>1
    <3>5. Means(pattern', value') <=> Rest(pattern', value', EndBefore(parts', i'), lo')
      BY <2>1, <2>2, <3>1, Zenon
    <3>6. lo' <= hi'
      BY <2>1, <2>2, <3>1, Zenon
    <3>. QED  BY <1>1, <3>1, <3>2, <3>3, <3>4, <3>5, <3>6, Zenon DEF Searching
  <2>. QED  BY <1>1, <2>1, <2>3, <2>4, <2>5, Zenon DEF Inv
<1>. QED  BY <1>6, <1>7, Zenon

\* matches_multi has found every literal.
LEMMA AllFoundInv == Inv /\ AllFound => Inv'
<1> SUFFICES ASSUME Inv, AllFound PROVE Inv'
  BY Zenon
<1>1. /\ pc = "multi" /\ i >= last /\ TypeOK /\ Compiled /\ Searching
      /\ Return(TRUE) /\ UNCHANGED <<lo, hi, i, last>>
  BY Zenon DEF Inv, AllFound
<1>2. pattern \in Seq(Chars) /\ value \in Seq(Chars)
  BY <1>1, WordsTyped, Zenon
<1>3. lo \in Nat /\ i \in Nat
  BY <1>1, GlobAssumption DEF TypeOK
<1>4. Means(pattern, value)
  BY <1>1, <1>2, <1>3, AllFoundRight, Zenon
<1>. QED  BY <1>1, <1>4, ReturnInv, Zenon

\* A step that changes nothing.
LEMMA StutterInv == Inv /\ UNCHANGED vars => Inv'
<1> SUFFICES ASSUME Inv, UNCHANGED vars PROVE Inv'
  BY Zenon
<1>1. /\ pattern' = pattern /\ value' = value /\ pc' = pc /\ start' = start /\ kind' = kind
      /\ parts' = parts /\ lo' = lo /\ hi' = hi /\ i' = i /\ last' = last /\ result' = result
  BY Zenon DEF vars
<1>2. TypeOK' <=> TypeOK
  BY <1>1, Zenon DEF TypeOK
<1>3. AnchoredStart' <=> AnchoredStart
  BY <1>1, Zenon DEF AnchoredStart
<1>4. AnchoredEnd' <=> AnchoredEnd
  BY <1>1, Zenon DEF AnchoredEnd
<1>5. Splitting' <=> Splitting
  BY <1>1, Zenon DEF Splitting
<1>6. Compiled => Compiled'
  BY <1>1, CompiledFrame, Zenon
<1>7. SuffixStart' = SuffixStart /\ SuffixAt' = SuffixAt
  BY <1>1, <1>4, Zenon DEF SuffixStart, SuffixAt
<1>8. Searching => Searching'
  BY <1>1, <1>3, <1>4, <1>7, Zenon DEF Searching
<1>. QED  BY <1>1, <1>2, <1>5, <1>6, <1>8, Zenon DEF Inv

-----------------------------------------------------------------------------
(* Theorems *)

\* The loops of new() and matches_multi keep the invariant.
THEOREM InvHolds == Spec => []Inv
<1>1. Inv /\ [Next]_vars => Inv'
  BY NewInv, SplitAtInv, EndSplitInv, MatchKindInv, AnchorsInv, FindPartInv, AllFoundInv,
     StutterInv, Zenon DEF Next
<1>. QED  BY <1>1, InitInv, PTL DEF Spec

\* Every variable of new() and matches() keeps its type: no index leaves the
\* pattern or the value.
THEOREM TypeCorrect == Spec => []TypeOK
<1>1. Inv => TypeOK
  BY Zenon DEF Inv
<1>. QED  BY <1>1, InvHolds, PTL

\* SegmentGlob::matches answers what the pattern means, whatever the pattern and
\* the value: the short cuts of every kind and the greedy search of matches_multi.
THEOREM MatchesMeaning == Spec => []AgreesWithMeaning
<1>1. Inv => AgreesWithMeaning
  BY Zenon DEF Inv, AgreesWithMeaning
<1>. QED  BY <1>1, InvHolds, PTL

\* No slice that matches() takes is out of bounds, whatever the pattern and the value:
\* pattern[start..end], value[search_start..search_end] and parts[first..last] never
\* panic.
THEOREM SlicesHold == Spec => []SlicesInRange
<1>1. Inv => SlicesInRange
  <2> SUFFICES ASSUME Inv PROVE SlicesInRange
    BY Zenon
  <2>1. TypeOK /\ pattern \in Seq(Chars) /\ value \in Seq(Chars)
    BY WordsTyped, Zenon DEF Inv
  <2>2. ASSUME pc \in {"matches", "multi"}, NEW k \in DOMAIN parts
        PROVE  parts[k][1] < parts[k][2] /\ parts[k][2] <= Len(pattern)
    <3>1. Compiled
      BY <2>2, Zenon DEF Inv
    <3>2. DOMAIN parts = 1..Len(parts)
      BY <2>1, SeqTyped, Zenon DEF TypeOK
    <3>3. CASE kind = "Exact"
      <4>1. parts # <<>>
        BY <2>2
      <4>2. Cut(pattern, parts, Len(pattern)) /\ kind = KindOf(parts)
        BY <3>1, <4>1, Zenon DEF Compiled
      <4>3. Len(parts) \in Nat
        BY <2>1, <4>2, CutBounds, Zenon
      <4>. QED  BY <3>3, <4>2, <4>3, KindCases, Zenon
    <3>4. CASE kind # "Exact"
      <4>1. Cut(pattern, parts, Len(pattern))
        BY <2>1, <3>1, <3>4, CompiledShape, Zenon
      <4>. QED  BY <2>2, <3>2, <4>1, Zenon DEF Cut
    <3>. QED  BY <3>3, <3>4, Zenon
  <2>3. ASSUME pc = "multi"
        PROVE  lo <= hi /\ hi <= Len(value) /\ i <= last /\ last <= Len(parts)
    <3>1. Compiled /\ Searching
      BY <2>3, Zenon DEF Inv
    <3>2. lo \in Nat /\ i \in Nat
      BY <2>1, GlobAssumption DEF TypeOK
    <3>3. last <= Len(parts) /\ hi \in 0..Len(value)
      BY <2>1, <3>1, <3>2, SearchBounds, Zenon
    <3>4. lo <= hi /\ i <= last
      BY <3>1, Zenon DEF Searching
    <3>. QED  BY <3>3, <3>4
  <2>. QED  BY <2>2, <2>3, Zenon DEF SlicesInRange
<1>. QED  BY <1>1, InvHolds, PTL
-----------------------------------------------------------------------------
(* The number of steps *)

\* A bound on the steps that new() and matches() have yet to take.
StepsLeft ==
  CASE pc = "new" -> 2 * Len(pattern) + 5
    [] pc = "split" -> (2 * Len(pattern) + 4) - start
    [] pc = "matches" -> Len(pattern) + 3
    [] pc = "multi" -> (last - i) + 2
    [] pc = "done" -> 0

\* The bound is a number.
LEMMA StepsLeftTyped == Inv => StepsLeft \in Nat
<1> SUFFICES ASSUME Inv PROVE StepsLeft \in Nat
  BY Zenon
<1>1. TypeOK /\ Len(pattern) \in Nat
  BY WordsTyped, GlobAssumption DEF Inv
<1>2. pc = "split" => start \in 0..Len(pattern)
  BY Zenon DEF Inv, Splitting
<1>3. pc = "multi" => i <= last /\ i \in Nat /\ last \in Nat
  <2>1. i \in Nat /\ last \in Nat
    BY <1>1, GlobAssumption DEF TypeOK
  <2>. QED  BY <2>1, Zenon DEF Inv, Searching
<1>4. pc \in {"new", "split", "matches", "multi", "done"}
  BY <1>1, Zenon DEF TypeOK
<1>5. /\ pc = "new" => StepsLeft = 2 * Len(pattern) + 5
      /\ pc = "split" => StepsLeft = (2 * Len(pattern) + 4) - start
      /\ pc = "matches" => StepsLeft = Len(pattern) + 3
      /\ pc = "multi" => StepsLeft = (last - i) + 2
      /\ pc = "done" => StepsLeft = 0
  BY Zenon DEF StepsLeft
<1>. QED  BY <1>1, <1>2, <1>3, <1>4, <1>5

\* Every step brings the answer nearer.
LEMMA StepsLeftFall == Inv /\ Next => StepsLeft' < StepsLeft
<1> SUFFICES ASSUME Inv, Next PROVE StepsLeft' < StepsLeft
  BY Zenon
<1> DEFINE L == Len(pattern)
<1>1. TypeOK /\ pattern \in Seq(Chars) /\ value \in Seq(Chars) /\ L \in Nat
  BY WordsTyped, GlobAssumption DEF Inv
<1>2. pc = "split" => start \in 0..L
  BY Zenon DEF Inv, Splitting
<1>3. Len(pattern') = L
  <2>1. pattern' = pattern
    BY Zenon DEF Next, New, SplitAt, EndSplit, MatchKind, Anchors, FindPart, AllFound, Return
  <2>. QED  BY <2>1, Zenon
<1>4. StepsLeft \in Nat
  BY StepsLeftTyped, Zenon
<1>5. ASSUME pc' = "done", pc # "done" PROVE StepsLeft' < StepsLeft
  <2>1. StepsLeft' = 0
    BY <1>5, Zenon DEF StepsLeft
  <2>2. StepsLeft # 0
    <3>1. pc = "multi" => i <= last /\ i \in Nat /\ last \in Nat
      <4>1. i \in Nat /\ last \in Nat
        BY <1>1, GlobAssumption DEF TypeOK
      <4>. QED  BY <4>1, Zenon DEF Inv, Searching
    <3>2. pc \in {"new", "split", "matches", "multi"}
      BY <1>1, <1>5, Zenon DEF TypeOK
    <3>3. /\ pc = "new" => StepsLeft = 2 * L + 5
          /\ pc = "split" => StepsLeft = (2 * L + 4) - start
          /\ pc = "matches" => StepsLeft = L + 3
          /\ pc = "multi" => StepsLeft = (last - i) + 2
      BY Zenon DEF StepsLeft
    <3>. QED  BY <1>1, <1>2, <3>1, <3>2, <3>3
  <2>. QED  BY <1>4, <2>1, <2>2
<1>6. CASE New
  <2>1. pc = "new" /\ start = 0 /\ UNCHANGED start /\ pc' \in {"matches", "split"}
    BY <1>6, Zenon DEF Inv, New
  <2>2. /\ StepsLeft = 2 * L + 5
        /\ pc' = "matches" => StepsLeft' = L + 3
        /\ pc' = "split" => StepsLeft' = (2 * L + 4) - 0
    BY <1>3, <2>1, Zenon DEF StepsLeft
  <2>. QED  BY <1>1, <2>1, <2>2
<1>7. CASE SplitAt
  <2>1. pc = "split" /\ pc' = "split" /\ StarsLeft # {} /\ start' = Min(StarsLeft)
    BY <1>7, Zenon DEF SplitAt
  <2>2. StarsLeft \in SUBSET Nat
    BY <1>1 DEF StarsLeft, Stars
  <2>3. start' \in StarsLeft
    BY <2>1, <2>2, MinIsLeast, Zenon
  <2>4. start' \in 1..L /\ start' > start
    BY <2>3, Zenon DEF StarsLeft, Stars
  <2>5. StepsLeft = (2 * L + 4) - start /\ StepsLeft' = (2 * L + 4) - start'
    BY <1>3, <2>1, Zenon DEF StepsLeft
  <2>. QED  BY <1>1, <1>2, <2>1, <2>4, <2>5
<1>8. CASE EndSplit
  <2>1. pc = "split" /\ pc' = "matches"
    BY <1>8, Zenon DEF EndSplit
  <2>2. StepsLeft = (2 * L + 4) - start /\ StepsLeft' = L + 3
    BY <1>3, <2>1, Zenon DEF StepsLeft
  <2>. QED  BY <1>1, <1>2, <2>1, <2>2
<1>9. CASE MatchKind
  BY <1>5, <1>9, Zenon DEF MatchKind, Return
<1>10. CASE Anchors
  <2>1. CASE pc' = "done"
    BY <1>5, <1>10, <2>1, Zenon DEF Anchors
  <2>2. CASE pc' # "done"
    <3>1. /\ pc = "matches" /\ pc' = "multi" /\ kind = "Multi" /\ parts' = parts
          /\ i' = (IF AnchoredStart THEN 1 ELSE 0)
          /\ last' = (IF AnchoredEnd THEN Len(parts) - 1 ELSE Len(parts))
      BY <1>10, <2>2, Zenon DEF Anchors, Return
    <3>2. Cut(pattern, parts, L) /\ L \in 0..L
      BY <1>1, <3>1, CompiledShape DEF Inv
    <3>3. Len(parts) \in Nat /\ Len(parts) <= L
      <4>1. Len(parts) \in Nat
        BY <1>1, <3>2, CutBounds, Zenon
      <4>2. CASE Len(parts) = 0
        BY <1>1, <4>2
      <4>3. CASE Len(parts) # 0
        <5>1. Len(parts) \in 1..Len(parts)
          BY <4>1, <4>3
        <5>2. Len(parts) <= parts[Len(parts)][2] /\ parts[Len(parts)][2] \in 0..L
          BY <1>1, <3>2, <5>1, CutBounds, Zenon DEF Cut
        <5>. QED  BY <1>1, <4>1, <5>2
      <4>. QED  BY <4>1, <4>2, <4>3, Zenon
    <3>4. last' - i' <= L /\ last' - i' \in Int
      BY <1>1, <3>1, <3>3
    <3>5. StepsLeft = L + 3 /\ StepsLeft' = (last' - i') + 2
      BY <3>1, Zenon DEF StepsLeft
    <3>6. /\ last' \in Int /\ i' \in Int
      BY <3>1, <3>3
    <3>. QED  BY <1>1, <3>4, <3>5, <3>6, SMTT(30)
  <2>. QED  BY <2>1, <2>2, Zenon
<1>11. CASE FindPart
  <2>1. CASE pc' = "done"
    BY <1>5, <1>11, <2>1, Zenon DEF FindPart
  <2>2. CASE pc' # "done"
    <3>1. pc = "multi" /\ pc' = "multi" /\ i' = i + 1 /\ last' = last
      BY <1>11, <2>2, Zenon DEF FindPart, Return
    <3>2. i \in Nat /\ last \in Nat
      BY <1>1, GlobAssumption DEF TypeOK
    <3>3. StepsLeft = (last - i) + 2 /\ StepsLeft' = (last' - i') + 2
      BY <3>1, Zenon DEF StepsLeft
    <3>. QED  BY <3>1, <3>2, <3>3
  <2>. QED  BY <2>1, <2>2, Zenon
<1>12. CASE AllFound
  BY <1>5, <1>12, Zenon DEF AllFound, Return
<1>. QED  BY <1>6, <1>7, <1>8, <1>9, <1>10, <1>11, <1>12, Zenon DEF Next

\* Compiling a pattern and matching it takes at most 2 * Len(pattern) + 5 steps, an
\* iteration of a loop being one: the scan of new() and the search of matches_multi
\* end, and the search never goes back to a literal that it has placed.
THEOREM MatchingIsLinear ==
  Spec => /\ StepsLeft = 2 * Len(pattern) + 5
          /\ [](StepsLeft \in Nat)
          /\ [][StepsLeft' < StepsLeft]_vars
<1>1. Init => StepsLeft = 2 * Len(pattern) + 5
  BY Zenon DEF Init, StepsLeft
<1>2. Inv /\ [Next]_vars => [StepsLeft' < StepsLeft]_vars
  BY StepsLeftFall, Zenon
<1>. QED  BY <1>1, <1>2, StepsLeftTyped, InvHolds, PTL DEF Spec

\* What SpiffeIdentity assumes of the segments a glob matches: a pattern matches
\* itself, the lone wildcard matches every value, and a pattern without wildcards
\* nothing but itself.
THEOREM WholeSegments ==
  ASSUME NEW p \in Seq(Chars), NEW v \in Seq(Chars)
  PROVE  /\ Means(p, p)
         /\ p = <<Star>> => Means(p, v)
         /\ Stars(p) = {} => (Means(p, v) <=> v = p)
<1>1. ASSUME p = <<Star>> PROVE Means(p, v)
  <2>1. Len(p) = 1 /\ p[1] = Star /\ Len(v) \in Nat
    BY <1>1
  <2>2. AllStars(p, 0, 1) /\ 0 \in 0..Len(p) /\ 1 \in 0..Len(p) /\ 0 < 1 /\ 0 \in 0..Len(v)
    BY <2>1 DEF AllStars
  <2>3. Rest(p, v, 1, Len(v))
    BY <2>1, RestEnd, Zenon
  <2>4. Len(v) \in 0..Len(v) /\ 0 <= Len(v) /\ 1 \in 0..Len(p)
    BY <2>1
  <2>5. Rest(p, v, 0, 0)
    BY <2>2, <2>3, <2>4, RestStars, Zenon
  <2>. QED  BY <2>5, MeansIsRest, Zenon
<1>2. ASSUME Stars(p) = {} PROVE Means(p, v) <=> v = p
  BY <1>2, MatchExact, MeansIsRest, Zenon
<1>3. Means(p, p)
  <2> DEFINE f == [j \in 0..Len(p) |-> j]
  <2>1. Len(p) \in Nat
    OBVIOUS
  <2>2. /\ f \in [0..Len(p) -> 0..Len(p)] /\ f[Len(p)] = Len(p) /\ f[0] = 0
        /\ \A j \in 0 + 1 .. Len(p) : /\ f[j - 1] <= f[j]
                                      /\ f[j] = f[j - 1] + 1 /\ f[j] = j
    BY <2>1
  <2> HIDE DEF f
  <2>3. Layout(p, p, 0, f)
    BY <2>2, Zenon DEF Layout
  <2>4. Rest(p, p, 0, 0)
    BY <2>2, <2>3, Zenon DEF Rest
  <2>. QED  BY <2>4, MeansIsRest, Zenon
<1>. QED  BY <1>1, <1>2, <1>3, Zenon
=============================================================================
