--------------------------- MODULE LineIndexProofs ---------------------------
(***************************************************************************)
(* Theorems about LineIndex, for every text, every alphabet and every      *)
(* batch of changes.                                                       *)
(***************************************************************************)
EXTENDS LineIndex, NumberLemmas, SequenceTheorems, TLAPS

-----------------------------------------------------------------------------
(* Sums of widths.                                                         *)

(* sum is the sum of widths up to n.                                       *)
SumsTo(width, text, sum, n) ==
  sum = [i \in 0 .. n |-> IF i = 0 THEN 0 ELSE sum[i - 1] + width[text[i]]]

\* The recursive function of Sums satisfies its equation.
LEMMA SumsExist ==
  ASSUME NEW width, NEW text, NEW n \in Nat
  PROVE  \E sum : SumsTo(width, text, sum, n)
  <1> DEFINE P == {k \in Nat : \E sum : SumsTo(width, text, sum, k)}
  <1>1. 0 \in P
    <2>1. SumsTo(width, text, [i \in 0 .. 0 |-> 0], 0)
      BY DEF SumsTo
    <2> QED
      BY <2>1
  <1>2. ASSUME NEW m \in 0 + 1 .. n, m - 1 \in P PROVE m \in P
    <2>1. m \in Nat /\ m - 1 \in Nat /\ m # 0
      OBVIOUS
    <2>2. PICK f : SumsTo(width, text, f, m - 1)
      BY <1>2
    <2> DEFINE g == [i \in 0 .. m |-> IF i = m THEN f[m - 1] + width[text[m]] ELSE f[i]]
    <2>3. \A i \in 0 .. m : g[i] = IF i = 0 THEN 0 ELSE g[i - 1] + width[text[i]]
      <3> SUFFICES ASSUME NEW i \in 0 .. m
                   PROVE  g[i] = IF i = 0 THEN 0 ELSE g[i - 1] + width[text[i]]
        OBVIOUS
      <3>1. CASE i = 0
        <4>1. f[0] = 0
          BY <2>1, <2>2 DEF SumsTo
        <4> QED
          BY <2>1, <3>1, <4>1
      <3>2. CASE i = m
        BY <2>1, <3>2
      <3>3. CASE i # 0 /\ i # m
        <4>1. i - 1 \in 0 .. m /\ i - 1 # m /\ i \in 0 .. m - 1
          BY <3>3
        <4>2. f[i] = f[i - 1] + width[text[i]]
          BY <2>2, <3>3, <4>1 DEF SumsTo
        <4> QED
          BY <3>3, <4>1, <4>2
      <3> QED
        BY <3>1, <3>2, <3>3
    <2>4. SumsTo(width, text, g, m)
      <3> DEFINE h == [i \in 0 .. m |-> IF i = 0 THEN 0 ELSE g[i - 1] + width[text[i]]]
      <3>1. g = h
        BY <2>3
      <3> QED
        BY <3>1 DEF SumsTo
    <2> QED
      BY <2>1, <2>4
  <1> HIDE DEF P
  <1>3. \A k \in 0 .. n : k \in P
    BY <1>1, <1>2, IntervalInduction
  <1>4. n \in P
    BY <1>3
  <1> QED
    BY <1>4 DEF P

LEMMA SumsEquation ==
  ASSUME NEW width, NEW text, Len(text) \in Nat
  PROVE  SumsTo(width, text, Sums(width, text), Len(text))
  <1>1. PICK f : SumsTo(width, text, f, Len(text))
    BY SumsExist
  <1> DEFINE sum[i \in 0 .. Len(text)] == IF i = 0 THEN 0 ELSE sum[i - 1] + width[text[i]]
  <1>2. SumsTo(width, text, sum, Len(text))
    BY <1>1, Zenon DEF sum, SumsTo
  <1>3. Sums(width, text) = sum
    BY Zenon DEF Sums, sum
  <1> QED
    BY <1>2, <1>3, Zenon

\* Sums, one character at a time.
LEMMA SumsStep ==
  ASSUME NEW width, NEW text, Len(text) \in Nat
  PROVE  /\ Sums(width, text)[0] = 0
         /\ \A i \in 1 .. Len(text) : Sums(width, text)[i] = Sums(width, text)[i - 1] + width[text[i]]
  <1> DEFINE W == Sums(width, text)
  <1>1. SumsTo(width, text, W, Len(text))
    BY SumsEquation
  <1> HIDE DEF W
  <1>2. /\ W[0] = 0
        /\ \A i \in 1 .. Len(text) : W[i] = W[i - 1] + width[text[i]]
    BY <1>1 DEF SumsTo
  <1> QED
    BY <1>2 DEF W

LEMMA SumsType ==
  ASSUME NEW width \in [Chars -> Nat], NEW text \in Seq(Chars)
  PROVE  \A i \in 0 .. Len(text) : Sums(width, text)[i] \in Nat
  <1> DEFINE W == Sums(width, text)
             n == Len(text)
             P == {i \in Int : W[i] \in Nat}
  <1>0. n \in Nat
    OBVIOUS
  <1>1. /\ W[0] = 0
        /\ \A i \in 1 .. Len(text) : W[i] = W[i - 1] + width[text[i]]
    BY SumsStep
  <1> HIDE DEF W
  <1>2. 0 \in P
    BY <1>1
  <1>3. ASSUME NEW i \in 1 .. n, i - 1 \in P PROVE i \in P
    BY <1>1, <1>3
  <1> HIDE DEF P, n
  <1>4. \A i \in 0 .. n : i \in P
    BY <1>0, <1>2, <1>3, InductionTo
  <1> QED
    BY <1>4 DEF P, W, n

\* The sum of the widths between two boundaries depends on the characters
\* between them alone, wherever they are.
LEMMA SumsShift ==
  ASSUME NEW width \in [Chars -> Nat], NEW a \in Seq(Chars), NEW b \in Seq(Chars),
         NEW d \in Int, NEW j \in 0 .. Len(a), NEW k \in j .. Len(a),
         j + d >= 0, k + d <= Len(b),
         \A l \in j + 1 .. k : b[l + d] = a[l]
  PROVE  Sums(width, b)[k + d] - Sums(width, b)[j + d] = Sums(width, a)[k] - Sums(width, a)[j]
  <1> DEFINE A == Sums(width, a)
             B == Sums(width, b)
             P == {i \in Int : B[i + d] - B[j + d] = A[i] - A[j]}
  <1>0. Len(a) \in Nat /\ Len(b) \in Nat /\ j \in Int /\ k \in Int
    OBVIOUS
  <1>1. /\ \A i \in 1 .. Len(a) : A[i] = A[i - 1] + width[a[i]]
        /\ \A i \in 1 .. Len(b) : B[i] = B[i - 1] + width[b[i]]
        /\ \A i \in 0 .. Len(a) : A[i] \in Nat
        /\ \A i \in 0 .. Len(b) : B[i] \in Nat
    BY <1>0, SumsStep, SumsType
  <1> HIDE DEF A, B
  <1>2. j \in P
    <2>1. B[j + d] \in Nat /\ A[j] \in Nat
      BY <1>1
    <2> QED
      BY <2>1
  <1>3. ASSUME NEW i \in j + 1 .. k, i - 1 \in P PROVE i \in P
    <2>1. i \in 1 .. Len(a) /\ i + d \in 1 .. Len(b) /\ (i - 1) + d = (i + d) - 1 /\ i \in Int
      OBVIOUS
    <2>2. A[i] = A[i - 1] + width[a[i]] /\ B[i + d] = B[(i + d) - 1] + width[b[i + d]]
      BY <1>1, <2>1
    <2>3. width[a[i]] = width[b[i + d]] /\ width[a[i]] \in Nat
      <3>1. a[i] \in Chars /\ b[i + d] = a[i]
        BY <2>1
      <3> QED
        BY <3>1
    <2>4. A[i - 1] \in Nat /\ B[(i + d) - 1] \in Nat /\ A[j] \in Nat /\ B[j + d] \in Nat
      <3>1. i - 1 \in 0 .. Len(a) /\ (i + d) - 1 \in 0 .. Len(b) /\ j + d \in 0 .. Len(b)
        BY <1>0, <2>1
      <3> QED
        BY <1>1, <3>1
    <2>5. B[(i + d) - 1] - B[j + d] = A[i - 1] - A[j]
      BY <1>3, <2>1
    <2>6. B[i + d] - B[j + d] = A[i] - A[j]
      <3> DEFINE p == B[(i + d) - 1]
                 q == B[j + d]
                 x == A[i - 1]
                 y == A[j]
                 w == width[a[i]]
      <3>1. /\ p \in Nat /\ q \in Nat /\ x \in Nat /\ y \in Nat /\ w \in Nat
            /\ p - q = x - y /\ B[i + d] = p + w /\ A[i] = x + w
        BY <2>2, <2>3, <2>4, <2>5
      <3> HIDE DEF p, q, x, y, w
      <3>2. B[i + d] - q = A[i] - y
        BY <3>1
      <3> QED
        BY <3>2 DEF q, y
    <2> QED
      BY <2>1, <2>6
  <1> HIDE DEF P
  <1>4. \A i \in j .. k : i \in P
    BY <1>0, <1>2, <1>3, IntervalInduction
  <1>5. k \in P
    BY <1>4
  <1> QED
    BY <1>5 DEF P, A, B

\* Sums grow, by nothing over characters without width, and by at least as
\* much as there are characters when each has a width.
LEMMA SumsGrow ==
  ASSUME NEW width \in [Chars -> Nat], NEW text \in Seq(Chars),
         NEW j \in 0 .. Len(text), NEW k \in j .. Len(text)
  PROVE  /\ Sums(width, text)[j] <= Sums(width, text)[k]
         /\ (\A l \in j + 1 .. k : width[text[l]] = 0) => Sums(width, text)[k] = Sums(width, text)[j]
         /\ (\A l \in j + 1 .. k : width[text[l]] > 0) => Sums(width, text)[k] - Sums(width, text)[j] >= k - j
  <1> DEFINE W == Sums(width, text)
             Zero == \A l \in j + 1 .. k : width[text[l]] = 0
             Wide == \A l \in j + 1 .. k : width[text[l]] > 0
             P == {i \in Int : /\ W[j] <= W[i]
                               /\ Zero => W[i] = W[j]
                               /\ Wide => W[i] - W[j] >= i - j}
  <1>0. j \in Int /\ k \in Int
    OBVIOUS
  <1>1. /\ \A i \in 1 .. Len(text) : W[i] = W[i - 1] + width[text[i]]
        /\ \A i \in 0 .. Len(text) : W[i] \in Nat
    BY SumsStep, SumsType
  <1> HIDE DEF W
  <1>2. j \in P
    <2>1. W[j] \in Nat
      BY <1>1
    <2> QED
      BY <2>1
  <1>3. ASSUME NEW i \in j + 1 .. k, i - 1 \in P PROVE i \in P
    <2>1. i \in 1 .. Len(text) /\ i - 1 \in 0 .. Len(text) /\ i \in Int
      OBVIOUS
    <2>2. W[i] = W[i - 1] + width[text[i]] /\ W[i - 1] \in Nat /\ W[j] \in Nat /\ width[text[i]] \in Nat
      BY <1>1, <2>1
    <2>3. W[j] <= W[i]
      BY <1>3, <2>2
    <2>4. Zero => W[i] = W[j]
      BY <1>3, <2>2
    <2>5. Wide => W[i] - W[j] >= i - j
      <3>1. Wide => W[i - 1] - W[j] >= (i - 1) - j
        BY <1>3
      <3>2. Wide => width[text[i]] > 0
        OBVIOUS
      <3> QED
        BY <1>0, <2>1, <2>2, <3>1, <3>2
    <2> QED
      BY <2>1, <2>3, <2>4, <2>5
  <1> HIDE DEF P
  <1>4. \A i \in j .. k : i \in P
    BY <1>0, <1>2, <1>3, IntervalInduction
  <1>5. k \in P
    BY <1>4
  <1> QED
    BY <1>5 DEF P, W

-----------------------------------------------------------------------------
(* Bytes, units and lines of a text.                                       *)

LEMMA Widths ==
  /\ Bytes \in [Chars -> Nat] /\ Units \in [Chars -> Nat] /\ Ends \in [Chars -> Nat]
  /\ \A c \in Chars : Bytes[c] > 0 /\ Units[c] > 0
  /\ \A c \in Chars : Ends[c] = IF c = Newline THEN 1 ELSE 0
  BY CharsAssumption DEF Ends

\* Boundaries, bytes and units come in the same order.
LEMMA Ordered ==
  ASSUME NEW text \in Seq(Chars), NEW i \in Boundaries(text), NEW j \in Boundaries(text)
  PROVE  /\ ByteAt(text, i) \in Nat /\ (ByteAt(text, i) <= ByteAt(text, j) <=> i <= j)
         /\ UnitsAt(text, i) \in Nat /\ (UnitsAt(text, i) <= UnitsAt(text, j) <=> i <= j)
  <1>1. \A width \in [Chars -> Nat], a, b \in 0 .. Len(text) :
          (\A c \in Chars : width[c] > 0) /\ a <= b =>
             Sums(width, text)[b] - Sums(width, text)[a] >= b - a
    <2> SUFFICES ASSUME NEW width \in [Chars -> Nat], NEW a \in 0 .. Len(text), NEW b \in 0 .. Len(text),
                        \A c \in Chars : width[c] > 0, a <= b
                 PROVE  Sums(width, text)[b] - Sums(width, text)[a] >= b - a
      OBVIOUS
    <2>1. b \in a .. Len(text)
      OBVIOUS
    <2>2. \A l \in a + 1 .. b : width[text[l]] > 0
      <3> SUFFICES ASSUME NEW l \in a + 1 .. b PROVE width[text[l]] > 0
        OBVIOUS
      <3>1. text[l] \in Chars
        OBVIOUS
      <3> QED
        BY <3>1
    <2> QED
      BY <2>1, <2>2, SumsGrow
  <1>2. \A width \in [Chars -> Nat] : Sums(width, text)[i] \in Nat /\ Sums(width, text)[j] \in Nat
    BY SumsType DEF Boundaries
  <1>3. \A width \in [Chars -> Nat] :
          (\A c \in Chars : width[c] > 0) => (Sums(width, text)[i] <= Sums(width, text)[j] <=> i <= j)
    <2> SUFFICES ASSUME NEW width \in [Chars -> Nat], \A c \in Chars : width[c] > 0
                 PROVE  Sums(width, text)[i] <= Sums(width, text)[j] <=> i <= j
      OBVIOUS
    <2> DEFINE x == Sums(width, text)[i]
               y == Sums(width, text)[j]
    <2>1. x \in Nat /\ y \in Nat /\ i \in Nat /\ j \in Nat
      BY <1>2 DEF Boundaries
    <2>2. (i <= j => y - x >= j - i) /\ (j <= i => x - y >= i - j)
      BY <1>1 DEF Boundaries
    <2> HIDE DEF x, y
    <2>3. x <= y <=> i <= j
      BY <2>1, <2>2
    <2> QED
      BY <2>3 DEF x, y
  <1> QED
    BY <1>2, <1>3, Widths DEF ByteAt, UnitsAt

\* A byte at a boundary is found there again.
LEMMA BoundaryFound ==
  ASSUME NEW text \in Seq(Chars), NEW i \in Boundaries(text)
  PROVE  Boundary(text, ByteAt(text, i)) = i
  <1>1. \A j \in Boundaries(text) : ByteAt(text, j) = ByteAt(text, i) => j = i
    <2> SUFFICES ASSUME NEW j \in Boundaries(text), ByteAt(text, j) = ByteAt(text, i) PROVE j = i
      OBVIOUS
    <2>1. ByteAt(text, i) \in Nat /\ i \in Nat /\ j \in Nat
      BY Ordered DEF Boundaries
    <2>2. ByteAt(text, i) <= ByteAt(text, j) /\ ByteAt(text, j) <= ByteAt(text, i)
      BY <2>1
    <2>3. i <= j /\ j <= i
      BY <2>2, Ordered
    <2> QED
      BY <2>1, <2>3
  <1> QED
    BY <1>1 DEF Boundary

\* Lines count from zero, and one more after each line end.
LEMMA LinesGrow ==
  ASSUME NEW text \in Seq(Chars), NEW i \in Boundaries(text), NEW j \in i .. Len(text)
  PROVE  /\ LineAt(text, i) \in Nat /\ LineAt(text, j) \in Nat /\ LineAt(text, 0) = 0
         /\ LineAt(text, i) <= LineAt(text, j)
         /\ (\A l \in i + 1 .. j : text[l] # Newline) => LineAt(text, j) = LineAt(text, i)
         /\ (\E l \in i + 1 .. j : text[l] = Newline) => LineAt(text, i) < LineAt(text, j)
         /\ i > 0 => LineAt(text, i) = LineAt(text, i - 1) + IF text[i] = Newline THEN 1 ELSE 0
  <1> DEFINE L == Sums(Ends, text)
  <1>0. Len(text) \in Nat /\ i \in Nat /\ j \in Nat /\ i <= j /\ j <= Len(text)
    BY DEF Boundaries
  <1>1. \A k \in 0 .. Len(text) : L[k] \in Nat
    BY Widths, SumsType
  <1>2. /\ L[0] = 0
        /\ \A k \in 1 .. Len(text) : L[k] = L[k - 1] + IF text[k] = Newline THEN 1 ELSE 0
    <2>1. /\ L[0] = 0
          /\ \A k \in 1 .. Len(text) : L[k] = L[k - 1] + Ends[text[k]]
      BY <1>0, SumsStep
    <2>2. \A k \in 1 .. Len(text) : text[k] \in Chars
      OBVIOUS
    <2> HIDE DEF L
    <2> QED
      BY <2>1, <2>2, Widths
  <1>3. \A a \in 0 .. Len(text), b \in 0 .. Len(text) : a <= b => L[a] <= L[b]
    <2> SUFFICES ASSUME NEW a \in 0 .. Len(text), NEW b \in 0 .. Len(text), a <= b PROVE L[a] <= L[b]
      OBVIOUS
    <2>1. b \in a .. Len(text)
      OBVIOUS
    <2> QED
      BY <2>1, Widths, SumsGrow
  <1>4. (\A l \in i + 1 .. j : text[l] # Newline) => L[j] = L[i]
    <2> SUFFICES ASSUME \A l \in i + 1 .. j : text[l] # Newline PROVE L[j] = L[i]
      OBVIOUS
    <2>1. \A l \in i + 1 .. j : Ends[text[l]] = 0
      <3> SUFFICES ASSUME NEW l \in i + 1 .. j PROVE Ends[text[l]] = 0
        OBVIOUS
      <3>1. text[l] \in Chars
        BY <1>0
      <3> QED
        BY <3>1, Widths
    <2>2. i \in 0 .. Len(text)
      BY <1>0
    <2> QED
      BY <2>1, <2>2, Widths, SumsGrow
  <1> HIDE DEF L
  <1>5. ASSUME NEW l \in i + 1 .. j, text[l] = Newline PROVE L[i] < L[j]
    <2>1. l \in 1 .. Len(text) /\ l - 1 \in 0 .. Len(text) /\ i <= l - 1 /\ l <= j
          /\ i \in 0 .. Len(text) /\ j \in 0 .. Len(text) /\ l \in 0 .. Len(text)
      BY <1>0
    <2>2. L[l] = L[l - 1] + 1 /\ L[i] <= L[l - 1] /\ L[l] <= L[j]
      BY <1>2, <1>3, <1>5, <2>1
    <2>3. L[i] \in Nat /\ L[j] \in Nat /\ L[l] \in Nat /\ L[l - 1] \in Nat
      BY <1>1, <2>1
    <2> QED
      BY <2>2, <2>3
  <1>6. L[i] \in Nat /\ L[j] \in Nat /\ L[i] <= L[j]
    BY <1>0, <1>1, <1>3
  <1> QED
    BY <1>0, <1>2, <1>4, <1>5, <1>6 DEF LineAt, L

\* The start of the line of a boundary: behind the last line end before it.
LEMMA LineStartOf ==
  ASSUME NEW text \in Seq(Chars), NEW i \in Boundaries(text)
  PROVE  /\ LineStart(text, i) \in Boundaries(text) /\ LineStart(text, i) <= i
         /\ LineStart(text, i) = 0 \/ text[LineStart(text, i)] = Newline
         /\ \A l \in LineStart(text, i) + 1 .. i : text[l] # Newline
         /\ LineAt(text, LineStart(text, i)) = LineAt(text, i)
  <1> DEFINE S == {0} \cup {j \in 1 .. i : text[j] = Newline}
             s == LineStart(text, i)
  <1>0. Len(text) \in Nat /\ i \in Nat /\ i <= Len(text)
    BY DEF Boundaries
  <1>1. s \in S /\ \A n \in S : s >= n
    <2>1. S \subseteq 0 .. i /\ S # {}
      BY <1>0
    <2>2. Max(S) \in S /\ \A n \in S : Max(S) >= n
      <3> HIDE DEF S
      <3> QED
        BY <1>0, <2>1, GreatestNumber
    <2> QED
      BY <2>2 DEF LineStart
  <1>2. s \in Nat /\ s <= i /\ (s = 0 \/ text[s] = Newline)
    BY <1>0, <1>1
  <1>3. \A l \in s + 1 .. i : text[l] # Newline
    <2> SUFFICES ASSUME NEW l \in s + 1 .. i, text[l] = Newline PROVE FALSE
      OBVIOUS
    <2>1. l \in 1 .. i /\ ~(s >= l)
      BY <1>0, <1>2
    <2> QED
      BY <1>1, <2>1
  <1> HIDE DEF s
  <1>4. s \in Boundaries(text) /\ i \in s .. Len(text)
    BY <1>0, <1>2 DEF Boundaries
  <1>5. LineAt(text, i) = LineAt(text, s)
    BY <1>3, <1>4, LinesGrow
  <1> QED
    BY <1>2, <1>3, <1>4, <1>5 DEF s

\* Only the start of a line is like that.
LEMMA LineStartIs ==
  ASSUME NEW text \in Seq(Chars), NEW i \in Boundaries(text), NEW s \in Boundaries(text), s <= i,
         s = 0 \/ text[s] = Newline,
         \A l \in s + 1 .. i : text[l] # Newline
  PROVE  LineStart(text, i) = s
  <1> DEFINE r == LineStart(text, i)
  <1>1. /\ r \in Boundaries(text) /\ r <= i
        /\ r = 0 \/ text[r] = Newline
        /\ \A l \in r + 1 .. i : text[l] # Newline
    BY LineStartOf
  <1> HIDE DEF r
  <1>2. s \in Nat /\ r \in Nat /\ i \in Nat
    BY <1>1 DEF Boundaries
  <1>3. ~(r < s) /\ ~(s < r)
    <2>1. ASSUME r < s PROVE FALSE
      <3>1. s \in r + 1 .. i /\ text[s] = Newline
        BY <1>2, <2>1
      <3> QED
        BY <1>1, <3>1
    <2>2. ASSUME s < r PROVE FALSE
      <3>1. r \in s + 1 .. i /\ text[r] = Newline
        BY <1>1, <1>2, <2>2
      <3> QED
        BY <3>1
    <2> QED
      BY <2>1, <2>2
  <1>4. r = s
    BY <1>2, <1>3
  <1> QED
    BY <1>4 DEF r

-----------------------------------------------------------------------------
(* The line index.                                                         *)

\* The entry of a boundary's line is where that line starts.
LEMMA LineStartsAt ==
  ASSUME NEW text \in Seq(Chars), NEW i \in Boundaries(text)
  PROVE  /\ LineAt(text, i) + 1 \in 1 .. LineAt(text, Len(text)) + 1
         /\ LineStarts(text)[LineAt(text, i) + 1] = ByteAt(text, LineStart(text, i))
  <1> DEFINE T == {k \in Boundaries(text) : LineAt(text, k) = LineAt(text, i)}
             s == LineStart(text, i)
             m == Min(T)
  <1>0. Len(text) \in Nat /\ i \in Nat /\ i <= Len(text) /\ Len(text) \in i .. Len(text)
    BY DEF Boundaries
  <1>1. /\ LineAt(text, i) \in Nat /\ LineAt(text, Len(text)) \in Nat
        /\ LineAt(text, i) <= LineAt(text, Len(text))
    BY <1>0, LinesGrow
  <1>2. s \in T /\ (s = 0 \/ text[s] = Newline)
    BY LineStartOf
  <1>3. m \in T /\ \A k \in T : m <= k
    <2>1. T \subseteq Nat /\ T # {}
      BY <1>2 DEF Boundaries
    <2> HIDE DEF T
    <2> QED
      BY <2>1, SmallestNumber
  <1> HIDE DEF s, m
  <1>4. s = m
    <2>1. s \in Nat /\ m \in Nat /\ m <= s /\ s <= Len(text)
      BY <1>2, <1>3 DEF Boundaries
    <2>2. ASSUME m < s PROVE FALSE
      <3>1. s \in m .. Len(text) /\ s \in m + 1 .. s /\ text[s] = Newline
        BY <1>2, <2>1, <2>2
      <3>2. m \in Boundaries(text) /\ LineAt(text, m) = LineAt(text, i)
            /\ LineAt(text, s) = LineAt(text, i)
        BY <1>2, <1>3
      <3>3. LineAt(text, m) < LineAt(text, s)
        BY <3>1, <3>2, LinesGrow
      <3> QED
        BY <1>1, <3>2, <3>3
    <2> QED
      BY <2>1, <2>2
  <1>5. LineAt(text, i) + 1 \in 1 .. LineAt(text, Len(text)) + 1
    BY <1>1
  <1>6. LineStarts(text)[LineAt(text, i) + 1]
          = ByteAt(text, Min({k \in Boundaries(text) : LineAt(text, k) = (LineAt(text, i) + 1) - 1}))
    <2> DEFINE x == LineAt(text, i) + 1
    <2>1. x \in 1 .. LineAt(text, Len(text)) + 1
      BY <1>5
    <2> HIDE DEF x
    <2>2. LineStarts(text)[x]
            = ByteAt(text, Min({k \in Boundaries(text) : LineAt(text, k) = x - 1}))
      BY <2>1, Zenon DEF LineStarts
    <2> QED
      BY <2>2 DEF x
  <1>7. (LineAt(text, i) + 1) - 1 = LineAt(text, i)
    BY <1>1
  <1> QED
    BY <1>4, <1>5, <1>6, <1>7 DEF s, m

\* Every line has a first boundary, and the line index has its byte.
LEMMA LineStartsExist ==
  ASSUME NEW text \in Seq(Chars), NEW n \in 1 .. LineAt(text, Len(text)) + 1
  PROVE  \E s \in Boundaries(text) : /\ LineAt(text, s) = n - 1
                                     /\ LineStarts(text)[n] = ByteAt(text, s)
  <1> DEFINE T == {k \in Boundaries(text) : LineAt(text, k) >= n - 1}
  <1>0. /\ Len(text) \in Nat /\ n \in Nat
        /\ \A k \in Boundaries(text) :
             /\ k \in Nat /\ LineAt(text, k) \in Nat
             /\ k > 0 => /\ k - 1 \in Boundaries(text)
                         /\ LineAt(text, k) <= LineAt(text, k - 1) + 1
    <2>1. LineAt(text, Len(text)) \in Nat
      BY LinesGrow DEF Boundaries
    <2>2. ASSUME NEW k \in Boundaries(text)
          PROVE  /\ k \in Nat /\ LineAt(text, k) \in Nat
                 /\ k > 0 => /\ k - 1 \in Boundaries(text)
                             /\ LineAt(text, k) <= LineAt(text, k - 1) + 1
      <3>1. k \in Nat /\ k \in k .. Len(text) /\ (k > 0 => k - 1 \in Boundaries(text))
        BY DEF Boundaries
      <3>2. /\ LineAt(text, k) \in Nat
            /\ k > 0 => LineAt(text, k) = LineAt(text, k - 1) + IF text[k] = Newline THEN 1 ELSE 0
        BY <3>1, LinesGrow
      <3>3. ASSUME k > 0 PROVE LineAt(text, k) <= LineAt(text, k - 1) + 1
        <4>1. k - 1 \in Boundaries(text) /\ k - 1 \in k - 1 .. Len(text)
          BY <3>1, <3>3 DEF Boundaries
        <4>2. LineAt(text, k - 1) \in Nat
          BY <4>1, LinesGrow
        <4> QED
          BY <3>2, <3>3, <4>2
      <3> QED
        BY <3>1, <3>2, <3>3
    <2> QED
      BY <2>1, <2>2
  <1>1. PICK i \in T : \A k \in T : i <= k
    <2>1. Len(text) \in T
      <3>1. Len(text) \in Boundaries(text)
        BY <1>0 DEF Boundaries
      <3>2. LineAt(text, Len(text)) >= n - 1
        BY <1>0, <3>1
      <3> QED
        BY <3>1, <3>2
    <2>2. T \subseteq Nat
      BY <1>0
    <2> HIDE DEF T
    <2> QED
      BY <2>1, <2>2, LeastNumber
  <1>2. i \in Boundaries(text) /\ LineAt(text, i) >= n - 1
    OBVIOUS
  <1>3. LineAt(text, i) = n - 1
    <2>1. CASE i = 0
      <3>1. LineAt(text, 0) = 0
        BY <1>2, <2>1, LinesGrow DEF Boundaries
      <3> QED
        BY <1>0, <1>2, <2>1, <3>1
    <2>2. CASE i > 0
      <3>1. i - 1 \in Boundaries(text) /\ LineAt(text, i) <= LineAt(text, i - 1) + 1
        BY <1>0, <1>2, <2>2
      <3>2. ~(i <= i - 1)
        BY <1>0, <1>2
      <3>3. ~(LineAt(text, i - 1) >= n - 1)
        BY <1>1, <3>1, <3>2
      <3>4. LineAt(text, i - 1) \in Nat /\ LineAt(text, i) \in Nat
        BY <1>0, <1>2, <3>1
      <3> QED
        BY <1>0, <1>2, <3>1, <3>3, <3>4
    <2> QED
      BY <1>0, <1>2, <2>1, <2>2
  <1>4. LineAt(text, i) + 1 = n
    BY <1>0, <1>3
  <1>5. LineStarts(text)[n] = ByteAt(text, LineStart(text, i))
    BY <1>2, <1>4, LineStartsAt
  <1>6. LineStart(text, i) \in Boundaries(text) /\ LineAt(text, LineStart(text, i)) = LineAt(text, i)
    BY <1>2, LineStartOf
  <1> QED
    BY <1>3, <1>5, <1>6

\* The line index finds the line of every boundary.
LEMMA LineFound ==
  ASSUME NEW text \in Seq(Chars), NEW i \in Boundaries(text)
  PROVE  LineOf(LineStarts(text), ByteAt(text, i)) = LineAt(text, i) + 1
  <1> DEFINE N == LineAt(text, Len(text)) + 1
             S == {n \in DOMAIN LineStarts(text) : LineStarts(text)[n] <= ByteAt(text, i)}
             L == LineAt(text, i) + 1
  <1>0. N \in Nat /\ L \in Nat /\ DOMAIN LineStarts(text) = 1 .. N
    <2>1. i \in i .. Len(text) /\ Len(text) \in Boundaries(text) /\ Len(text) \in Len(text) .. Len(text)
      BY DEF Boundaries
    <2>2. LineAt(text, Len(text)) \in Nat /\ LineAt(text, i) \in Nat
      BY <2>1, LinesGrow
    <2> QED
      BY <2>2 DEF LineStarts
  <1>1. L \in S
    <2>1. LineStart(text, i) \in Boundaries(text) /\ LineStart(text, i) <= i
      BY LineStartOf
    <2>2. ByteAt(text, LineStart(text, i)) <= ByteAt(text, i)
      BY <2>1, Ordered
    <2> QED
      BY <1>0, <2>2, LineStartsAt
  <1>2. \A n \in S : n <= L
    <2> SUFFICES ASSUME NEW n \in S PROVE n <= L
      OBVIOUS
    <2>1. n \in 1 .. N /\ LineStarts(text)[n] <= ByteAt(text, i)
      BY <1>0
    <2>2. PICK s \in Boundaries(text) : LineAt(text, s) = n - 1 /\ LineStarts(text)[n] = ByteAt(text, s)
      BY <2>1, LineStartsExist
    <2>3. s <= i
      BY <2>1, <2>2, Ordered
    <2>4. i \in s .. Len(text)
      BY <2>3 DEF Boundaries
    <2>5. LineAt(text, s) <= LineAt(text, i) /\ LineAt(text, i) \in Nat
      BY <2>4, LinesGrow
    <2> QED
      BY <1>0, <2>1, <2>2, <2>5
  <1>3. Max(S) \in S /\ Max(S) >= L
    <2>1. S \subseteq 0 .. N /\ S # {}
      BY <1>0, <1>1
    <2> HIDE DEF S, N, L
    <2> QED
      BY <1>0, <1>1, <2>1, GreatestNumber
  <1>4. Max(S) = L
    <2>1. Max(S) <= L /\ Max(S) \in Int
      BY <1>0, <1>2, <1>3
    <2> HIDE DEF S, N, L
    <2> QED
      BY <1>0, <1>3, <2>1
  <1> QED
    BY <1>4 DEF LineOf

-----------------------------------------------------------------------------
(* Positions.                                                              *)

\* The position of a boundary is the editor's (byte_to_position).
LEMMA PositionOfByte ==
  ASSUME NEW text \in Seq(Chars), NEW i \in Boundaries(text)
  PROVE  ByteToPosition(text, LineStarts(text), ByteAt(text, i)) = ClientPosition(text, i)
  <1>1. LineOf(LineStarts(text), ByteAt(text, i)) = LineAt(text, i) + 1
    BY LineFound
  <1>2. Boundary(text, LineStarts(text)[LineAt(text, i) + 1]) = LineStart(text, i)
    BY LineStartsAt, LineStartOf, BoundaryFound
  <1>3. (LineAt(text, i) + 1) - 1 = LineAt(text, i)
    <2>1. i \in i .. Len(text)
      BY DEF Boundaries
    <2>2. LineAt(text, i) \in Nat
      BY <2>1, LinesGrow
    <2> QED
      BY <2>2
  <1> QED
    BY <1>1, <1>2, <1>3, BoundaryFound DEF ByteToPosition, ClientPosition

\* The editor's position of a boundary leads to its byte and to no other
\* (position_to_byte).
LEMMA ByteOfPosition ==
  ASSUME NEW text \in Seq(Chars), NEW i \in Boundaries(text)
  PROVE  PositionToByte(text, LineStarts(text), ClientPosition(text, i)) = {ByteAt(text, i)}
  <1> DEFINE starts == LineStarts(text)
             N == LineAt(text, Len(text)) + 1
             line == LineAt(text, i)
             from == LineStart(text, i)
             last == IF line + 2 > N THEN ByteAt(text, Len(text)) ELSE starts[line + 2]
  <1>0. /\ Len(text) \in Nat /\ i \in Nat /\ i <= Len(text)
        /\ N \in Nat /\ line \in Nat /\ line < N
        /\ Len(starts) = N
    <2>1. Len(text) \in Nat /\ i \in Nat /\ i <= Len(text) /\ Len(text) \in i .. Len(text)
      BY DEF Boundaries
    <2>2. /\ LineAt(text, i) \in Nat /\ LineAt(text, Len(text)) \in Nat
          /\ LineAt(text, i) <= LineAt(text, Len(text))
      BY <2>1, LinesGrow
    <2>3. N \in Nat /\ DOMAIN starts = 1 .. N
      BY <2>2 DEF LineStarts
    <2>4. Len(starts) = N
      <3>1. starts \in Seq(Nat \cup {starts[n] : n \in 1 .. N})
        BY <2>3 DEF LineStarts
      <3> HIDE DEF starts, N
      <3> QED
        BY <2>3, <3>1
    <2> QED
      BY <2>1, <2>2, <2>3, <2>4
  <1>1. /\ from \in Boundaries(text) /\ from \in Nat /\ from <= i
        /\ starts[line + 1] = ByteAt(text, from)
        /\ Boundary(text, starts[line + 1]) = from
    BY LineStartOf, LineStartsAt, BoundaryFound DEF Boundaries
  <1>2. Boundary(text, last) \in i .. Len(text)
    <2>1. CASE line + 2 > N
      <3>1. Len(text) \in Boundaries(text)
        BY <1>0 DEF Boundaries
      <3> QED
        BY <1>0, <2>1, <3>1, BoundaryFound
    <2>2. CASE ~(line + 2 > N)
      <3>1. line + 2 \in 1 .. N
        BY <1>0, <2>2
      <3>2. PICK s \in Boundaries(text) : LineAt(text, s) = (line + 2) - 1 /\ starts[line + 2] = ByteAt(text, s)
        BY <3>1, LineStartsExist
      <3>3. s \in Nat /\ s <= Len(text)
        BY DEF Boundaries
      <3>4. ~(s <= i)
        <4>1. ASSUME s <= i PROVE FALSE
          <5>1. i \in s .. Len(text)
            BY <1>0, <3>3, <4>1
          <5>2. LineAt(text, s) <= line
            BY <5>1, LinesGrow
          <5> QED
            BY <1>0, <3>2, <5>2
        <4> QED
          BY <4>1
      <3>5. Boundary(text, last) = s
        BY <2>2, <3>2, BoundaryFound
      <3> QED
        BY <1>0, <3>3, <3>4, <3>5
    <2> QED
      BY <2>1, <2>2
  <1> HIDE DEF from, last
  <1> DEFINE column == UnitsAt(text, i) - UnitsAt(text, from)
             J == {j \in from .. Boundary(text, last) : InLine(text, from, j) = column}
  <1>3. J = {i}
    <2>1. i \in J
      BY <1>0, <1>1, <1>2 DEF InLine
    <2>2. ASSUME NEW j \in J PROVE j = i
      <3>1. j \in Boundaries(text) /\ j \in Nat
        BY <1>0, <1>1, <1>2 DEF Boundaries
      <3>2. UnitsAt(text, j) \in Nat /\ UnitsAt(text, i) \in Nat /\ UnitsAt(text, from) \in Nat
        BY <1>1, <3>1, Ordered
      <3>3. UnitsAt(text, j) - UnitsAt(text, from) = UnitsAt(text, i) - UnitsAt(text, from)
        BY DEF InLine
      <3>4. UnitsAt(text, j) = UnitsAt(text, i)
        BY <3>2, <3>3
      <3>5. (UnitsAt(text, j) <= UnitsAt(text, i)) /\ (UnitsAt(text, i) <= UnitsAt(text, j))
        BY <3>2, <3>4
      <3>6. j <= i
        BY <3>1, <3>5, Ordered
      <3>7. i <= j
        BY <3>1, <3>5, Ordered
      <3> QED
        BY <1>0, <3>1, <3>6, <3>7
    <2> HIDE DEF J
    <2> QED
      BY <2>1, <2>2
  <1>4. PositionToByte(text, starts, ClientPosition(text, i)) = {ByteAt(text, j) : j \in J}
    <2> DEFINE position == ClientPosition(text, i)
    <2>1. position.line = line /\ position.character = column
      BY DEF ClientPosition, from
    <2>2. ~(position.line >= Len(starts))
      BY <1>0, <2>1
    <2>3. last = IF position.line + 2 > Len(starts) THEN ByteAt(text, Len(text)) ELSE starts[position.line + 2]
      BY <1>0, <2>1 DEF last
    <2>4. from = Boundary(text, starts[position.line + 1])
      BY <1>1, <2>1
    <2>5. J = {j \in from .. Boundary(text, last) : InLine(text, from, j) = position.character}
      BY <2>1
    <2> HIDE DEF position, starts, J
    <2>6. PositionToByte(text, starts, position)
            = {ByteAt(text, j) : j \in {k \in from .. Boundary(text, last) :
                                          InLine(text, from, k) = position.character}}
      BY <2>2, <2>3, <2>4, SMT DEF PositionToByte
    <2>7. PositionToByte(text, starts, position) = {ByteAt(text, j) : j \in J}
      BY <2>5, <2>6
    <2> QED
      BY <2>7 DEF position
  <1> QED
    BY <1>3, <1>4

-----------------------------------------------------------------------------
(* One change.                                                             *)

Point(text, i) == [row |-> LineAt(text, i), column |-> ByteAt(text, i) - ByteAt(text, LineStart(text, i))]

\* The two ways to a point give the same (byte_point, byte_point_in).
LEMMA PointFound ==
  ASSUME NEW text \in Seq(Chars), NEW i \in Boundaries(text)
  PROVE  /\ BytePoint(LineStarts(text), ByteAt(text, i)) = Point(text, i)
         /\ BytePointIn(text, ByteAt(text, i)) = Point(text, i)
  <1>1. LineOf(LineStarts(text), ByteAt(text, i)) = LineAt(text, i) + 1
    BY LineFound
  <1>2. LineStarts(text)[LineAt(text, i) + 1] = ByteAt(text, LineStart(text, i))
    BY LineStartsAt
  <1>3. (LineAt(text, i) + 1) - 1 = LineAt(text, i)
    <2>1. i \in i .. Len(text)
      BY DEF Boundaries
    <2>2. LineAt(text, i) \in Nat
      BY <2>1, LinesGrow
    <2> QED
      BY <2>2
  <1> QED
    BY <1>1, <1>2, <1>3, BoundaryFound DEF BytePoint, BytePointIn, Point

(* The text with new in place of what lies between two boundaries.         *)
Edited(text, i, j, new) == SubSeq(text, 1, i) \o new \o SubSeq(text, j + 1, Len(text))

LEMMA EditedText ==
  ASSUME NEW text \in Seq(Chars), NEW new \in Seq(Chars),
         NEW i \in Boundaries(text), NEW j \in i .. Len(text)
  PROVE  /\ Edited(text, i, j, new) \in Seq(Chars)
         /\ Len(Edited(text, i, j, new)) = i + Len(new) + (Len(text) - j)
         /\ \A l \in 1 .. i : Edited(text, i, j, new)[l] = text[l]
         /\ \A l \in 1 .. Len(new) : Edited(text, i, j, new)[l + i] = new[l]
         /\ \A l \in j + 1 .. Len(text) :
              Edited(text, i, j, new)[l + (i + Len(new) - j)] = text[l]
  <1> DEFINE a == SubSeq(text, 1, i)
             c == SubSeq(text, j + 1, Len(text))
             ab == a \o new
             e == ab \o c
  <1>0. Len(text) \in Nat /\ Len(new) \in Nat /\ i \in Nat /\ j \in Nat /\ i <= j /\ j <= Len(text)
    BY DEF Boundaries
  <1>1. a \in Seq(Chars) /\ Len(a) = i /\ \A l \in 1 .. i : a[l] = text[l]
    <2>1. 1 .. i \subseteq 1 .. Len(text)
      BY <1>0
    <2> QED
      BY <1>0, <2>1
  <1>2. c \in Seq(Chars) /\ Len(c) = Len(text) - j /\ \A l \in 1 .. Len(text) - j : c[l] = text[l + j]
    <2>1. CASE j = Len(text)
      BY <1>0, <2>1
    <2>2. CASE j < Len(text)
      <3>1. j + 1 \in 1 .. Len(text)
        BY <1>0, <2>2
      <3>2. \A l \in j + 1 .. Len(text) : text[l] \in Chars
        BY <1>0
      <3>3. c \in Seq(Chars) /\ Len(c) = (Len(text) - (j + 1)) + 1
        BY <1>0, <3>1, <3>2
      <3>4. \A l \in 1 .. Len(text) - j : c[l] = text[(j + 1) + l - 1]
        BY <1>0, <3>1
      <3>5. \A l \in 1 .. Len(text) - j : (j + 1) + l - 1 = l + j
        BY <1>0
      <3> HIDE DEF c
      <3> QED
        BY <1>0, <3>3, <3>4, <3>5
    <2> QED
      BY <1>0, <2>1, <2>2
  <1> HIDE DEF a, c
  <1>3. /\ ab \in Seq(Chars) /\ Len(ab) = i + Len(new)
        /\ \A l \in 1 .. i : ab[l] = text[l]
        /\ \A l \in 1 .. Len(new) : ab[l + i] = new[l]
    <2>1. ab \in Seq(Chars) /\ Len(ab) = i + Len(new)
      BY <1>0, <1>1
    <2>2. \A l \in 1 .. i + Len(new) : ab[l] = IF l <= i THEN a[l] ELSE new[l - i]
      BY <1>0, <1>1
    <2>3. \A l \in 1 .. Len(new) : ab[l + i] = new[l]
      <3> SUFFICES ASSUME NEW l \in 1 .. Len(new) PROVE ab[l + i] = new[l]
        OBVIOUS
      <3>1. l + i \in 1 .. i + Len(new) /\ ~(l + i <= i) /\ (l + i) - i = l
        BY <1>0
      <3> HIDE DEF ab
      <3>2. ab[l + i] = new[(l + i) - i]
        BY <2>2, <3>1
      <3> QED
        BY <3>1, <3>2
    <2>4. \A l \in 1 .. i : ab[l] = text[l]
      <3> SUFFICES ASSUME NEW l \in 1 .. i PROVE ab[l] = text[l]
        OBVIOUS
      <3>1. l \in 1 .. i + Len(new) /\ l <= i
        BY <1>0
      <3> HIDE DEF ab
      <3> QED
        BY <1>1, <2>2, <3>1
    <2> QED
      BY <2>1, <2>3, <2>4
  <1> HIDE DEF ab
  <1>4. e \in Seq(Chars) /\ Len(e) = (i + Len(new)) + (Len(text) - j)
    <2>0. ab \in Seq(Chars) /\ c \in Seq(Chars)
      BY <1>2, <1>3
    <2>1. e \in Seq(Chars) /\ Len(e) = Len(ab) + Len(c)
      BY <2>0, ConcatProperties
    <2> HIDE DEF e
    <2> QED
      BY <1>2, <1>3, <2>1
  <1>5. \A l \in 1 .. Len(e) : e[l] = IF l <= Len(ab) THEN ab[l] ELSE c[l - Len(ab)]
    BY <1>2, <1>3
  <1> HIDE DEF e
  <1>6. \A l \in 1 .. i : e[l] = text[l]
    BY <1>0, <1>3, <1>4, <1>5
  <1>7. \A l \in 1 .. Len(new) : e[l + i] = new[l]
    <2> SUFFICES ASSUME NEW l \in 1 .. Len(new) PROVE e[l + i] = new[l]
      OBVIOUS
    <2>1. l + i \in 1 .. Len(e) /\ l + i <= Len(ab)
      BY <1>0, <1>3, <1>4
    <2> QED
      BY <1>3, <1>5, <2>1
  <1>8. \A l \in j + 1 .. Len(text) : e[l + (i + Len(new) - j)] = text[l]
    <2> SUFFICES ASSUME NEW l \in j + 1 .. Len(text) PROVE e[l + (i + Len(new) - j)] = text[l]
      OBVIOUS
    <2> DEFINE p == l + (i + Len(new) - j)
    <2>1. p \in 1 .. Len(e) /\ ~(p <= Len(ab)) /\ p - Len(ab) = l - j /\ l - j \in 1 .. Len(text) - j
          /\ (l - j) + j = l
      BY <1>0, <1>3, <1>4
    <2> HIDE DEF p
    <2>2. e[p] = c[l - j]
      BY <1>5, <2>1
    <2>3. c[l - j] = text[(l - j) + j]
      BY <1>2, <2>1
    <2> QED
      BY <2>1, <2>2, <2>3 DEF p
  <1>9. e = Edited(text, i, j, new)
    BY DEF e, ab, a, c, Edited
  <1> QED
    BY <1>0, <1>4, <1>6, <1>7, <1>8, <1>9

(* What is known of e, the text with new between the boundaries i and j; d *)
(* is how far the characters behind the change move.                       *)
Spliced(e, text, i, j, new, d) ==
  /\ e \in Seq(Chars) /\ d \in Int
  /\ Len(e) = Len(text) + d /\ j + d = i + Len(new)
  /\ \A l \in 1 .. i : e[l] = text[l]
  /\ \A l \in 1 .. Len(new) : e[l + i] = new[l]
  /\ \A l \in j + 1 .. Len(text) : e[l + d] = text[l]

LEMMA EditedSplices ==
  ASSUME NEW text \in Seq(Chars), NEW new \in Seq(Chars),
         NEW i \in Boundaries(text), NEW j \in i .. Len(text)
  PROVE  Spliced(Edited(text, i, j, new), text, i, j, new, i + Len(new) - j)
  <1>1. Len(text) \in Nat /\ Len(new) \in Nat /\ i \in Nat /\ j \in Nat
    BY DEF Boundaries
  <1>2. /\ i + Len(new) - j \in Int /\ j + (i + Len(new) - j) = i + Len(new)
        /\ i + Len(new) + (Len(text) - j) = Len(text) + (i + Len(new) - j)
    BY <1>1
  <1> QED
    BY <1>2, EditedText DEF Spliced

LEMMA SumsBehind ==
  ASSUME NEW width \in [Chars -> Nat], NEW text \in Seq(Chars), NEW e \in Seq(Chars),
         NEW d \in Int, NEW j \in 0 .. Len(text), j + d >= 0, Len(e) = Len(text) + d,
         \A l \in j + 1 .. Len(text) : e[l + d] = text[l]
  PROVE  \A m \in j .. Len(text), k \in j .. Len(text) :
           m <= k => Sums(width, e)[k + d] - Sums(width, e)[m + d]
                       = Sums(width, text)[k] - Sums(width, text)[m]
  <1> SUFFICES ASSUME NEW m \in j .. Len(text), NEW k \in j .. Len(text), m <= k
               PROVE  Sums(width, e)[k + d] - Sums(width, e)[m + d] = Sums(width, text)[k] - Sums(width, text)[m]
    OBVIOUS
  <1>1. m \in 0 .. Len(text) /\ k \in m .. Len(text) /\ m + d >= 0 /\ k + d <= Len(e)
    OBVIOUS
  <1>2. \A l \in m + 1 .. k : e[l + d] = text[l]
    <2> SUFFICES ASSUME NEW l \in m + 1 .. k PROVE e[l + d] = text[l]
      OBVIOUS
    <2>1. l \in j + 1 .. Len(text)
      BY <1>1
    <2> QED
      BY <2>1
  <1> QED
    BY <1>1, <1>2, SumsShift, Zenon

\* Widths after a change: the same before it, as far apart as they were
\* behind it, and the new text between.
LEMMA EditedSums ==
  ASSUME NEW text \in Seq(Chars), NEW new \in Seq(Chars),
         NEW i \in Boundaries(text), NEW j \in i .. Len(text),
         NEW width \in [Chars -> Nat], NEW e, NEW d, Spliced(e, text, i, j, new, d)
  PROVE  /\ \A k \in 0 .. i : Sums(width, e)[k] = Sums(width, text)[k]
         /\ Sums(width, e)[i + Len(new)] = Sums(width, text)[i] + Sums(width, new)[Len(new)]
         /\ \A m \in j .. Len(text), k \in j .. Len(text) :
              m <= k => Sums(width, e)[k + d] - Sums(width, e)[m + d]
                          = Sums(width, text)[k] - Sums(width, text)[m]
  <1>0. /\ Len(text) \in Nat /\ Len(new) \in Nat /\ i \in Nat /\ j \in Nat /\ i <= j /\ j <= Len(text)
        /\ d \in Int /\ j + d >= 0 /\ j + d = i + Len(new)
    BY DEF Boundaries, Spliced
  <1>1. /\ e \in Seq(Chars) /\ Len(e) = i + Len(new) + (Len(text) - j) /\ Len(e) = Len(text) + d
        /\ \A l \in 1 .. i : e[l] = text[l]
        /\ \A l \in 1 .. Len(new) : e[l + i] = new[l]
        /\ \A l \in j + 1 .. Len(text) : e[l + d] = text[l]
    <2>1. Len(e) = Len(text) + d
      BY DEF Spliced
    <2>2. Len(e) = i + Len(new) + (Len(text) - j)
      <3> DEFINE L == Len(text)
                 N == Len(new)
      <3>1. L \in Nat /\ N \in Nat /\ i \in Nat /\ j \in Nat /\ d \in Int /\ j + d = i + N
        BY <1>0
      <3> HIDE DEF L, N
      <3>2. L + d = i + N + (L - j)
        BY <3>1
      <3> QED
        BY <2>1, <3>2 DEF L, N
    <2> QED
      BY <2>1, <2>2 DEF Spliced
  <1>2. \A k \in 0 .. i : Sums(width, e)[k] = Sums(width, text)[k]
    <2> SUFFICES ASSUME NEW k \in 0 .. i PROVE Sums(width, e)[k] = Sums(width, text)[k]
      OBVIOUS
    <2>1. /\ 0 \in 0 .. Len(text) /\ k \in 0 .. Len(text) /\ 0 \in Int /\ 0 + 0 >= 0 /\ k + 0 <= Len(e) /\ k + 0 = k
          /\ \A l \in 0 + 1 .. k : e[l + 0] = text[l]
      BY <1>0, <1>1
    <2>2. Sums(width, e)[k + 0] - Sums(width, e)[0 + 0] = Sums(width, text)[k] - Sums(width, text)[0]
      BY <1>1, <2>1, SumsShift
    <2>3. Sums(width, e)[0] = 0 /\ Sums(width, text)[0] = 0
      BY <1>0, <1>1, SumsStep
    <2>4. Sums(width, e)[k] \in Nat /\ Sums(width, text)[k] \in Nat
      <3>1. k \in 0 .. Len(e)
        BY <1>0, <1>1
      <3> QED
        BY <1>1, <2>1, <3>1, SumsType
    <2> QED
      BY <2>1, <2>2, <2>3, <2>4
  <1>3. Sums(width, e)[i + Len(new)] = Sums(width, text)[i] + Sums(width, new)[Len(new)]
    <2>1. /\ 0 \in 0 .. Len(new) /\ Len(new) \in 0 .. Len(new) /\ i \in Int /\ 0 + i >= 0
          /\ Len(new) + i <= Len(e) /\ Len(new) + i = i + Len(new) /\ 0 + i = i
          /\ \A l \in 0 + 1 .. Len(new) : e[l + i] = new[l]
      BY <1>0, <1>1
    <2>2. Sums(width, e)[Len(new) + i] - Sums(width, e)[0 + i] = Sums(width, new)[Len(new)] - Sums(width, new)[0]
      BY <1>1, <2>1, SumsShift
    <2>3. Sums(width, new)[0] = 0 /\ Sums(width, e)[i] = Sums(width, text)[i]
      BY <1>0, <1>2, SumsStep
    <2>4. /\ Sums(width, e)[i + Len(new)] \in Nat /\ Sums(width, new)[Len(new)] \in Nat
          /\ Sums(width, text)[i] \in Nat
      <3>1. i + Len(new) \in 0 .. Len(e) /\ i \in 0 .. Len(text)
        BY <1>0, <1>1
      <3> QED
        BY <1>1, <2>1, <3>1, SumsType
    <2>5. Sums(width, e)[i + Len(new)] - Sums(width, text)[i] = Sums(width, new)[Len(new)] - 0
      BY <2>1, <2>2, <2>3
    <2> QED
      BY <2>4, <2>5
  <1>4. ASSUME NEW m \in j .. Len(text), NEW k \in j .. Len(text), m <= k
        PROVE  Sums(width, e)[k + d] - Sums(width, e)[m + d] = Sums(width, text)[k] - Sums(width, text)[m]
    <2>1. e \in Seq(Chars) /\ d \in Int /\ j \in 0 .. Len(text) /\ j + d >= 0 /\ Len(e) = Len(text) + d
      BY <1>0, <1>1
    <2> QED
      BY <1>1, <1>4, <2>1, SumsBehind, Zenon
  <1> QED
    BY <1>2, <1>3, <1>4

\* Boundaries before a change keep their byte and their point; those behind
\* it move as the end of the change does.
LEMMA EditedPoints ==
  ASSUME NEW text \in Seq(Chars), NEW new \in Seq(Chars),
         NEW i \in Boundaries(text), NEW j \in i .. Len(text),
         NEW e, NEW d, Spliced(e, text, i, j, new, d)
  PROVE  /\ \A k \in 0 .. i : ByteAt(e, k) = ByteAt(text, k) /\ Point(e, k) = Point(text, k)
         /\ ByteAt(e, j + d) = ByteAt(text, i) + ByteAt(new, Len(new))
         /\ \A k \in j .. Len(text) :
              /\ k + d \in Boundaries(e)
              /\ ByteAt(e, k + d) = (ByteAt(text, k) - ByteAt(text, j)) + ByteAt(e, j + d)
              /\ LineAt(e, k + d) = (LineAt(text, k) - LineAt(text, j)) + LineAt(e, j + d)
              /\ LineAt(text, k) = LineAt(text, j) =>
                   Point(e, k + d).column
                     = (Point(text, k).column - Point(text, j).column) + Point(e, j + d).column
              /\ LineAt(text, k) # LineAt(text, j) => Point(e, k + d).column = Point(text, k).column
  <1>0. /\ Len(text) \in Nat /\ Len(new) \in Nat /\ i \in Nat /\ j \in Nat /\ i <= j /\ j <= Len(text)
        /\ d \in Int /\ j + d = i + Len(new)
    BY DEF Boundaries, Spliced
  <1>1. /\ e \in Seq(Chars) /\ Len(e) = i + Len(new) + (Len(text) - j) /\ Len(e) = Len(text) + d
        /\ \A l \in 1 .. i : e[l] = text[l]
        /\ \A l \in j + 1 .. Len(text) : e[l + d] = text[l]
    <2>1. Len(e) = Len(text) + d
      BY DEF Spliced
    <2>2. Len(e) = i + Len(new) + (Len(text) - j)
      <3> DEFINE L == Len(text)
                 N == Len(new)
      <3>1. L \in Nat /\ N \in Nat /\ i \in Nat /\ j \in Nat /\ d \in Int /\ j + d = i + N
        BY <1>0
      <3> HIDE DEF L, N
      <3>2. L + d = i + N + (L - j)
        BY <3>1
      <3> QED
        BY <2>1, <3>2 DEF L, N
    <2> QED
      BY <2>1, <2>2 DEF Spliced
  <1>2. /\ \A k \in 0 .. i : ByteAt(e, k) = ByteAt(text, k) /\ LineAt(e, k) = LineAt(text, k)
        /\ ByteAt(e, i + Len(new)) = ByteAt(text, i) + ByteAt(new, Len(new))
        /\ \A m \in j .. Len(text), k \in j .. Len(text) : m <= k =>
              /\ ByteAt(e, k + d) - ByteAt(e, m + d) = ByteAt(text, k) - ByteAt(text, m)
              /\ LineAt(e, k + d) - LineAt(e, m + d) = LineAt(text, k) - LineAt(text, m)
    <2>1. \A width \in [Chars -> Nat] :
            /\ \A k \in 0 .. i : Sums(width, e)[k] = Sums(width, text)[k]
            /\ Sums(width, e)[i + Len(new)] = Sums(width, text)[i] + Sums(width, new)[Len(new)]
            /\ \A m \in j .. Len(text), k \in j .. Len(text) :
                 m <= k => Sums(width, e)[k + d] - Sums(width, e)[m + d]
                             = Sums(width, text)[k] - Sums(width, text)[m]
      BY EditedSums
    <2>2. Bytes \in [Chars -> Nat] /\ Ends \in [Chars -> Nat]
      BY Widths
    <2> QED
      BY <2>1, <2>2, Zenon DEF ByteAt, LineAt
  <1>3. ASSUME NEW k \in 0 .. i PROVE Point(e, k) = Point(text, k)
    <2> DEFINE s == LineStart(text, k)
    <2>1. k \in Boundaries(text) /\ k \in Boundaries(e) /\ k \in Nat
      BY <1>0, <1>1 DEF Boundaries
    <2>2. /\ s \in Boundaries(text) /\ s <= k /\ (s = 0 \/ text[s] = Newline)
          /\ \A l \in s + 1 .. k : text[l] # Newline
      BY <2>1, LineStartOf
    <2> HIDE DEF s
    <2>3. s \in Nat /\ s \in Boundaries(e) /\ s \in 0 .. i
      BY <1>0, <1>1, <2>1, <2>2 DEF Boundaries
    <2>4. (s = 0 \/ e[s] = Newline) /\ \A l \in s + 1 .. k : e[l] # Newline
      BY <1>1, <2>2, <2>3
    <2>5. LineStart(e, k) = s
      BY <1>1, <2>1, <2>2, <2>3, <2>4, LineStartIs
    <2> QED
      BY <1>2, <2>3, <2>5 DEF Point, s
  <1>4. ASSUME NEW k \in j .. Len(text)
        PROVE  /\ k + d \in Boundaries(e) /\ k \in Boundaries(text) /\ k \in Nat
               /\ ByteAt(e, k + d) \in Nat /\ ByteAt(text, k) \in Nat
               /\ LineAt(e, k + d) \in Nat /\ LineAt(text, k) \in Nat
    <2>1. k + d \in Boundaries(e) /\ k \in Boundaries(text) /\ k \in Nat
      BY <1>0, <1>1 DEF Boundaries
    <2>2. k + d \in k + d .. Len(e) /\ k \in k .. Len(text)
      BY <2>1 DEF Boundaries
    <2> QED
      BY <1>1, <2>1, <2>2, Ordered, LinesGrow
  <1>5. j \in j .. Len(text)
    BY <1>0
  <1>6. ASSUME NEW k \in j .. Len(text), LineAt(text, k) = LineAt(text, j)
        PROVE  Point(e, k + d).column
                 = (Point(text, k).column - Point(text, j).column) + Point(e, j + d).column
    <2> DEFINE s == LineStart(text, j)
               r == LineStart(e, j + d)
    <2>1. /\ s \in Boundaries(text) /\ s <= j /\ (s = 0 \/ text[s] = Newline)
          /\ \A l \in s + 1 .. j : text[l] # Newline
      BY <1>4, <1>5, LineStartOf
    <2>2. /\ r \in Boundaries(e) /\ r <= j + d /\ (r = 0 \/ e[r] = Newline)
          /\ \A l \in r + 1 .. j + d : e[l] # Newline
      BY <1>1, <1>4, <1>5, LineStartOf
    <2> HIDE DEF s, r
    <2>3. s \in Nat /\ r \in Nat
      BY <2>1, <2>2 DEF Boundaries
    <2>4. \A l \in j + 1 .. k : text[l] # Newline
      <3> SUFFICES ASSUME NEW l \in j + 1 .. k, text[l] = Newline PROVE FALSE
        OBVIOUS
      <3>1. LineAt(text, j) < LineAt(text, k)
        BY <1>4, <1>5, LinesGrow
      <3> QED
        BY <1>4, <1>5, <1>6, <3>1
    <2>5. \A l \in j + d + 1 .. k + d : e[l] # Newline
      <3> SUFFICES ASSUME NEW l \in j + d + 1 .. k + d PROVE e[l] # Newline
        OBVIOUS
      <3>1. l \in Int /\ k \in Nat /\ k <= Len(text) /\ j + d + 1 <= l /\ l <= k + d
        BY <1>0, <1>4
      <3>2. l - d \in j + 1 .. k /\ l - d \in j + 1 .. Len(text) /\ (l - d) + d = l
        BY <1>0, <3>1
      <3>3. e[(l - d) + d] = text[l - d]
        BY <1>1, <3>2
      <3> QED
        BY <2>4, <3>2, <3>3
    <2>6. LineStart(text, k) = s
      <3>1. s <= k /\ \A l \in s + 1 .. k : text[l] # Newline
        BY <1>0, <1>4, <2>1, <2>3, <2>4
      <3> QED
        BY <1>4, <2>1, <3>1, LineStartIs
    <2>7. LineStart(e, k + d) = r
      <3>1. r <= k + d /\ \A l \in r + 1 .. k + d : e[l] # Newline
        BY <1>0, <1>4, <2>2, <2>3, <2>5
      <3> QED
        BY <1>1, <1>4, <2>2, <3>1, LineStartIs
    <2>8. ByteAt(e, k + d) - ByteAt(e, j + d) = ByteAt(text, k) - ByteAt(text, j)
      BY <1>2, <1>5
    <2>9. ByteAt(text, s) \in Nat /\ ByteAt(e, r) \in Nat
      BY <1>1, <2>1, <2>2, Ordered
    <2>10. /\ Point(e, k + d).column = ByteAt(e, k + d) - ByteAt(e, r)
           /\ Point(e, j + d).column = ByteAt(e, j + d) - ByteAt(e, r)
           /\ Point(text, k).column = ByteAt(text, k) - ByteAt(text, s)
           /\ Point(text, j).column = ByteAt(text, j) - ByteAt(text, s)
      BY <2>6, <2>7 DEF Point, s, r
    <2>11. /\ ByteAt(e, k + d) \in Nat /\ ByteAt(e, j + d) \in Nat
           /\ ByteAt(text, k) \in Nat /\ ByteAt(text, j) \in Nat
      BY <1>4, <1>5
    <2>12. ByteAt(e, k + d) - ByteAt(e, r)
             = ((ByteAt(text, k) - ByteAt(text, s)) - (ByteAt(text, j) - ByteAt(text, s)))
               + (ByteAt(e, j + d) - ByteAt(e, r))
      <3> DEFINE a == ByteAt(e, k + d)
                 b == ByteAt(e, j + d)
                 x == ByteAt(text, k)
                 y == ByteAt(text, j)
                 u == ByteAt(e, r)
                 v == ByteAt(text, s)
      <3>1. a \in Nat /\ b \in Nat /\ x \in Nat /\ y \in Nat /\ u \in Nat /\ v \in Nat /\ a - b = x - y
        BY <2>8, <2>9, <2>11
      <3> HIDE DEF a, b, x, y, u, v
      <3>2. a - u = ((x - v) - (y - v)) + (b - u)
        BY <3>1
      <3> QED
        BY <3>2 DEF a, b, x, y, u, v
    <2> QED
      BY <2>10, <2>12
  <1>7. ASSUME NEW k \in j .. Len(text), LineAt(text, k) # LineAt(text, j)
        PROVE  Point(e, k + d).column = Point(text, k).column
    <2> DEFINE s == LineStart(text, k)
    <2>1. /\ s \in Boundaries(text) /\ s <= k /\ (s = 0 \/ text[s] = Newline)
          /\ \A l \in s + 1 .. k : text[l] # Newline
      BY <1>4, LineStartOf
    <2> HIDE DEF s
    <2>2. s \in Nat /\ k \in Nat
      BY <1>4, <2>1 DEF Boundaries
    <2>3. s >= j + 1
      <3> SUFFICES ASSUME ~(s >= j + 1) PROVE FALSE
        OBVIOUS
      <3>1. \A l \in j + 1 .. k : text[l] # Newline
        BY <1>0, <2>1, <2>2
      <3>2. LineAt(text, k) = LineAt(text, j)
        BY <1>4, <1>5, <3>1, LinesGrow
      <3> QED
        BY <1>7, <3>2
    <2>4. s \in j + 1 .. Len(text) /\ s \in j .. Len(text) /\ s + d \in Nat /\ s + d <= k + d /\ text[s] = Newline
      <3>1. s <= Len(text) /\ s <= k /\ k <= Len(text)
        BY <1>0, <2>1 DEF Boundaries
      <3>2. s # 0
        BY <1>0, <2>2, <2>3
      <3>3. s + d >= i + Len(new) + 1
        BY <1>0, <2>2, <2>3
      <3>4. s + d \in Nat /\ s + d <= k + d
        BY <1>0, <2>2, <3>1, <3>3
      <3> QED
        BY <1>0, <2>1, <2>2, <2>3, <3>1, <3>2, <3>4
    <2>5. e[s + d] = Newline
      BY <1>1, <2>4
    <2>6. \A l \in s + d + 1 .. k + d : e[l] # Newline
      <3> SUFFICES ASSUME NEW l \in s + d + 1 .. k + d PROVE e[l] # Newline
        OBVIOUS
      <3>1. l - d \in s + 1 .. k /\ l - d \in j + 1 .. Len(text) /\ (l - d) + d = l
        BY <1>0, <2>2, <2>4
      <3>2. e[(l - d) + d] = text[l - d]
        BY <1>1, <3>1
      <3> QED
        BY <2>1, <3>1, <3>2
    <2>7. LineStart(e, k + d) = s + d
      BY <1>1, <1>4, <2>4, <2>5, <2>6, LineStartIs
    <2>8. ByteAt(e, k + d) - ByteAt(e, s + d) = ByteAt(text, k) - ByteAt(text, s)
      BY <1>2, <2>1, <2>4
    <2> QED
      BY <2>7, <2>8 DEF Point, s
  <1>8. ASSUME NEW k \in j .. Len(text)
        PROVE  /\ ByteAt(e, k + d) = (ByteAt(text, k) - ByteAt(text, j)) + ByteAt(e, j + d)
               /\ LineAt(e, k + d) = (LineAt(text, k) - LineAt(text, j)) + LineAt(e, j + d)
    <2>1. /\ ByteAt(e, k + d) - ByteAt(e, j + d) = ByteAt(text, k) - ByteAt(text, j)
          /\ LineAt(e, k + d) - LineAt(e, j + d) = LineAt(text, k) - LineAt(text, j)
      BY <1>0, <1>2, <1>5
    <2>2. /\ ByteAt(e, k + d) \in Nat /\ ByteAt(e, j + d) \in Nat
          /\ ByteAt(text, k) \in Nat /\ ByteAt(text, j) \in Nat
          /\ LineAt(e, k + d) \in Nat /\ LineAt(e, j + d) \in Nat
          /\ LineAt(text, k) \in Nat /\ LineAt(text, j) \in Nat
      BY <1>4, <1>5
    <2> QED
      <3> DEFINE a == ByteAt(e, k + d)
                 b == ByteAt(e, j + d)
                 x == ByteAt(text, k)
                 y == ByteAt(text, j)
                 l == LineAt(e, k + d)
                 m == LineAt(e, j + d)
                 u == LineAt(text, k)
                 v == LineAt(text, j)
      <3>1. /\ a \in Nat /\ b \in Nat /\ x \in Nat /\ y \in Nat /\ a - b = x - y
            /\ l \in Nat /\ m \in Nat /\ u \in Nat /\ v \in Nat /\ l - m = u - v
        BY <2>1, <2>2
      <3> HIDE DEF a, b, x, y, l, m, u, v
      <3>2. a = (x - y) + b /\ l = (u - v) + m
        BY <3>1
      <3> QED
        BY <3>2 DEF a, b, x, y, l, m, u, v
  <1> QED
    BY <1>0, <1>2, <1>3, <1>4, <1>6, <1>7, <1>8

Mark(text, k) == [byte |-> ByteAt(text, k), point |-> Point(text, k)]

LEMMA ParsedMarks ==
  ASSUME NEW text \in Seq(Chars)
  PROVE  Parsed(text) = {Mark(text, k) : k \in Boundaries(text)}
  <1>1. \A k \in Boundaries(text) : BytePointIn(text, ByteAt(text, k)) = Point(text, k)
    BY PointFound
  <1> QED
    BY <1>1 DEF Parsed, Mark

(* The InputEdit of a change.                                              *)
InputEdit(text, i, j, e, end) ==
  [start |-> ByteAt(text, i), oldEnd |-> ByteAt(text, j), newEnd |-> ByteAt(e, end),
   startPoint |-> Point(text, i), oldEndPoint |-> Point(text, j), newEndPoint |-> Point(e, end)]

\* A change between two of the editor's positions gives the editor's new
\* text, and an InputEdit with the bytes and points of both texts.
LEMMA ChangeApplied ==
  ASSUME NEW text \in Seq(Chars), NEW new \in Seq(Chars),
         NEW i \in Boundaries(text), NEW j \in i .. Len(text), NEW change,
         change.start = ClientPosition(text, i), change.end = ClientPosition(text, j), change.new = new
  PROVE  ApplyContentChange(text, LineStarts(text), change)
           = {[text |-> Edited(text, i, j, new),
               edit |-> InputEdit(text, i, j, Edited(text, i, j, new), i + Len(new))]}
  <1> DEFINE starts == LineStarts(text)
             a == ByteAt(text, i)
             b == ByteAt(text, j)
             e == Edited(text, i, j, new)
             R == {r \in {a} \X {b} : r[1] <= r[2]}
  <1>0. /\ Len(text) \in Nat /\ Len(new) \in Nat /\ i \in Nat /\ j \in Nat /\ i <= j
        /\ j \in Boundaries(text)
    BY DEF Boundaries
  <1>1. a \in Nat /\ b \in Nat /\ a <= b
    BY <1>0, Ordered
  <1>2. PositionToByte(text, starts, change.start) = {a} /\ PositionToByte(text, starts, change.end) = {b}
    BY <1>0, ByteOfPosition
  <1>3. R = {<<a, b>>}
    <2> HIDE DEF a, b
    <2> QED
      BY <1>1
  <1>4. ApplyContentChange(text, starts, change) = {Change(text, starts, r[1], r[2], new) : r \in R}
    <2> HIDE DEF starts, a, b
    <2> QED
      BY <1>2 DEF ApplyContentChange
  <1>5. ApplyContentChange(text, starts, change) = {Change(text, starts, a, b, new)}
    <2> HIDE DEF R, starts, a, b
    <2> QED
      BY <1>3, <1>4
  <1> DEFINE d == i + Len(new) - j
  <1>6. /\ Spliced(e, text, i, j, new, d) /\ e \in Seq(Chars)
        /\ j + d = i + Len(new)
    <2>1. Spliced(e, text, i, j, new, d)
      BY EditedSplices
    <2> HIDE DEF e, d
    <2> QED
      BY <2>1 DEF Spliced
  <1>7. Before(text, a) \o new \o After(text, b) = e
    <2>1. Boundary(text, a) = i /\ Boundary(text, b) = j /\ 1 + j = j + 1
      BY <1>0, BoundaryFound
    <2> QED
      BY <2>1 DEF Before, After, Edited
  <1> HIDE DEF d, e
  <1>8. a + ByteAt(new, Len(new)) = ByteAt(e, i + Len(new))
    <2>1. ByteAt(e, j + d) = ByteAt(text, i) + ByteAt(new, Len(new))
      BY <1>6, EditedPoints
    <2> QED
      BY <1>6, <2>1
  <1>9. i + Len(new) \in Boundaries(e)
    <2>1. Len(e) = Len(text) + d /\ d \in Int
      BY <1>6 DEF Spliced
    <2>2. j <= Len(text)
      BY <1>0
    <2>3. i + Len(new) \in 0 .. Len(text) + d
      <3> DEFINE N == Len(new)
                 L == Len(text)
      <3>1. L \in Nat /\ N \in Nat /\ i \in Nat /\ j \in Nat /\ d \in Int /\ j <= L /\ j + d = i + N
        BY <1>0, <1>6, <2>1, <2>2
      <3> HIDE DEF N, L
      <3>2. i + N \in 0 .. L + d
        BY <3>1
      <3> QED
        BY <3>2 DEF N, L
    <2> QED
      BY <2>1, <2>3 DEF Boundaries
  <1>10. /\ BytePoint(starts, a) = Point(text, i) /\ BytePoint(starts, b) = Point(text, j)
         /\ BytePointIn(e, ByteAt(e, i + Len(new))) = Point(e, i + Len(new))
    BY <1>0, <1>6, <1>9, PointFound
  <1>11. Change(text, starts, a, b, new) = [text |-> e, edit |-> InputEdit(text, i, j, e, i + Len(new))]
    <2> HIDE DEF starts
    <2> QED
      BY <1>7, <1>8, <1>10 DEF Change, InputEdit
  <1> QED
    BY <1>5, <1>11 DEF e

\* What the tree knew of the text before a change and keeps, it knows of
\* the text after it.
LEMMA MarksFollow ==
  ASSUME NEW text \in Seq(Chars), NEW new \in Seq(Chars),
         NEW i \in Boundaries(text), NEW j \in i .. Len(text),
         NEW marks, marks \subseteq Parsed(text)
  PROVE  TreeEdit(marks, InputEdit(text, i, j, Edited(text, i, j, new), i + Len(new)))
           \subseteq Parsed(Edited(text, i, j, new))
  <1> DEFINE e == Edited(text, i, j, new)
             d == i + Len(new) - j
             edit == InputEdit(text, i, j, e, i + Len(new))
  <1>0. /\ Len(text) \in Nat /\ Len(new) \in Nat /\ i \in Nat /\ j \in Nat /\ i <= j /\ j <= Len(text)
        /\ j \in Boundaries(text)
    BY DEF Boundaries
  <1>1. Spliced(e, text, i, j, new, d)
    BY EditedSplices
  <1> HIDE DEF d, e
  <1>2. e \in Seq(Chars) /\ j + d = i + Len(new) /\ Len(e) = Len(text) + d /\ d \in Int
    BY <1>1 DEF Spliced
  <1>3. /\ \A k \in 0 .. i : ByteAt(e, k) = ByteAt(text, k) /\ Point(e, k) = Point(text, k)
        /\ \A k \in j .. Len(text) :
             /\ k + d \in Boundaries(e)
             /\ ByteAt(e, k + d) = (ByteAt(text, k) - ByteAt(text, j)) + ByteAt(e, j + d)
             /\ LineAt(e, k + d) = (LineAt(text, k) - LineAt(text, j)) + LineAt(e, j + d)
             /\ LineAt(text, k) = LineAt(text, j) =>
                  Point(e, k + d).column
                    = (Point(text, k).column - Point(text, j).column) + Point(e, j + d).column
             /\ LineAt(text, k) # LineAt(text, j) => Point(e, k + d).column = Point(text, k).column
    BY <1>1, EditedPoints
  <1>4. /\ edit.start = ByteAt(text, i) /\ edit.oldEnd = ByteAt(text, j) /\ edit.newEnd = ByteAt(e, j + d)
        /\ edit.oldEndPoint = Point(text, j) /\ edit.newEndPoint = Point(e, j + d)
    BY <1>2 DEF InputEdit
  <1> HIDE DEF edit
  <1>5. ASSUME NEW mark \in marks, mark.byte <= edit.start PROVE mark \in Parsed(e)
    <2>1. PICK k \in Boundaries(text) : mark = Mark(text, k)
      BY ParsedMarks
    <2>2. k <= i
      BY <1>4, <1>5, <2>1, Ordered DEF Mark
    <2>3. k \in 0 .. i /\ k \in Boundaries(e)
      <3>1. k \in Nat /\ i <= Len(e)
        BY <1>0, <1>2 DEF Boundaries
      <3> QED
        BY <1>0, <1>2, <2>2, <3>1 DEF Boundaries
    <2>4. mark = Mark(e, k)
      BY <1>3, <2>1, <2>3 DEF Mark
    <2> QED
      BY <1>2, <2>3, <2>4, ParsedMarks
  <1>6. ASSUME NEW mark \in marks, mark.byte >= edit.oldEnd PROVE Shift(mark, edit) \in Parsed(e)
    <2>1. PICK k \in Boundaries(text) : mark = Mark(text, k)
      BY ParsedMarks
    <2>2. ByteAt(text, k) \in Nat /\ ByteAt(text, j) \in Nat /\ ByteAt(text, j) <= ByteAt(text, k)
      BY <1>0, <1>4, <1>6, <2>1, Ordered DEF Mark
    <2>3. k \in j .. Len(text) /\ k \in k .. Len(text) /\ j \in j .. Len(text)
      <3>1. j <= k
        BY <1>0, <2>2, Ordered
      <3> QED
        BY <1>0, <3>1 DEF Boundaries
    <2>4. k + d \in Boundaries(e) /\ j + d \in Boundaries(e)
      BY <1>3, <2>3
    <2>5. /\ ByteAt(e, k + d) \in Nat /\ ByteAt(e, j + d) \in Nat
          /\ LineAt(text, k) \in Nat /\ LineAt(text, j) \in Nat
          /\ LineAt(e, k + d) \in Nat /\ LineAt(e, j + d) \in Nat
      <3>1. k + d \in k + d .. Len(e) /\ j + d \in j + d .. Len(e)
        BY <2>4 DEF Boundaries
      <3> QED
        BY <1>0, <1>2, <2>3, <2>4, <3>1, Ordered, LinesGrow
    <2>6. /\ Shift(mark, edit).byte = ByteAt(e, k + d)
          /\ Shift(mark, edit).byte = (ByteAt(text, k) - ByteAt(text, j)) + ByteAt(e, j + d)
      BY <1>3, <1>4, <2>1, <2>3 DEF Shift, Mark
    <2>7. Shift(mark, edit).point = Point(e, k + d)
      <3>1. CASE LineAt(text, k) = LineAt(text, j)
        <4>1. LineAt(e, k + d) = LineAt(e, j + d)
          BY <1>3, <2>3, <2>5, <3>1
        <4>2. Point(e, k + d).column
                = (Point(text, k).column - Point(text, j).column) + Point(e, j + d).column
          BY <1>3, <2>3, <3>1
        <4>3. Shift(mark, edit).point
                = [row |-> LineAt(e, j + d),
                   column |-> (Point(text, k).column - Point(text, j).column) + Point(e, j + d).column]
          BY <1>4, <2>1, <3>1 DEF Shift, Mark, Point
        <4> QED
          BY <4>1, <4>2, <4>3 DEF Point
      <3>2. CASE LineAt(text, k) # LineAt(text, j)
        <4>1. Point(e, k + d).column = Point(text, k).column
          BY <1>3, <2>3, <3>2
        <4>2. Shift(mark, edit).point
                = [row |-> (LineAt(text, k) - LineAt(text, j)) + LineAt(e, j + d),
                   column |-> Point(text, k).column]
          BY <1>4, <2>1, <3>2 DEF Shift, Mark, Point
        <4>3. Shift(mark, edit).point = [row |-> LineAt(e, k + d), column |-> Point(e, k + d).column]
          BY <1>3, <2>3, <4>1, <4>2
        <4> QED
          BY <4>3 DEF Point
      <3> QED
        BY <3>1, <3>2
    <2>8. Shift(mark, edit) = Mark(e, k + d)
      BY <2>6, <2>7 DEF Shift, Mark
    <2> QED
      BY <1>2, <2>4, <2>8, ParsedMarks
  <1>7. TreeEdit(marks, edit) \subseteq Parsed(e)
    BY <1>5, <1>6 DEF TreeEdit
  <1> QED
    BY <1>7 DEF edit, e

-----------------------------------------------------------------------------
(* A batch of changes.                                                     *)

(* after is the fold of Turn over the first n changes.                     *)
TurnsTo(state, changes, after, n) ==
  after = [k \in 0 .. n |-> IF k = 0 THEN state ELSE Turn(after[k - 1], changes[k])]

\* The recursive function of Turns satisfies its equation.
LEMMA TurnsExist ==
  ASSUME NEW state, NEW changes, NEW n \in Nat
  PROVE  \E after : TurnsTo(state, changes, after, n)
  <1> DEFINE P == {k \in Nat : \E after : TurnsTo(state, changes, after, k)}
  <1>1. 0 \in P
    <2>1. TurnsTo(state, changes, [k \in 0 .. 0 |-> state], 0)
      BY DEF TurnsTo
    <2> QED
      BY <2>1
  <1>2. ASSUME NEW m \in 1 .. n, m - 1 \in P PROVE m \in P
    <2>1. m \in Nat /\ m - 1 \in Nat /\ m # 0
      OBVIOUS
    <2>2. PICK f : TurnsTo(state, changes, f, m - 1)
      BY <1>2
    <2> DEFINE g == [k \in 0 .. m |-> IF k = m THEN Turn(f[m - 1], changes[m]) ELSE f[k]]
    <2>3. \A k \in 0 .. m : g[k] = IF k = 0 THEN state ELSE Turn(g[k - 1], changes[k])
      <3> SUFFICES ASSUME NEW k \in 0 .. m
                   PROVE  g[k] = IF k = 0 THEN state ELSE Turn(g[k - 1], changes[k])
        OBVIOUS
      <3>1. CASE k = 0
        <4>1. f[0] = state
          BY <2>1, <2>2 DEF TurnsTo
        <4> QED
          BY <2>1, <3>1, <4>1
      <3>2. CASE k = m
        BY <2>1, <3>2
      <3>3. CASE k # 0 /\ k # m
        <4>1. k - 1 \in 0 .. m /\ k - 1 # m /\ k \in 0 .. m - 1
          BY <3>3
        <4>2. f[k] = Turn(f[k - 1], changes[k])
          BY <2>2, <3>3, <4>1 DEF TurnsTo
        <4> QED
          BY <3>3, <4>1, <4>2
      <3> QED
        BY <3>1, <3>2, <3>3
    <2>4. TurnsTo(state, changes, g, m)
      <3> DEFINE h == [k \in 0 .. m |-> IF k = 0 THEN state ELSE Turn(g[k - 1], changes[k])]
      <3>1. g = h
        BY <2>3
      <3> QED
        BY <3>1 DEF TurnsTo
    <2> QED
      BY <2>1, <2>4
  <1> HIDE DEF P
  <1>3. \A k \in 0 .. n : k \in P
    BY <1>1, <1>2, InductionTo
  <1>4. n \in P
    BY <1>3
  <1> QED
    BY <1>4 DEF P

LEMMA TurnsEquation ==
  ASSUME NEW state, NEW changes, Len(changes) \in Nat
  PROVE  \E after : TurnsTo(state, changes, after, Len(changes)) /\ Turns(state, changes) = after[Len(changes)]
  <1>1. PICK f : TurnsTo(state, changes, f, Len(changes))
    BY TurnsExist
  <1> DEFINE after[n \in 0 .. Len(changes)] == IF n = 0 THEN state ELSE Turn(after[n - 1], changes[n])
  <1>2. TurnsTo(state, changes, after, Len(changes))
    BY <1>1, Zenon DEF after, TurnsTo
  <1>3. Turns(state, changes) = after[Len(changes)]
    BY Zenon DEF Turns, after
  <1> QED
    BY <1>2, <1>3, Zenon

\* No change leaves everything.
LEMMA NoTurns ==
  ASSUME NEW state
  PROVE  Turns(state, <<>>) = state
  <1>1. Len(<<>>) = 0
    OBVIOUS
  <1>2. PICK f : TurnsTo(state, <<>>, f, 0) /\ Turns(state, <<>>) = f[0]
    BY <1>1, TurnsEquation
  <1> QED
    BY <1>2 DEF TurnsTo

\* One more change is one more turn.
LEMMA TurnsStep ==
  ASSUME NEW state, NEW S, NEW changes \in Seq(S), NEW change \in S
  PROVE  Turns(state, Append(changes, change)) = Turn(Turns(state, changes), change)
  <1> DEFINE n == Len(changes)
             longer == Append(changes, change)
  <1>2. /\ n \in Nat /\ Len(longer) = n + 1 /\ longer[n + 1] = change
        /\ \A k \in 1 .. n : longer[k] = changes[k]
    OBVIOUS
  <1> HIDE DEF longer, n
  <1>3. PICK f : TurnsTo(state, changes, f, n) /\ Turns(state, changes) = f[n]
    BY <1>2, TurnsEquation DEF n
  <1>4. PICK g : TurnsTo(state, longer, g, n + 1) /\ Turns(state, longer) = g[n + 1]
    <2>1. n + 1 \in Nat
      BY <1>2
    <2> QED
      BY <1>2, <2>1, TurnsEquation
  <1>5. /\ f[0] = state /\ \A k \in 1 .. n : f[k] = Turn(f[k - 1], changes[k])
        /\ g[0] = state /\ \A k \in 1 .. n + 1 : g[k] = Turn(g[k - 1], longer[k])
    BY <1>2, <1>3, <1>4 DEF TurnsTo
  <1> DEFINE P == {k \in Nat : f[k] = g[k]}
  <1>6. 0 \in P
    BY <1>5
  <1>7. ASSUME NEW k \in 1 .. n, k - 1 \in P PROVE k \in P
    <2>1. k \in 1 .. n + 1 /\ k \in Nat
      BY <1>2
    <2>2. g[k] = Turn(g[k - 1], longer[k]) /\ f[k] = Turn(f[k - 1], changes[k]) /\ longer[k] = changes[k]
      BY <1>2, <1>5, <2>1
    <2> QED
      BY <1>7, <2>1, <2>2
  <1> HIDE DEF P
  <1>8. \A k \in 0 .. n : k \in P
    BY <1>2, <1>6, <1>7, InductionTo
  <1>9. f[n] = g[n]
    <2>1. n \in P
      BY <1>2, <1>8
    <2> QED
      BY <2>1 DEF P
  <1>10. g[n + 1] = Turn(g[n], change)
    <2>1. n + 1 \in 1 .. n + 1 /\ (n + 1) - 1 = n
      BY <1>2
    <2> QED
      BY <1>2, <1>5, <2>1
  <1> QED
    BY <1>3, <1>4, <1>9, <1>10 DEF longer

-----------------------------------------------------------------------------
(* The inductive invariant.                                                *)

Positions == [line : Nat, character : Nat]

Changes ==
  [full : {TRUE}, new : Seq(Chars)]
    \cup [full : {FALSE}, start : Positions, end : Positions, new : Seq(Chars)]

(* What the server keeps belongs to one text.                              *)
TextTypeInv ==
  /\ buffer \in Seq(Chars) /\ source \in Seq(Chars)
  /\ batch \in Seq(Changes)
  /\ lineStarts = LineStarts(source)
  /\ tree \subseteq Parsed(source)

(* The loop of did_change has worked through its changes, it holds text,   *)
(* and a tree that is still of use knows only boundaries of the text.      *)
Good(state, text) ==
  /\ state = [text |-> text, starts |-> LineStarts(text), tree |-> state.tree,
              valid |-> state.valid, ok |-> TRUE]
  /\ state.valid \in BOOLEAN
  /\ state.valid => state.tree \subseteq Parsed(text)

(* Whatever of the text the tree knows by then, the changes not sent yet   *)
(* lead to the editor's text.                                              *)
Held(marks) == [text |-> source, starts |-> lineStarts, tree |-> marks, valid |-> TRUE, ok |-> TRUE]

ReplayInv ==
  \A marks \in SUBSET Parsed(source) : Good(Turns(Held(marks), batch), buffer)

MirrorInv == TextTypeInv /\ ReplayInv

LEMMA HeldGood ==
  ASSUME NEW text, NEW marks, marks \subseteq Parsed(text)
  PROVE  Good([text |-> text, starts |-> LineStarts(text), tree |-> marks, valid |-> TRUE, ok |-> TRUE], text)
  <1> DEFINE s == [text |-> text, starts |-> LineStarts(text), tree |-> marks, valid |-> TRUE, ok |-> TRUE]
  <1>1. s.tree = marks /\ s.valid = TRUE
    OBVIOUS
  <1>2. s = [text |-> text, starts |-> LineStarts(text), tree |-> s.tree, valid |-> s.valid, ok |-> TRUE]
    BY <1>1
  <1> HIDE DEF s
  <1>3. Good(s, text)
    BY <1>1, <1>2 DEF Good
  <1> QED
    BY <1>3 DEF s

LEMMA PositionType ==
  ASSUME NEW text \in Seq(Chars), NEW i \in Boundaries(text)
  PROVE  ClientPosition(text, i) \in Positions
  <1>1. LineAt(text, i) \in Nat
    <2>1. i \in i .. Len(text)
      BY DEF Boundaries
    <2> QED
      BY <2>1, LinesGrow
  <1>2. LineStart(text, i) \in Boundaries(text) /\ LineStart(text, i) <= i
    BY LineStartOf
  <1> DEFINE u == UnitsAt(text, i)
             v == UnitsAt(text, LineStart(text, i))
  <1>3. u \in Nat /\ v \in Nat /\ v <= u
    BY <1>2, Ordered
  <1> HIDE DEF u, v
  <1>4. u - v \in Nat
    BY <1>3
  <1> QED
    BY <1>1, <1>4 DEF ClientPosition, Positions, u, v

\* A turn with a whole text leaves the loop with that text.
LEMMA FullTurn ==
  ASSUME NEW state, NEW text, Good(state, text), NEW new \in Seq(Chars)
  PROVE  Good(Turn(state, Full(new)), new)
  <1>1. state.ok = TRUE /\ Full(new).full = TRUE /\ Full(new).new = new
    BY DEF Good, Full
  <1>2. Turn(state, Full(new))
          = [text |-> new, starts |-> LineStarts(new), tree |-> state.tree, valid |-> FALSE, ok |-> TRUE]
    BY <1>1 DEF Turn, Good
  <1> QED
    BY <1>2 DEF Good

\* A turn with a change between two of the editor's positions leaves the
\* loop with the editor's new text.
LEMMA RangeTurn ==
  ASSUME NEW state, NEW text \in Seq(Chars), Good(state, text), NEW new \in Seq(Chars),
         NEW i \in Boundaries(text), NEW j \in i .. Len(text), NEW change,
         change = [full |-> FALSE, start |-> ClientPosition(text, i),
                   end |-> ClientPosition(text, j), new |-> new]
  PROVE  Good(Turn(state, change), Edited(text, i, j, new))
  <1> DEFINE e == Edited(text, i, j, new)
             edit == InputEdit(text, i, j, e, i + Len(new))
             r == [text |-> e, edit |-> edit]
             results == ApplyContentChange(state.text, state.starts, change)
             kept == IF state.tree = {} \/ ~state.valid THEN state.tree ELSE TreeEdit(state.tree, edit)
  <1>1. state.ok = TRUE /\ state.text = text /\ state.starts = LineStarts(text)
    BY DEF Good
  <1>2. change.full = FALSE /\ change.start = ClientPosition(text, i)
        /\ change.end = ClientPosition(text, j) /\ change.new = new
    OBVIOUS
  <1>3. results = {r}
    BY <1>1, <1>2, ChangeApplied
  <1>4. state.valid => kept \subseteq Parsed(e)
    <2> SUFFICES ASSUME state.valid PROVE kept \subseteq Parsed(e)
      OBVIOUS
    <2>1. state.tree \subseteq Parsed(text)
      BY DEF Good
    <2>2. TreeEdit(state.tree, edit) \subseteq Parsed(e)
      BY <2>1, MarksFollow
    <2> QED
      BY <2>2
  <1>5. r.text = e /\ r.edit = edit
    OBVIOUS
  <1> HIDE DEF e, edit
  <1>6. Turn(state, change)
          = [text |-> e, starts |-> LineStarts(e), tree |-> kept, valid |-> state.valid, ok |-> TRUE]
    <2>1. results # {} /\ (CHOOSE x \in results : TRUE) = r
      BY <1>3
    <2> HIDE DEF results, r
    <2>2. Turn(state, change)
            = [state EXCEPT !.text = r.text, !.starts = LineStarts(r.text),
                            !.tree = IF @ = {} \/ ~state.valid THEN @ ELSE TreeEdit(@, r.edit)]
      BY <1>1, <1>2, <2>1 DEF Turn, results
    <2>3. Turn(state, change)
            = [state EXCEPT !.text = e, !.starts = LineStarts(e), !.tree = kept]
      BY <1>5, <2>2
    <2> HIDE DEF kept
    <2> DEFINE marks == state.tree
               valid == state.valid
    <2>4. state = [text |-> text, starts |-> LineStarts(text), tree |-> marks, valid |-> valid, ok |-> TRUE]
      BY DEF Good
    <2>5. state.valid = valid
      OBVIOUS
    <2> HIDE DEF marks, valid
    <2> QED
      BY <2>3, <2>4, <2>5
  <1> HIDE DEF kept
  <1>7. state.valid \in BOOLEAN
    BY DEF Good
  <1> DEFINE next == Turn(state, change)
             valid == state.valid
  <1>8. next = [text |-> e, starts |-> LineStarts(e), tree |-> kept, valid |-> valid, ok |-> TRUE]
    BY <1>6
  <1>9. valid \in BOOLEAN /\ (valid => kept \subseteq Parsed(e))
    BY <1>4, <1>7
  <1> HIDE DEF next, valid
  <1>10. next.tree = kept /\ next.valid = valid
    BY <1>8
  <1>11. Good(next, e)
    BY <1>8, <1>9, <1>10 DEF Good
  <1> QED
    BY <1>11 DEF e, next

LEMMA MirrorInit ==
  ASSUME TextInit
  PROVE  MirrorInv
  <1>1. buffer \in Seq(Chars) /\ source = buffer
    BY CharsAssumption DEF TextInit
  <1>2. TextTypeInv
    BY <1>1 DEF TextInit, TextTypeInv
  <1>3. ReplayInv
    <2> SUFFICES ASSUME NEW marks \in SUBSET Parsed(source)
                 PROVE  Good(Turns(Held(marks), batch), buffer)
      BY DEF ReplayInv
    <2>1. Turns(Held(marks), <<>>) = Held(marks)
      BY NoTurns
    <2>2. batch = <<>>
      BY DEF TextInit
    <2>3. Good(Held(marks), source)
      BY <1>2, HeldGood DEF Held, TextTypeInv
    <2> QED
      BY <1>1, <2>1, <2>2, <2>3
  <1> QED
    BY <1>2, <1>3 DEF MirrorInv

LEMMA MirrorStep ==
  ASSUME MirrorInv, [TextNext]_textVars
  PROVE  MirrorInv'
  <1> USE DEF MirrorInv
  <1>0. /\ buffer \in Seq(Chars) /\ source \in Seq(Chars) /\ batch \in Seq(Changes)
        /\ lineStarts = LineStarts(source) /\ tree \subseteq Parsed(source)
    BY DEF TextTypeInv
  <1>1. ASSUME NEW i \in 0 .. Len(buffer), NEW j \in 0 .. Len(buffer), NEW new \in Inserts, Type(i, j, new)
        PROVE  MirrorInv'
    <2> DEFINE change == [full |-> FALSE, start |-> ClientPosition(buffer, i),
                          end |-> ClientPosition(buffer, j), new |-> new]
    <2>1. /\ i \in Boundaries(buffer) /\ j \in Boundaries(buffer) /\ j \in i .. Len(buffer)
          /\ new \in Seq(Chars)
      BY <1>0, <1>1, CharsAssumption DEF Type, Boundaries
    <2>2. /\ buffer' = Edited(buffer, i, j, new) /\ batch' = Append(batch, change)
          /\ source' = source /\ lineStarts' = lineStarts /\ tree' = tree
      BY <1>1 DEF Type, Edited
    <2>3. buffer' \in Seq(Chars)
      BY <1>0, <2>1, <2>2, EditedText
    <2>4. change \in Changes
      <3>1. ClientPosition(buffer, i) \in Positions /\ ClientPosition(buffer, j) \in Positions
        BY <1>0, <2>1, PositionType
      <3> QED
        BY <2>1, <3>1 DEF Changes
    <2>5. TextTypeInv'
      <3>1. batch' \in Seq(Changes)
        <4> HIDE DEF change
        <4> QED
          BY <1>0, <2>2, <2>4
      <3> QED
        BY <1>0, <2>2, <2>3, <3>1 DEF TextTypeInv
    <2>6. ReplayInv'
      <3>1. ASSUME NEW marks \in SUBSET Parsed(source)
            PROVE  Good(Turns(Held(marks), Append(batch, change)), Edited(buffer, i, j, new))
        <4> DEFINE before == Held(marks)
                   state == Turns(before, batch)
        <4>1. Good(state, buffer)
          BY DEF ReplayInv
        <4>2. Turns(before, Append(batch, change)) = Turn(state, change)
          <5> HIDE DEF before, change
          <5> QED
            BY <1>0, <2>4, TurnsStep
        <4> HIDE DEF before, state
        <4>3. Good(Turn(state, change), Edited(buffer, i, j, new))
          BY <1>0, <2>1, <4>1, RangeTurn
        <4> QED
          BY <4>2, <4>3 DEF before
      <3>2. \A marks : Held(marks)' = Held(marks)
        BY <2>2 DEF Held
      <3> HIDE DEF change
      <3> QED
        BY <2>2, <3>1, <3>2 DEF ReplayInv
    <2> QED
      BY <2>5, <2>6
  <1>2. ASSUME NEW new \in Inserts, Replace(new) PROVE MirrorInv'
    <2>1. new \in Seq(Chars) /\ Full(new) \in Changes
      BY CharsAssumption DEF Full, Changes
    <2>2. /\ buffer' = new /\ batch' = Append(batch, Full(new))
          /\ source' = source /\ lineStarts' = lineStarts /\ tree' = tree
      BY <1>2 DEF Replace
    <2>3. TextTypeInv'
      BY <1>0, <2>1, <2>2 DEF TextTypeInv
    <2>4. ASSUME NEW marks \in SUBSET Parsed(source)
          PROVE  Good(Turns(Held(marks), Append(batch, Full(new))), new)
      <3> DEFINE before == Held(marks)
                 state == Turns(before, batch)
      <3>1. Good(state, buffer)
        BY DEF ReplayInv
      <3>2. Turns(before, Append(batch, Full(new))) = Turn(state, Full(new))
        <4> HIDE DEF before
        <4> QED
          BY <1>0, <2>1, TurnsStep
      <3> HIDE DEF before, state
      <3>3. Good(Turn(state, Full(new)), new)
        BY <2>1, <3>1, FullTurn
      <3> QED
        BY <3>2, <3>3 DEF before
    <2>5. \A marks : Held(marks)' = Held(marks)
      BY <2>2 DEF Held
    <2>6. ReplayInv'
      BY <2>2, <2>4, <2>5 DEF ReplayInv
    <2> QED
      BY <2>3, <2>6
  <1>3. CASE DidChange
    <2> DEFINE s == Turns(Unsent, batch)
    <2>1. Good(s, buffer)
      <3>1. Held(tree) = Unsent
        BY DEF Unsent, Held
      <3> QED
        BY <1>0, <3>1 DEF ReplayInv
    <2> HIDE DEF s
    <2>2. s.ok = TRUE /\ s.text = buffer /\ s.starts = LineStarts(buffer)
          /\ s.valid \in BOOLEAN /\ (s.valid => s.tree \subseteq Parsed(buffer))
      BY <2>1 DEF Good
    <2>3. /\ source' = s.text /\ lineStarts' = s.starts
          /\ tree' = IF s.valid THEN s.tree ELSE Parsed(s.text)
          /\ batch' = <<>> /\ buffer' = buffer
      BY <1>3, <2>2 DEF DidChange, s
    <2>4. TextTypeInv'
      BY <1>0, <2>2, <2>3 DEF TextTypeInv
    <2>5. ASSUME NEW marks \in SUBSET Parsed(source')
          PROVE  Good(Turns(Held(marks)', <<>>), buffer)
      <3>1. Turns(Held(marks)', <<>>) = Held(marks)'
        BY NoTurns
      <3>2. Held(marks)'
              = [text |-> buffer, starts |-> LineStarts(buffer), tree |-> marks, valid |-> TRUE, ok |-> TRUE]
        BY <2>2, <2>3 DEF Held
      <3>3. Good(Held(marks)', buffer)
        BY <2>2, <2>3, <3>2, HeldGood
      <3> QED
        BY <3>1, <3>3
    <2>6. ReplayInv'
      BY <2>3, <2>5 DEF ReplayInv
    <2> QED
      BY <2>4, <2>6
  <1>4. CASE Reparse
    <2>1. /\ tree' = Parsed(source) /\ source' = source /\ lineStarts' = lineStarts
          /\ batch' = batch /\ buffer' = buffer
      BY <1>4 DEF Reparse
    <2>2. TextTypeInv'
      BY <1>0, <2>1 DEF TextTypeInv
    <2>3. \A marks : Held(marks)' = Held(marks)
      BY <2>1 DEF Held
    <2>4. ReplayInv'
      BY <2>1, <2>3 DEF ReplayInv
    <2> QED
      BY <2>2, <2>4
  <1>5. CASE UNCHANGED textVars
    <2>1. /\ tree' = tree /\ source' = source /\ lineStarts' = lineStarts
          /\ batch' = batch /\ buffer' = buffer
      BY <1>5 DEF textVars
    <2>2. \A marks : Held(marks)' = Held(marks)
      BY <2>1 DEF Held
    <2> QED
      BY <2>1, <2>2 DEF TextTypeInv, ReplayInv
  <1> QED
    BY <1>1, <1>2, <1>3, <1>4, <1>5 DEF TextNext

LEMMA MirrorAlways == TextSpec => []MirrorInv
  <1>1. TextInit => MirrorInv
    BY MirrorInit
  <1>2. MirrorInv /\ [TextNext]_textVars => MirrorInv'
    BY MirrorStep
  <1> QED
    BY <1>1, <1>2, PTL DEF TextSpec

-----------------------------------------------------------------------------
\* Whatever is typed, in whatever batches it is sent, the server has the
\* editor's text once every change was sent (did_change,
\* apply_content_change, position_to_byte).
THEOREM BufferAlwaysMirrored == TextSpec => []BufferMirrored
  <1>1. MirrorInv => BufferMirrored
    <2> SUFFICES ASSUME MirrorInv, batch = <<>> PROVE source = buffer
      BY DEF BufferMirrored
    <2>1. Good(Turns(Unsent, <<>>), buffer)
      <3>1. Held(tree) = Unsent
        BY DEF Unsent, Held
      <3> QED
        BY <3>1 DEF MirrorInv, ReplayInv, TextTypeInv
    <2>2. Turns(Unsent, <<>>) = Unsent
      BY NoTurns
    <2>3. Unsent.text = buffer
      BY <2>1, <2>2 DEF Good
    <2> QED
      BY <2>3 DEF Unsent
  <1> QED
    BY <1>1, MirrorAlways, PTL

\* Every boundary the tree knows has, after any changes without a parse, the
\* byte, the row and the column it has in the text (byte_point,
\* byte_point_in, Tree::edit).
THEOREM TreeAlwaysFollows == TextSpec => []TreeFollows
  <1>1. MirrorInv => TreeFollows
    <2> SUFFICES ASSUME MirrorInv, NEW mark \in tree
                 PROVE  \E i \in Boundaries(source) :
                          /\ mark.byte = ByteAt(source, i)
                          /\ mark.point = [row |-> LineAt(source, i),
                                           column |-> mark.byte - ByteAt(source, LineStart(source, i))]
      BY DEF TreeFollows
    <2>1. PICK i \in Boundaries(source) : mark = Mark(source, i)
      BY ParsedMarks DEF MirrorInv, TextTypeInv
    <2> QED
      BY <2>1 DEF Mark, Point
  <1> QED
    BY <1>1, MirrorAlways, PTL

\* A position the server reports is the editor's own and leads back to the
\* same byte, with the line index it keeps beside the text
\* (byte_to_position, position_to_byte).
THEOREM PositionsAlwaysRoundTrip == TextSpec => []PositionsRoundTrip
  <1>1. MirrorInv => PositionsRoundTrip
    BY PositionOfByte, ByteOfPosition DEF MirrorInv, TextTypeInv, PositionsRoundTrip
  <1> QED
    BY <1>1, MirrorAlways, PTL
=============================================================================
