------------------------ MODULE SemanticTokensProofs ------------------------
(***************************************************************************)
(* Theorems about SemanticTokens: a delta applied to the tokens it was     *)
(* made from gives the new tokens, decoding undoes encoding, and so what   *)
(* a client shows is what the walk collected.                              *)
(***************************************************************************)
EXTENDS SemanticTokens, NumberLemmas, SequenceTheorems, TLAPS

-----------------------------------------------------------------------------
(* Deltas.                                                                 *)

\* Shorter is the length of the shorter sequence.
LEMMA ShorterLength ==
  ASSUME NEW S, NEW a \in Seq(S), NEW b \in Seq(S)
  PROVE  Shorter(a, b) \in Nat /\ Shorter(a, b) <= Len(a) /\ Shorter(a, b) <= Len(b)
  <1>1. Len(a) \in Nat /\ Len(b) \in Nat
    OBVIOUS
  <1>2. \E x \in {Len(a), Len(b)} : \A y \in {Len(a), Len(b)} : x <= y
    BY <1>1
  <1> QED
    BY <1>1, <1>2 DEF Shorter, Min

\* Prefix is a common prefix, and Suffix a common suffix beside it.
LEMMA CommonEnds ==
  ASSUME NEW S, NEW prev \in Seq(S), NEW cur \in Seq(S)
  PROVE  /\ Prefix(prev, cur) \in Nat /\ Suffix(prev, cur) \in Nat
         /\ Prefix(prev, cur) + Suffix(prev, cur) <= Len(prev)
         /\ Prefix(prev, cur) + Suffix(prev, cur) <= Len(cur)
         /\ \A i \in 1 .. Prefix(prev, cur) : prev[i] = cur[i]
         /\ \A i \in 0 .. Suffix(prev, cur) - 1 : prev[Len(prev) - i] = cur[Len(cur) - i]
  <1> DEFINE p == Prefix(prev, cur)
             n == Shorter(prev, cur)
             P == {k \in 0 .. n : \A i \in 1 .. k : prev[i] = cur[i]}
             Q == {k \in 0 .. n - p : \A i \in 0 .. k - 1 : prev[Len(prev) - i] = cur[Len(cur) - i]}
  <1>1. n \in Nat /\ n <= Len(prev) /\ n <= Len(cur) /\ Len(prev) \in Nat /\ Len(cur) \in Nat
    BY ShorterLength
  <1>2. p \in P
    <2>1. 0 \in P /\ P \subseteq 0 .. n
      BY <1>1
    <2>2. Max(P) \in P
      BY <1>1, <2>1, GreatestNumber
    <2> QED
      BY <2>2 DEF Prefix
  <1>3. p \in 0 .. n /\ n - p \in Nat
    BY <1>1, <1>2
  <1>4. Suffix(prev, cur) \in Q
    <2>1. 0 \in Q /\ Q \subseteq 0 .. n - p
      BY <1>3
    <2>2. Max(Q) \in Q
      <3> HIDE DEF p, n
      <3> QED
        BY <1>3, <2>1, GreatestNumber
    <2> QED
      BY <2>2 DEF Suffix
  <1> QED
    BY <1>1, <1>2, <1>3, <1>4

\* The delta of two token lists, applied to the first, gives the second
\* (semantic_token_edits).
LEMMA DeltaApplies ==
  ASSUME NEW S, NEW prev \in Seq(S), NEW cur \in Seq(S)
  PROVE  Apply(prev, SemanticTokenEdits(prev, cur)) = cur
  <1>1. CASE prev = cur
    BY <1>1 DEF Apply, SemanticTokenEdits
  <1>2. CASE prev # cur
    <2> DEFINE p == Prefix(prev, cur)
               s == Suffix(prev, cur)
               a == SubSeq(prev, 1, p)
               m == SubSeq(cur, p + 1, Len(cur) - s)
               z == SubSeq(prev, Len(prev) - s + 1, Len(prev))
    <2>1. /\ p \in Nat /\ s \in Nat /\ Len(prev) \in Nat /\ Len(cur) \in Nat
          /\ p + s <= Len(prev) /\ p + s <= Len(cur)
          /\ \A i \in 1 .. p : prev[i] = cur[i]
          /\ \A i \in 0 .. s - 1 : prev[Len(prev) - i] = cur[Len(cur) - i]
      BY CommonEnds
    <2>2. Apply(prev, SemanticTokenEdits(prev, cur)) = a \o m \o z
      <3> DEFINE e == [start |-> p, delete |-> Len(prev) - p - s, data |-> m]
      <3>1. SemanticTokenEdits(prev, cur) = <<e>>
        BY <1>2 DEF SemanticTokenEdits
      <3>2. e.start + e.delete + 1 = Len(prev) - s + 1
        <4> HIDE DEF p, s
        <4> QED
          BY <2>1
      <3>3. <<e>> # <<>> /\ <<e>>[1] = e
        OBVIOUS
      <3>4. e.start = p /\ e.data = m
        OBVIOUS
      <3> HIDE DEF e, m, p, s
      <3>5. Apply(prev, <<e>>) = SubSeq(prev, 1, e.start) \o e.data \o SubSeq(prev, e.start + e.delete + 1, Len(prev))
        BY <3>3 DEF Apply
      <3> QED
        BY <3>1, <3>2, <3>4, <3>5
    <2> HIDE DEF p, s
    <2>3. a \in Seq(S) /\ Len(a) = p /\ \A i \in 1 .. p : a[i] = prev[i]
      <3>1. \A i \in 1 .. p : prev[i] \in S
        BY <2>1
      <3> QED
        BY <2>1, <3>1, SubSeqProperties
    <2>4. m \in Seq(S) /\ Len(m) = Len(cur) - s - p /\ \A i \in 1 .. Len(cur) - s - p : m[i] = cur[p + i]
      <3>1. \A i \in p + 1 .. Len(cur) - s : cur[i] \in S
        BY <2>1
      <3>2. /\ m \in Seq(S)
            /\ Len(m) = IF p + 1 <= Len(cur) - s THEN (Len(cur) - s) - (p + 1) + 1 ELSE 0
            /\ \A i \in 1 .. (Len(cur) - s) - (p + 1) + 1 : m[i] = cur[(p + 1) + i - 1]
        <4>1. p + 1 \in Int /\ Len(cur) - s \in Int
          BY <2>1
        <4> QED
          BY <3>1, <4>1, SubSeqProperties
      <3> HIDE DEF m
      <3> QED
        BY <2>1, <3>2
    <2>5. z \in Seq(S) /\ Len(z) = s /\ \A i \in 1 .. s : z[i] = prev[Len(prev) - s + i]
      <3>1. \A i \in Len(prev) - s + 1 .. Len(prev) : prev[i] \in S
        BY <2>1
      <3>2. /\ z \in Seq(S)
            /\ Len(z) = IF Len(prev) - s + 1 <= Len(prev) THEN Len(prev) - (Len(prev) - s + 1) + 1 ELSE 0
            /\ \A i \in 1 .. Len(prev) - (Len(prev) - s + 1) + 1 : z[i] = prev[(Len(prev) - s + 1) + i - 1]
        <4>1. Len(prev) - s + 1 \in Int /\ Len(prev) \in Int
          BY <2>1
        <4> QED
          BY <3>1, <4>1, SubSeqProperties
      <3> HIDE DEF z
      <3> QED
        BY <2>1, <3>2
    <2> HIDE DEF a, m, z
    <2> DEFINE am == a \o m
    <2>6. /\ am \in Seq(S) /\ Len(am) = Len(cur) - s
          /\ \A i \in 1 .. Len(cur) - s : am[i] = IF i <= p THEN a[i] ELSE m[i - p]
      BY <2>1, <2>3, <2>4, ConcatProperties
    <2> HIDE DEF am
    <2> DEFINE c == am \o z
    <2>7. /\ c \in Seq(S) /\ Len(c) = Len(cur)
          /\ \A i \in 1 .. Len(cur) : c[i] = IF i <= Len(cur) - s THEN am[i] ELSE z[i - (Len(cur) - s)]
      <3>1. /\ c \in Seq(S) /\ Len(c) = Len(am) + Len(z)
            /\ \A i \in 1 .. Len(am) + Len(z) : c[i] = IF i <= Len(am) THEN am[i] ELSE z[i - Len(am)]
        BY <2>5, <2>6, ConcatProperties
      <3>2. Len(am) + Len(z) = Len(cur)
        BY <2>1, <2>5, <2>6
      <3> HIDE DEF c
      <3> QED
        BY <2>6, <3>1, <3>2
    <2> HIDE DEF c
    <2>8. \A i \in 1 .. Len(cur) : c[i] = cur[i]
      <3> SUFFICES ASSUME NEW i \in 1 .. Len(cur) PROVE c[i] = cur[i]
        OBVIOUS
      <3>1. CASE i <= p
        BY <2>1, <2>3, <2>6, <2>7, <3>1
      <3>2. CASE p < i /\ i <= Len(cur) - s
        <4>1. c[i] = m[i - p]
          BY <2>1, <2>6, <2>7, <3>2
        <4>2. i - p \in 1 .. Len(cur) - s - p /\ p + (i - p) = i
          BY <2>1, <3>2
        <4> QED
          BY <2>4, <4>1, <4>2
      <3>3. CASE Len(cur) - s < i
        <4>1. c[i] = z[i - (Len(cur) - s)]
          BY <2>1, <2>7, <3>3
        <4>2. i - (Len(cur) - s) \in 1 .. s
          BY <2>1, <3>3
        <4>3. z[i - (Len(cur) - s)] = prev[Len(prev) - s + (i - (Len(cur) - s))]
          BY <2>5, <4>2
        <4>4. Len(cur) - i \in 0 .. s - 1
          BY <2>1, <3>3
        <4>5. prev[Len(prev) - (Len(cur) - i)] = cur[Len(cur) - (Len(cur) - i)]
          BY <2>1, <4>4
        <4>6. Len(prev) - s + (i - (Len(cur) - s)) = Len(prev) - (Len(cur) - i) /\ Len(cur) - (Len(cur) - i) = i
          BY <2>1
        <4> QED
          BY <4>1, <4>3, <4>5, <4>6
      <3> QED
        BY <2>1, <3>1, <3>2, <3>3
    <2>9. c = cur
      BY <2>7, <2>8, SeqEqual
    <2> QED
      BY <2>2, <2>9 DEF c, am
  <1> QED
    BY <1>1, <1>2
-----------------------------------------------------------------------------
(* The encoding.                                                           *)

Code == Int \X Int \X Nat \X STRING

(* What Decode's positions satisfy.                                        *)
Along(data, at) ==
  [i \in 0 .. Len(data) |->
     IF i = 0 THEN <<0, 0>>
     ELSE <<at[i - 1][1] + data[i][1],
            IF data[i][1] = 0 THEN at[i - 1][2] + data[i][2] ELSE data[i][2]>>]

\* Decode's recursive function is one of those that satisfy its equation.
LEMMA DecodePositions ==
  ASSUME NEW data, NEW f, f = Along(data, f)
  PROVE  \E g : /\ g = Along(data, g)
                /\ Decode(data) = [i \in 1 .. Len(data) |-> g[i] \o SubSeq(data[i], 3, 4)]
  <1> DEFINE at[i \in 0 .. Len(data)] ==
        IF i = 0 THEN <<0, 0>>
        ELSE <<at[i - 1][1] + data[i][1],
               IF data[i][1] = 0 THEN at[i - 1][2] + data[i][2] ELSE data[i][2]>>
  <1>1. at = Along(data, at)
    BY Zenon DEF at, Along
  <1>2. Decode(data) = [i \in 1 .. Len(data) |-> at[i] \o SubSeq(data[i], 3, 4)]
    BY Zenon DEF Decode, at
  <1> HIDE DEF at
  <1> QED
    BY <1>1, <1>2, Zenon

\* A position in front of the rest of a token is a token.
LEMMA Rejoined ==
  ASSUME NEW S, NEW a \in S, NEW b \in S, NEW x \in S, NEW y \in S, NEW l \in S, NEW k \in S
  PROVE <<a, b>> \o SubSeq(<<x, y, l, k>>, 3, 4) = <<a, b, l, k>>
  <1> DEFINE q == <<x, y, l, k>>
             p == <<a, b>>
             r == SubSeq(q, 3, 4)
             c == p \o r
             w == <<a, b, l, k>>
  <1>1. \A i \in 3 .. 4 : q[i] \in S
    <2> SUFFICES ASSUME NEW i \in 3 .. 4 PROVE q[i] \in S
      OBVIOUS
    <2>1. i = 3 \/ i = 4
      OBVIOUS
    <2> QED
      BY <2>1
  <1>2. q[3] = l /\ q[4] = k
    OBVIOUS
  <1>3. r \in Seq(S) /\ Len(r) = 2 /\ r[1] = l /\ r[2] = k
    <2> HIDE DEF q
    <2> QED
      BY <1>1, <1>2, SubSeqProperties
  <1>4. p \in Seq(S) /\ Len(p) = 2 /\ p[1] = a /\ p[2] = b
    OBVIOUS
  <1>5. c \in Seq(S) /\ Len(c) = 4 /\ \A i \in 1 .. 4 : c[i] = IF i <= 2 THEN p[i] ELSE r[i - 2]
    <2> HIDE DEF p, r
    <2>1. /\ c \in Seq(S) /\ Len(c) = Len(p) + Len(r)
          /\ \A i \in 1 .. Len(p) + Len(r) : c[i] = IF i <= Len(p) THEN p[i] ELSE r[i - Len(p)]
      BY <1>3, <1>4, ConcatProperties
    <2> HIDE DEF c
    <2> QED
      BY <1>3, <1>4, <2>1
  <1> HIDE DEF c
  <1>6. c[1] = a /\ c[2] = b /\ c[3] = l /\ c[4] = k
    BY <1>3, <1>4, <1>5
  <1>7. w \in Seq(S) /\ Len(w) = 4 /\ w[1] = a /\ w[2] = b /\ w[3] = l /\ w[4] = k
    OBVIOUS
  <1> HIDE DEF w
  <1>8. \A i \in 1 .. Len(c) : c[i] = w[i]
    <2> SUFFICES ASSUME NEW i \in 1 .. 4 PROVE c[i] = w[i]
      BY <1>5
    <2>1. i = 1 \/ i = 2 \/ i = 3 \/ i = 4
      OBVIOUS
    <2> QED
      BY <1>6, <1>7, <2>1
  <1>9. c = w
    BY <1>5, <1>7, <1>8, SeqEqual
  <1> QED
    BY <1>9 DEF c, w, r, p, q

\* One code per token, the difference to the token before.
LEMMA Encoded ==
  ASSUME NEW tokens \in Seq(Token)
  PROVE  /\ Encode(tokens) \in Seq(Code)
         /\ Len(Encode(tokens)) = Len(tokens)
         /\ \A i \in 1 .. Len(tokens) :
              LET p == IF i = 1 THEN <<0, 0>> ELSE tokens[i - 1]
              IN Encode(tokens)[i] = <<tokens[i][1] - p[1],
                                       IF tokens[i][1] = p[1] THEN tokens[i][2] - p[2] ELSE tokens[i][2],
                                       tokens[i][3], tokens[i][4]>>
  <1> DEFINE p(i) == IF i = 1 THEN <<0, 0>> ELSE tokens[i - 1]
             e(i) == <<tokens[i][1] - p(i)[1],
                       IF tokens[i][1] = p(i)[1] THEN tokens[i][2] - p(i)[2] ELSE tokens[i][2],
                       tokens[i][3], tokens[i][4]>>
  <1>1. Encode(tokens) = [i \in 1 .. Len(tokens) |-> e(i)]
    BY DEF Encode
  <1>2. \A i \in 1 .. Len(tokens) : e(i) \in Code
    <2> SUFFICES ASSUME NEW i \in 1 .. Len(tokens) PROVE e(i) \in Code
      OBVIOUS
    <2>1. tokens[i] \in Token
      OBVIOUS
    <2>2. p(i)[1] \in Nat /\ p(i)[2] \in Nat
      <3>1. CASE i = 1
        BY <3>1
      <3>2. CASE i # 1
        <4>1. tokens[i - 1] \in Token
          BY <3>2
        <4> QED
          BY <3>2, <4>1 DEF Token
      <3> QED
        BY <3>1, <3>2
    <2> HIDE DEF p
    <2>3. tokens[i][1] \in Nat /\ tokens[i][2] \in Nat /\ tokens[i][3] \in Nat /\ tokens[i][4] \in STRING
      BY <2>1 DEF Token
    <2>4. tokens[i][1] - p(i)[1] \in Int
      BY <2>2, <2>3
    <2>5. (IF tokens[i][1] = p(i)[1] THEN tokens[i][2] - p(i)[2] ELSE tokens[i][2]) \in Int
      BY <2>2, <2>3
    <2> QED
      BY <2>3, <2>4, <2>5 DEF Code
  <1> HIDE DEF e
  <1>3. Encode(tokens) \in Seq(Code) /\ Len(Encode(tokens)) = Len(tokens)
    BY <1>1, <1>2
  <1>4. \A i \in 1 .. Len(tokens) : Encode(tokens)[i] = e(i)
    BY <1>1
  <1> QED
    BY <1>3, <1>4 DEF e

\* Decoding undoes encoding.
LEMMA DecodeEncode ==
  ASSUME NEW tokens \in Seq(Token)
  PROVE  Decode(Encode(tokens)) = tokens
  <1> DEFINE data == Encode(tokens)
             f == [i \in 0 .. Len(data) |-> IF i = 0 THEN <<0, 0>> ELSE <<tokens[i][1], tokens[i][2]>>]
  <1>1. /\ data \in Seq(Code) /\ Len(data) = Len(tokens) /\ Len(tokens) \in Nat
        /\ \A i \in 1 .. Len(tokens) : tokens[i] \in Token
    BY Encoded
  <1>2. \A i \in 1 .. Len(tokens) :
          /\ tokens[i][1] \in Nat /\ tokens[i][2] \in Nat /\ tokens[i][3] \in Nat /\ tokens[i][4] \in STRING
          /\ tokens[i] = <<tokens[i][1], tokens[i][2], tokens[i][3], tokens[i][4]>>
    BY <1>1 DEF Token
  <1>3. \A i \in 1 .. Len(tokens) :
          /\ data[i] = <<data[i][1], data[i][2], tokens[i][3], tokens[i][4]>>
          /\ data[i][1] \in Int /\ data[i][2] \in Int
          /\ i = 1 => data[i][1] = tokens[i][1] /\ data[i][2] = tokens[i][2]
          /\ i # 1 => /\ data[i][1] = tokens[i][1] - tokens[i - 1][1]
                      /\ data[i][2] = IF tokens[i][1] = tokens[i - 1][1]
                                      THEN tokens[i][2] - tokens[i - 1][2] ELSE tokens[i][2]
    <2> SUFFICES ASSUME NEW i \in 1 .. Len(tokens)
                 PROVE  /\ data[i] = <<data[i][1], data[i][2], tokens[i][3], tokens[i][4]>>
                        /\ data[i][1] \in Int /\ data[i][2] \in Int
                        /\ i = 1 => data[i][1] = tokens[i][1] /\ data[i][2] = tokens[i][2]
                        /\ i # 1 => /\ data[i][1] = tokens[i][1] - tokens[i - 1][1]
                                    /\ data[i][2] = IF tokens[i][1] = tokens[i - 1][1]
                                                    THEN tokens[i][2] - tokens[i - 1][2] ELSE tokens[i][2]
      OBVIOUS
    <2> DEFINE q == IF i = 1 THEN <<0, 0>> ELSE tokens[i - 1]
    <2>1. data[i] = <<tokens[i][1] - q[1],
                      IF tokens[i][1] = q[1] THEN tokens[i][2] - q[2] ELSE tokens[i][2],
                      tokens[i][3], tokens[i][4]>>
      BY Encoded
    <2>2. CASE i = 1
      <3>1. q[1] = 0 /\ q[2] = 0
        BY <2>2
      <3> HIDE DEF q, data
      <3>2. tokens[i][1] \in Nat /\ tokens[i][2] \in Nat
        BY <1>2
      <3>3. data[i][1] = tokens[i][1] - 0 /\ data[i][2] = IF tokens[i][1] = 0 THEN tokens[i][2] - 0 ELSE tokens[i][2]
        BY <2>1, <3>1
      <3> QED
        BY <2>1, <2>2, <3>2, <3>3
    <2>3. CASE i # 1
      <3>1. q = tokens[i - 1] /\ i - 1 \in 1 .. Len(tokens)
        BY <2>3, <1>1
      <3> HIDE DEF q, data
      <3>2. /\ tokens[i][1] \in Nat /\ tokens[i][2] \in Nat
            /\ tokens[i - 1][1] \in Nat /\ tokens[i - 1][2] \in Nat
        BY <1>2, <3>1
      <3> QED
        BY <2>1, <2>3, <3>1, <3>2
    <2> QED
      BY <2>2, <2>3
  <1> HIDE DEF data
  <1>4. f = Along(data, f)
    <2> SUFFICES ASSUME NEW i \in 0 .. Len(data)
                 PROVE  f[i] = IF i = 0 THEN <<0, 0>>
                               ELSE <<f[i - 1][1] + data[i][1],
                                      IF data[i][1] = 0 THEN f[i - 1][2] + data[i][2] ELSE data[i][2]>>
      BY DEF Along
    <2>1. CASE i = 0
      BY <2>1
    <2>2. CASE i = 1
      <3>1. f[i - 1] = <<0, 0>> /\ f[i] = <<tokens[i][1], tokens[i][2]>>
        BY <2>2
      <3> HIDE DEF f
      <3> QED
        BY <1>1, <1>2, <1>3, <2>2, <3>1
    <2>3. CASE i # 0 /\ i # 1
      <3>1. i \in 1 .. Len(tokens) /\ i - 1 \in 1 .. Len(tokens)
        BY <1>1, <2>3
      <3>2. f[i - 1] = <<tokens[i - 1][1], tokens[i - 1][2]>> /\ f[i] = <<tokens[i][1], tokens[i][2]>>
        BY <1>1, <2>3, <3>1
      <3> HIDE DEF f
      <3> QED
        <4>1. /\ tokens[i][1] \in Nat /\ tokens[i][2] \in Nat
              /\ tokens[i - 1][1] \in Nat /\ tokens[i - 1][2] \in Nat
          BY <1>2, <3>1
        <4>2. /\ data[i][1] = tokens[i][1] - tokens[i - 1][1]
              /\ data[i][2] = IF tokens[i][1] = tokens[i - 1][1]
                              THEN tokens[i][2] - tokens[i - 1][2] ELSE tokens[i][2]
          BY <1>3, <2>3, <3>1
        <4>3. f[i - 1][1] = tokens[i - 1][1] /\ f[i - 1][2] = tokens[i - 1][2]
          BY <3>2
        <4>4. f[i - 1][1] + data[i][1] = tokens[i][1]
          BY <4>1, <4>2, <4>3
        <4>5. (IF data[i][1] = 0 THEN f[i - 1][2] + data[i][2] ELSE data[i][2]) = tokens[i][2]
          BY <4>1, <4>2, <4>3
        <4> QED
          BY <2>3, <3>2, <4>4, <4>5
    <2> QED
      BY <2>1, <2>2, <2>3
  <1>5. PICK g : g = Along(data, g) /\ Decode(data) = [i \in 1 .. Len(data) |-> g[i] \o SubSeq(data[i], 3, 4)]
    <2> HIDE DEF f
    <2> QED
      BY <1>4, DecodePositions
  <1>6. \A i \in 0 .. Len(data) : g[i] = f[i]
    <2> DEFINE T == {i \in 0 .. Len(data) : g[i] # f[i]}
    <2> SUFFICES ASSUME T # {} PROVE FALSE
      OBVIOUS
    <2>1. PICK m \in T : \A n \in T : m <= n
      <3>1. T \subseteq Nat
        BY <1>1
      <3> HIDE DEF T
      <3> QED
        BY <3>1, LeastNumber
    <2> HIDE DEF f
    <2>2. m # 0
      BY <1>4, <1>5 DEF Along
    <2>3. m - 1 \in 0 .. Len(data) /\ m \in 0 .. Len(data) /\ ~(m <= m - 1)
      BY <1>1, <2>2
    <2>4. g[m - 1] = f[m - 1]
      BY <2>1, <2>3
    <2>5. g[m] = Along(data, g)[m] /\ f[m] = Along(data, f)[m]
      BY <1>4, <1>5
    <2>6. g[m] = f[m]
      BY <2>2, <2>3, <2>4, <2>5 DEF Along
    <2> QED
      BY <2>6
  <1>7. \A i \in 1 .. Len(tokens) : g[i] \o SubSeq(data[i], 3, 4) = tokens[i]
    <2> SUFFICES ASSUME NEW i \in 1 .. Len(tokens) PROVE g[i] \o SubSeq(data[i], 3, 4) = tokens[i]
      OBVIOUS
    <2>1. g[i] = <<tokens[i][1], tokens[i][2]>>
      <3>1. i \in 0 .. Len(data) /\ i # 0
        BY <1>1
      <3>2. f[i] = <<tokens[i][1], tokens[i][2]>>
        BY <3>1
      <3> QED
        BY <1>6, <3>1, <3>2
    <2> DEFINE S == Int \cup STRING
    <2>2. <<tokens[i][1], tokens[i][2]>> \o SubSeq(<<data[i][1], data[i][2], tokens[i][3], tokens[i][4]>>, 3, 4)
            = <<tokens[i][1], tokens[i][2], tokens[i][3], tokens[i][4]>>
      <3>1. /\ tokens[i][1] \in S /\ tokens[i][2] \in S /\ data[i][1] \in S /\ data[i][2] \in S
            /\ tokens[i][3] \in S /\ tokens[i][4] \in S
        BY <1>2, <1>3
      <3> HIDE DEF S
      <3> QED
        BY <3>1, Rejoined
    <2> QED
      BY <1>2, <1>3, <2>1, <2>2
  <1>8. Decode(data) = [i \in 1 .. Len(tokens) |-> tokens[i]]
    BY <1>1, <1>5, <1>7
  <1> QED
    BY <1>1, <1>8 DEF data

-----------------------------------------------------------------------------
(* The inductive invariant.                                                *)

(* The walk collects data for some text and some state of other files.     *)
Collected(data) == \E t \in Texts, w \in Worlds : data = Encode(Raw[t][w])

(* x holds the data its result id was given for.                           *)
Given(x, ids) == x.id \in 0 .. Len(ids) - 1 /\ x.data = ids[x.id + 1]

\* Documents have one of the texts.
TextInv ==
  /\ world \in Worlds
  /\ doc # None => doc.text \in Texts
  /\ pending # None => pending.text \in Texts

\* Result ids are numbered in the order they are given, each for what some
\* walk collected (next_semantic_tokens_result_id).
IssuedInv ==
  /\ nextId = Len(issued) /\ Len(issued) \in Nat
  /\ issued \in Seq(Seq(Code))
  /\ \A i \in 1 .. Len(issued) : Collected(issued[i])

\* A request holds the texts of its snapshot, what it has collected from them,
\* and then the data of its own result id, or a delta that leads to it from
\* the data the client asked with.
Consistent(r, ids) ==
  /\ r.pc # "idle" => r.base = None \/ Given(r.base, ids)
  /\ r.pc \in {"queue", "compute"} => r.doc.text \in Texts /\ r.world \in Worlds
  /\ r.pc = "walk" => Collected(r.data)
  /\ r.pc \in {"store", "reply"} => r.id \in 0 .. Len(ids) - 1
  /\ r.pc = "store" => r.data = ids[r.id + 1]
  /\ r.pc = "reply" => (IF r.delta THEN Apply(r.base.data, r.data) ELSE r.data) = ids[r.id + 1]

RequestInv ==
  /\ request = [k \in Requests |-> request[k]]
  /\ \A k \in Requests : Consistent(request[k], issued)

\* The cache and the client hold what their result ids were given for.
CacheInv == cache # None => Given(cache, issued)
ShownInv == shown # None => Given(shown, issued)

TokensInv == TextInv /\ IssuedInv /\ RequestInv /\ CacheInv /\ ShownInv

-----------------------------------------------------------------------------
(* The steps.                                                              *)

\* A new result id leaves what the others were given for.
LEMMA GivenStays ==
  ASSUME NEW ids \in Seq(Seq(Code)), NEW d \in Seq(Code), NEW x, Given(x, ids)
  PROVE  Given(x, Append(ids, d))
  <1>1. /\ Len(ids) \in Nat /\ Len(Append(ids, d)) = Len(ids) + 1
        /\ \A i \in 1 .. Len(ids) : Append(ids, d)[i] = ids[i]
    BY AppendProperties
  <1>2. x.id \in 0 .. Len(ids) - 1 /\ x.data = ids[x.id + 1]
    BY DEF Given
  <1> QED
    BY <1>1, <1>2 DEF Given

LEMMA ConsistentStays ==
  ASSUME NEW ids \in Seq(Seq(Code)), NEW d \in Seq(Code), NEW r, Consistent(r, ids)
  PROVE  Consistent(r, Append(ids, d))
  <1>1. /\ Len(ids) \in Nat /\ Len(Append(ids, d)) = Len(ids) + 1
        /\ \A i \in 1 .. Len(ids) : Append(ids, d)[i] = ids[i]
    BY AppendProperties
  <1>2. r.pc # "idle" => r.base = None \/ Given(r.base, Append(ids, d))
    BY GivenStays DEF Consistent
  <1>3. r.pc \in {"store", "reply"} =>
          r.id \in 0 .. Len(Append(ids, d)) - 1 /\ Append(ids, d)[r.id + 1] = ids[r.id + 1]
    BY <1>1 DEF Consistent
  <1> QED
    BY <1>2, <1>3 DEF Consistent

\* What the walk collects is a list of codes, and decodes to the tokens.
LEMMA CollectedCodes ==
  ASSUME NEW data, Collected(data)
  PROVE  data \in Seq(Code) /\ \E t \in Texts, w \in Worlds : Decode(data) = Raw[t][w]
  <1>1. PICK t \in Texts, w \in Worlds : data = Encode(Raw[t][w])
    BY DEF Collected
  <1>2. Raw[t][w] \in Seq(Token)
    BY TokenAssumption
  <1> QED
    BY <1>1, <1>2, Encoded, DecodeEncode

\* The step of a request k, for the other requests: they stay consistent.
LEMMA OneRequest ==
  ASSUME RequestInv, NEW k \in Requests, NEW state, NEW ids,
         \A j \in Requests : Consistent(request[j], issued) => Consistent(request[j], ids),
         Consistent(state, ids),
         request' = [request EXCEPT ![k] = state], issued' = ids
  PROVE  RequestInv'
  BY DEF RequestInv

LEMMA TokensInitially == TokenInit => TokensInv
  BY DEF TokenInit, TokensInv, TextInv, IssuedInv, RequestInv, Consistent, CacheInv, ShownInv, Idle

LEMMA WorkKeepsTexts ==
  ASSUME TextInv, NEW k \in Requests, Work(k)
  PROVE  TextInv'
  BY DEF TextInv, Work, Snapshot, Queue, LoadVersion, Walk, Store, Reply, rest

\* A step of a request keeps the invariant: only LoadVersion collects, only
\* Walk gives a result id, and only Store and Reply hand data on.
LEMMA WorkStep ==
  ASSUME TokensInv, NEW k \in Requests, Work(k)
  PROVE  TokensInv'
  <1>1. TextInv /\ IssuedInv /\ RequestInv /\ CacheInv /\ ShownInv
    BY DEF TokensInv
  <1>2. TextInv'
    BY <1>1, WorkKeepsTexts
  <1>3. Consistent(request[k], issued)
    BY <1>1 DEF RequestInv
  <1>4. Consistent(Idle, issued)
    BY DEF Consistent, Idle
  <1>5. CASE Snapshot(k)
    <2>1. /\ issued' = issued /\ cache' = cache /\ shown' = shown /\ nextId' = nextId
          /\ At(k, "snapshot")
      BY <1>5 DEF Snapshot
    <2>2. CASE doc = None
      <3>1. request' = [request EXCEPT ![k] = Idle]
        BY <1>5, <2>2 DEF Snapshot, Finish, Goto
      <3>2. RequestInv'
        BY <1>1, <1>4, <2>1, <3>1, OneRequest
      <3> QED
        BY <1>1, <1>2, <2>1, <3>2 DEF TokensInv, IssuedInv, CacheInv, ShownInv
    <2>3. CASE doc # None
      <3> DEFINE state == [pc |-> "queue", base |-> request[k].base, doc |-> doc, world |-> world]
      <3>1. request' = [request EXCEPT ![k] = state]
        BY <1>5, <2>3 DEF Snapshot, Goto
      <3>2. Consistent(state, issued)
        BY <1>1, <1>3, <2>1, <2>3 DEF Consistent, At, TextInv
      <3> HIDE DEF state
      <3>3. RequestInv'
        BY <1>1, <2>1, <3>1, <3>2, OneRequest
      <3> QED
        BY <1>1, <1>2, <2>1, <3>3 DEF TokensInv, IssuedInv, CacheInv, ShownInv
    <2> QED
      BY <2>2, <2>3
  <1>6. CASE Queue(k)
    <2>1. /\ issued' = issued /\ cache' = cache /\ shown' = shown /\ nextId' = nextId
          /\ At(k, "queue")
      BY <1>6 DEF Queue
    <2> DEFINE state == [request[k] EXCEPT !.pc = "compute"]
    <2>2. request' = [request EXCEPT ![k] = Idle] \/ request' = [request EXCEPT ![k] = state]
      BY <1>6 DEF Queue, Finish, Goto
    <2>3. Consistent(state, issued)
      BY <1>3, <2>1 DEF Consistent, At
    <2> HIDE DEF state
    <2>4. RequestInv'
      BY <1>1, <1>4, <2>1, <2>2, <2>3, OneRequest
    <2> QED
      BY <1>1, <1>2, <2>1, <2>4 DEF TokensInv, IssuedInv, CacheInv, ShownInv
  <1>7. CASE LoadVersion(k)
    <2> DEFINE data == Encode(Raw[request[k].doc.text][request[k].world])
               state == [pc |-> "walk", base |-> request[k].base, version |-> version, data |-> data]
    <2>1. /\ issued' = issued /\ cache' = cache /\ shown' = shown /\ nextId' = nextId
          /\ At(k, "compute") /\ request' = [request EXCEPT ![k] = state]
      BY <1>7 DEF LoadVersion, Goto, rest
    <2>2. Collected(data)
      BY <1>3, <2>1 DEF Consistent, At, Collected
    <2> HIDE DEF data
    <2>3. Consistent(state, issued)
      BY <1>3, <2>1, <2>2 DEF Consistent, At
    <2> HIDE DEF state
    <2>4. RequestInv'
      BY <1>1, <2>1, <2>3, OneRequest
    <2> QED
      BY <1>1, <1>2, <2>1, <2>4 DEF TokensInv, IssuedInv, CacheInv, ShownInv
  <1>8. CASE Walk(k)
    <2>1. cache' = cache /\ shown' = shown /\ At(k, "walk")
      BY <1>8 DEF Walk
    <2>2. CASE request[k].version # version
      <3>1. request' = [request EXCEPT ![k] = Idle] /\ issued' = issued /\ nextId' = nextId
        BY <1>8, <2>2 DEF Walk, Finish, Goto
      <3>2. RequestInv'
        BY <1>1, <1>4, <3>1, OneRequest
      <3> QED
        BY <1>1, <1>2, <2>1, <3>1, <3>2 DEF TokensInv, IssuedInv, CacheInv, ShownInv
    <2>3. CASE request[k].version = version
      <3> DEFINE data == request[k].data
                 ids == Append(issued, data)
                 state == [pc |-> "store", base |-> request[k].base, data |-> data, id |-> nextId]
      <3>1. request' = [request EXCEPT ![k] = state] /\ issued' = ids /\ nextId' = nextId + 1
        BY <1>8, <2>3 DEF Walk, Goto
      <3>2. Collected(data) /\ data \in Seq(Code)
        BY <1>3, <2>1, CollectedCodes DEF Consistent, At
      <3>3. issued \in Seq(Seq(Code)) /\ nextId = Len(issued) /\ Len(issued) \in Nat
        BY <1>1 DEF IssuedInv
      <3> HIDE DEF data
      <3>4. /\ ids \in Seq(Seq(Code)) /\ Len(ids) = Len(issued) + 1
            /\ ids[Len(issued) + 1] = data
            /\ \A i \in 1 .. Len(issued) : ids[i] = issued[i]
        BY <3>2, <3>3, AppendProperties
      <3> HIDE DEF ids
      <3>5. IssuedInv'
        <4>1. \A i \in 1 .. Len(ids) : Collected(ids[i])
          <5> SUFFICES ASSUME NEW i \in 1 .. Len(ids) PROVE Collected(ids[i])
            OBVIOUS
          <5>1. CASE i = Len(issued) + 1
            BY <3>2, <3>4, <5>1
          <5>2. CASE i \in 1 .. Len(issued)
            BY <1>1, <3>4, <5>2 DEF IssuedInv
          <5> QED
            BY <3>3, <3>4, <5>1, <5>2
        <4>2. \A i \in 1 .. Len(issued') : Collected(issued'[i])
          BY <3>1, <4>1
        <4> QED
          BY <3>1, <3>3, <3>4, <4>2 DEF IssuedInv, Collected
      <3>6. \A x : Given(x, issued) => Given(x, ids)
        BY <3>2, <3>3, GivenStays DEF ids
      <3>7. \A r : Consistent(r, issued) => Consistent(r, ids)
        BY <3>2, <3>3, ConsistentStays DEF ids
      <3>8. Consistent(state, ids)
        BY <1>3, <2>1, <3>3, <3>4, <3>6 DEF Consistent, At
      <3> HIDE DEF state
      <3>9. RequestInv'
        BY <1>1, <3>1, <3>7, <3>8, OneRequest
      <3> QED
        BY <1>1, <1>2, <2>1, <3>1, <3>5, <3>6, <3>9 DEF TokensInv, CacheInv, ShownInv
    <2> QED
      BY <2>2, <2>3
  <1>9. CASE Store(k)
    <2> DEFINE r == request[k]
               entry == [id |-> r.id, data |-> r.data]
               data == IF Known(k) THEN SemanticTokenEdits(cache.data, r.data) ELSE r.data
               state == [pc |-> "reply", base |-> r.base, id |-> r.id, delta |-> Known(k), data |-> data]
    <2>1. /\ issued' = issued /\ shown' = shown /\ nextId' = nextId
          /\ At(k, "store") /\ cache' = entry /\ request' = [request EXCEPT ![k] = state]
      BY <1>9 DEF Store, Goto, rest
    <2>2. r.id \in 0 .. Len(issued) - 1 /\ r.data = issued[r.id + 1] /\ (r.base = None \/ Given(r.base, issued))
      BY <1>3, <2>1 DEF Consistent, At
    <2>3. issued \in Seq(Seq(Code)) /\ Len(issued) \in Nat
      BY <1>1 DEF IssuedInv
    <2>4. (IF Known(k) THEN Apply(r.base.data, data) ELSE data) = issued[r.id + 1]
      <3>1. CASE ~Known(k)
        BY <2>2, <3>1
      <3>2. CASE Known(k)
        <4>1. r.base # None /\ cache # None /\ cache.id = r.base.id
          BY <3>2 DEF Known
        <4>2. Given(r.base, issued) /\ Given(cache, issued)
          BY <1>1, <2>2, <4>1 DEF CacheInv
        <4>3. cache.data = r.base.data /\ cache.data \in Seq(Code) /\ r.data \in Seq(Code)
          <5>1. r.id + 1 \in 1 .. Len(issued) /\ cache.id + 1 \in 1 .. Len(issued)
            <6>1. \A n \in 0 .. Len(issued) - 1 : n + 1 \in 1 .. Len(issued)
              BY <2>3
            <6>2. cache.id \in 0 .. Len(issued) - 1
              BY <4>2 DEF Given
            <6> HIDE DEF r
            <6> QED
              BY <2>2, <6>1, <6>2
          <5> QED
            BY <2>2, <2>3, <4>1, <4>2, <5>1, ElementOfSeq DEF Given
        <4>4. Apply(cache.data, SemanticTokenEdits(cache.data, r.data)) = r.data
          BY <4>3, DeltaApplies
        <4> QED
          BY <2>2, <3>2, <4>3, <4>4
      <3> QED
        BY <3>1, <3>2
    <2> HIDE DEF data
    <2>5. Consistent(state, issued)
      <3>1. /\ state.pc = "reply" /\ state.base = r.base /\ state.id = r.id
            /\ state.delta = Known(k) /\ state.data = data
        OBVIOUS
      <3> HIDE DEF state, r
      <3> QED
        BY <2>2, <2>4, <3>1 DEF Consistent
    <2> HIDE DEF state
    <2>6. RequestInv'
      BY <1>1, <2>1, <2>5, OneRequest
    <2>7. CacheInv'
      BY <2>1, <2>2 DEF CacheInv, Given
    <2> QED
      BY <1>1, <1>2, <2>1, <2>6, <2>7 DEF TokensInv, IssuedInv, ShownInv
  <1>10. CASE Reply(k)
    <2> DEFINE r == request[k]
               data == IF r.delta THEN Apply(r.base.data, r.data) ELSE r.data
    <2>1. /\ issued' = issued /\ cache' = cache /\ nextId' = nextId
          /\ At(k, "reply") /\ request' = [request EXCEPT ![k] = Idle]
          /\ shown' = shown \/ shown' = [id |-> r.id, data |-> data]
      BY <1>10 DEF Reply, Finish, Goto
    <2>2. r.id \in 0 .. Len(issued) - 1 /\ data = issued[r.id + 1]
      BY <1>3, <2>1 DEF Consistent, At
    <2>3. RequestInv'
      BY <1>1, <1>4, <2>1, OneRequest
    <2>4. ShownInv'
      <3>1. CASE shown' = shown
        BY <1>1, <2>1, <3>1 DEF ShownInv
      <3>2. CASE shown' = [id |-> r.id, data |-> data]
        <4> HIDE DEF data
        <4> QED
          BY <2>1, <2>2, <3>2 DEF ShownInv, Given
      <3> QED
        BY <2>1, <3>1, <3>2
    <2> QED
      BY <1>1, <1>2, <2>1, <2>3, <2>4 DEF TokensInv, IssuedInv, CacheInv
  <1> QED
    BY <1>5, <1>6, <1>7, <1>8, <1>9, <1>10 DEF Work

\* Edits, publishes and closes give no result ids.
LEMMA OtherStep ==
  ASSUME TokensInv,
         \/ \E t \in Texts : Edit(t) \/ Reopen(t)
         \/ \E w \in Worlds : PublishOther(w)
         \/ WriterPublish \/ WriterRemove \/ Close \/ CloseForget
  PROVE  TokensInv'
  <1>1. TextInv /\ IssuedInv /\ RequestInv /\ CacheInv /\ ShownInv
    BY DEF TokensInv
  <1>2. /\ issued' = issued /\ nextId' = nextId /\ request' = request
        /\ cache' \in {cache, None} /\ shown' \in {shown, None}
    BY DEF Edit, Reopen, PublishOther, WriterPublish, WriterRemove, Close, CloseForget, rest
  <1>3. TextInv'
    BY <1>1 DEF TextInv, Edit, Reopen, PublishOther, WriterPublish, WriterRemove, Close, CloseForget, rest
  <1> QED
    BY <1>1, <1>2, <1>3 DEF TokensInv, IssuedInv, RequestInv, CacheInv, ShownInv, Collected

LEMMA AskStep ==
  ASSUME TokensInv, AskAny
  PROVE  TokensInv'
  <1>1. TextInv /\ IssuedInv /\ RequestInv /\ CacheInv /\ ShownInv
    BY DEF TokensInv
  <1>2. PICK k \in Requests, base \in {None, shown} : Ask(k, base)
    BY DEF AskAny
  <1> DEFINE state == [pc |-> "snapshot", base |-> base]
  <1>3. /\ request' = [request EXCEPT ![k] = state]
        /\ issued' = issued /\ nextId' = nextId /\ cache' = cache /\ shown' = shown
        /\ doc' = doc /\ world' = world /\ pending' = pending
    BY <1>2 DEF Ask
  <1>4. Consistent(state, issued)
    BY <1>1 DEF Consistent, ShownInv
  <1> HIDE DEF state
  <1>5. RequestInv'
    BY <1>1, <1>3, <1>4, OneRequest
  <1> QED
    BY <1>1, <1>3, <1>5 DEF TokensInv, TextInv, IssuedInv, CacheInv, ShownInv

LEMMA TokensStep ==
  ASSUME TokensInv, [TokenNext]_tokenVars
  PROVE  TokensInv'
  <1>1. CASE \E k \in Requests : Work(k)
    BY <1>1, WorkStep
  <1>2. CASE AskAny
    BY <1>2, AskStep
  <1>3. CASE UNCHANGED tokenVars
    BY <1>3 DEF tokenVars, TokensInv, TextInv, IssuedInv, RequestInv, CacheInv, ShownInv, Collected
  <1> QED
    BY <1>1, <1>2, <1>3, OtherStep DEF TokenNext

\* Whatever the texts and their tokens are, and however requests overlap, fail
\* or outlive a close, what the client shows under a result id are the tokens
\* that id was given for, and they decode to what a walk collected
\* (_semantic_tokens_full_delta, semantic_token_edits, encode): a delta is
\* made from the data its base id was given for, because an entry is replaced
\* under the lock under which it is compared.
THEOREM DeltasAlwaysFit == TokenSpec => []DeltaFits
  <1>1. TokenInit => TokensInv
    BY TokensInitially
  <1>2. TokensInv /\ [TokenNext]_tokenVars => TokensInv'
    BY TokensStep
  <1>3. TokensInv => DeltaFits
    <2> SUFFICES ASSUME TokensInv, shown # None
                 PROVE  /\ shown.data = issued[shown.id + 1]
                        /\ \E t \in Texts, w \in Worlds : Decode(shown.data) = Raw[t][w]
      BY DEF DeltaFits
    <2>1. Given(shown, issued) /\ IssuedInv
      BY DEF TokensInv, ShownInv
    <2>2. shown.id + 1 \in 1 .. Len(issued) /\ shown.data = issued[shown.id + 1]
      BY <2>1 DEF Given, IssuedInv
    <2>3. Collected(shown.data)
      BY <2>1, <2>2 DEF IssuedInv
    <2> QED
      BY <2>2, <2>3, CollectedCodes
  <1> QED
    BY <1>1, <1>2, <1>3, PTL DEF TokenSpec
=============================================================================
