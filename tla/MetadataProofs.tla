--------------------------- MODULE MetadataProofs ---------------------------
(***************************************************************************)
(* The properties of Metadata.tla, for any bytes that are found and any    *)
(* values a caller makes.  What each kind of chunk is made of comes first: *)
(* characters as UTF-8, text in so many bytes, sub-chunks one behind the   *)
(* other, records of numbers, fields of fixed widths; of each, that what   *)
(* is encoded is decoded again, and that what is decoded is well-formed.   *)
(* The loops of the decoders are recursive functions; that they are what   *)
(* their equations say is shown by induction over a set of numbers, and    *)
(* with it that a loop reads the sub-chunks that were written.             *)
(***************************************************************************)
EXTENDS Metadata, SequenceTheorems, WellFoundedInduction, TLAPS

(* Induction and recursion.                                              *)

\* A set of numbers has a least one.
LEMMA Least ==
    ASSUME NEW T, T \subseteq Nat, T # {}
    PROVE  \E x \in T : \A y \in T : x <= y
<1>1. PICK R : R = OpToRel(<, Nat)
  OBVIOUS
<1>2. IsWellFoundedOn(R, Nat)
  BY <1>1, NatLessThanWellFounded
<1>3. \E x \in T : \A y \in T : ~(<<y, x>> \in R)
  BY <1>2, WFMin
<1>4. \A x, y \in Nat : <<y, x>> \in R <=> y < x
  BY <1>1 DEF OpToRel
<1>5. PICK x \in T : \A y \in T : ~(<<y, x>> \in R)
  BY <1>3
<1>6. \A y \in T : ~(y < x)
  BY <1>4, <1>5
<1> QED
  BY <1>6

\* Induction up to n, over a set.
LEMMA Induct ==
    ASSUME NEW n \in Nat, NEW S, 0 \in S, \A i \in 0 .. n - 1 : i \in S => i + 1 \in S
    PROVE  \A i \in 0 .. n : i \in S
<1>1. PICK T : T = (0 .. n) \ S
  OBVIOUS
<1>2. SUFFICES ASSUME T # {} PROVE FALSE
  BY <1>1
<1>3. T \subseteq Nat
  BY <1>1
<1>4. PICK x \in T : \A y \in T : x <= y
  BY <1>2, <1>3, Least
<1>5. x # 0 /\ x - 1 \in 0 .. n - 1
  BY <1>1
<1>6. x - 1 \in S
  BY <1>1, <1>4, <1>5
<1> QED
  BY <1>1, <1>5, <1>6

\* A function on 1 .. n is a sequence.
LEMMA FunctionToSeq ==
    ASSUME NEW E, NEW n \in Nat, NEW f \in [1 .. n -> E]
    PROVE  f \in Seq(E) /\ Len(f) = n /\ DOMAIN f = 1 .. n
OBVIOUS

\* A function on D that calls itself at a place of lower rank, or stops.
Recursive(D, X, N, rank, stop, base, next, step) ==
    /\ N \in Nat /\ rank \in [D -> 0 .. N]
    /\ base \in [D -> X] /\ next \in [D -> D] /\ step \in [D -> [X -> X]]
    /\ \A d \in D : d \notin stop => rank[next[d]] < rank[d]

\* It exists.
LEMMA Recursion ==
    ASSUME NEW D, NEW X, NEW N, NEW rank, NEW stop, NEW base, NEW next, NEW step,
           Recursive(D, X, N, rank, stop, base, next, step)
    PROVE  \E f \in [D -> X] :
              \A d \in D : f[d] = (IF d \in stop THEN base[d] ELSE step[d][f[next[d]]])
<1> DEFINE Value(f, d) == IF d \in stop THEN base[d] ELSE step[d][f[next[d]]]
           Right(n) == \E f \in [D -> X] : \A d \in D : rank[d] < n => f[d] = Value(f, d)
<1>0. /\ N \in Nat /\ rank \in [D -> 0 .. N]
      /\ base \in [D -> X] /\ next \in [D -> D] /\ step \in [D -> [X -> X]]
      /\ \A d \in D : d \notin stop => rank[next[d]] < rank[d]
  BY DEF Recursive
<1>1. Right(0)
  <2>1. \A d \in D : ~(rank[d] < 0)
    BY <1>0
  <2> QED
    BY <1>0, <2>1
<1>2. ASSUME NEW n \in 0 .. N, Right(n) PROVE Right(n + 1)
  <2>1. PICK f \in [D -> X] : \A d \in D : rank[d] < n => f[d] = Value(f, d)
    BY <1>2
  <2>2. PICK g : g = [d \in D |-> Value(f, d)]
    OBVIOUS
  <2>3. g \in [D -> X]
    BY <1>0, <2>1, <2>2
  <2>4. ASSUME NEW d \in D, rank[d] < n + 1 PROVE g[d] = Value(g, d)
    <3>1. CASE d \in stop
      BY <2>2, <3>1
    <3>2. CASE d \notin stop
      <4>1. rank[next[d]] < n /\ next[d] \in D
        BY <1>0, <2>4, <3>2
      <4>2. f[next[d]] = g[next[d]]
        BY <1>0, <2>1, <2>2, <4>1
      <4> QED
        BY <2>2, <4>2
    <3> QED
      BY <3>1, <3>2
  <2> QED
    BY <2>3, <2>4
<1>3. Right(N + 1)
  <2>1. PICK S : S = {n \in 0 .. N + 1 : Right(n)}
    OBVIOUS
  <2>0. PICK M \in Nat : M = N + 1
    BY <1>0
  <2> HIDE DEF Right
  <2>2. 0 \in S
    BY <1>0, <1>1, <2>1
  <2>3. \A i \in 0 .. M - 1 : i \in S => i + 1 \in S
    BY <1>0, <1>2, <2>0, <2>1
  <2>4. \A i \in 0 .. M : i \in S
    BY <2>2, <2>3, Induct
  <2> QED
    BY <2>0, <2>1, <2>4
<1>4. PICK f \in [D -> X] : \A d \in D : rank[d] < N + 1 => f[d] = Value(f, d)
  BY <1>3
<1>5. \A d \in D : rank[d] < N + 1
  BY <1>0
<1> QED
  BY <1>4, <1>5

-----------------------------------------------------------------------------
(* Sequences of bytes.                                                   *)

\* FlattenSeq is a function of the parts put together so far.
LEMMA FlattenIs ==
    ASSUME NEW E, NEW parts \in Seq(Seq(E))
    PROVE  \E g \in [0 .. Len(parts) -> Seq(E)] :
              /\ g[0] = << >>
              /\ \A i \in 1 .. Len(parts) : g[i] = g[i - 1] \o parts[i]
              /\ FlattenSeq(parts) = g[Len(parts)]
<1> PICK n \in Nat : n = Len(parts)
  OBVIOUS
<1> DEFINE F(f) == [i \in 1 .. n |-> IF i = 1 THEN parts[i] ELSE f[i - 1] \o parts[i]]
<1>1. CASE n = 0
  <2>1. parts = << >>
    <3>1. PICK Y : Y = Seq(E)
      OBVIOUS
    <3>2. parts \in Seq(Y) /\ ~(Len(parts) \in Nat \ {0})
      BY <1>1, <3>1
    <3> QED
      BY <3>2, EmptySeq
  <2>3. FlattenSeq(parts) = << >>
    BY <1>1, <2>1 DEF FlattenSeq
  <2>2. PICK g : g = [i \in 0 .. Len(parts) |-> << >>]
    OBVIOUS
  <2> QED
    BY <1>1, <2>1, <2>2, <2>3
<1>2. CASE n # 0
  <2>1. FlattenSeq(parts) = (CHOOSE f : f = F(f))[n]
    BY <1>2 DEF FlattenSeq
  <2>2. \A i \in 1 .. n : parts[i] \in Seq(E)
    OBVIOUS
  <2>3. PICK D, X, stop : D = 1 .. n /\ X = Seq(E) /\ stop = {1}
    OBVIOUS
  <2>4. PICK rank, next, step : /\ rank = [i \in D |-> i]
                                /\ next = [i \in D |-> IF i = 1 THEN 1 ELSE i - 1]
                                /\ step = [i \in D |-> [x \in X |-> x \o parts[i]]]
    OBVIOUS
  <2>5. rank \in [D -> 0 .. n] /\ next \in [D -> D] /\ parts \in [D -> X]
    BY <2>2, <2>3, <2>4
  <2>6. step \in [D -> [X -> X]]
    <3>1. \A i \in D, x \in X : x \o parts[i] \in X
      BY <2>2, <2>3
    <3> QED
      BY <2>4, <3>1
  <2>61. \A i \in D : i \notin stop => rank[next[i]] < rank[i]
    BY <2>3, <2>4
  <2>7. PICK f \in [D -> X] :
            \A i \in D : f[i] = (IF i \in stop THEN parts[i] ELSE step[i][f[next[i]]])
    <3>1. Recursive(D, X, n, rank, stop, parts, next, step)
      BY <2>5, <2>6, <2>61 DEF Recursive
    <3> QED
      BY <3>1, Recursion
  <2>8. ASSUME NEW i \in 1 .. n PROVE f[i] = (IF i = 1 THEN parts[i] ELSE f[i - 1] \o parts[i])
    <3>1. CASE i = 1
      BY <2>3, <2>7, <3>1
    <3>2. CASE i # 1
      <4>1. i \in D /\ next[i] = i - 1 /\ i - 1 \in D /\ i \notin stop
        BY <2>3, <2>4, <3>2
      <4>2. f[i] = step[i][f[i - 1]] /\ f[i - 1] \in X
        BY <2>7, <4>1
      <4> QED
        BY <2>4, <3>2, <4>1, <4>2
    <3> QED
      BY <3>1, <3>2
  <2>9. f = F(f)
    BY <2>3, <2>7, <2>8
  <2>10. PICK g : g = CHOOSE h : h = F(h)
    OBVIOUS
  <2>101. g = F(g)
    <3> HIDE DEF F
    <3> QED
      BY <2>9, <2>10
  <2>11. \A i \in 1 .. n : g[i] \in Seq(E) /\ g[i] = (IF i = 1 THEN parts[i] ELSE g[i - 1] \o parts[i])
    <3>1. \A i \in 1 .. n : g[i] = (IF i = 1 THEN parts[i] ELSE g[i - 1] \o parts[i])
      BY <2>101
    <3>2. PICK S : S = {k \in 0 .. n : k # 0 => g[k] \in Seq(E)}
      OBVIOUS
    <3>3. 0 \in S
      BY <3>2
    <3>4. ASSUME NEW k \in 0 .. n - 1, k \in S PROVE k + 1 \in S
      <4>1. CASE k = 0
        <5>1. 1 \in 1 .. n /\ k + 1 = 1
          BY <1>2, <4>1
        <5>2. g[1] = parts[1] /\ parts[1] \in Seq(E)
          BY <3>1, <5>1, <2>2
        <5> QED
          BY <3>2, <5>1, <5>2
      <4>2. CASE k # 0
        <5>1. g[k] \in Seq(E) /\ parts[k + 1] \in Seq(E)
          BY <3>2, <3>4, <4>2, <2>2
        <5>4. k + 1 \in 1 .. n /\ k + 1 # 1 /\ (k + 1) - 1 = k
          BY <4>2
        <5>2. g[k + 1] = g[k] \o parts[k + 1]
          BY <3>1, <5>4
        <5>3. g[k + 1] \in Seq(E)
          BY <5>1, <5>2
        <5> QED
          BY <3>2, <5>3
      <4> QED
        BY <4>1, <4>2
    <3>5. \A k \in 0 .. n : k \in S
      BY <3>3, <3>4, Induct
    <3>6. \A i \in 1 .. n : i \in S /\ i # 0
      BY <3>5
    <3> QED
      BY <3>1, <3>2, <3>6
  <2>12. PICK h : h = [i \in 0 .. n |-> IF i = 0 THEN << >> ELSE g[i]]
    OBVIOUS
  <2>13. h \in [0 .. n -> Seq(E)] /\ h[0] = << >>
    <3>1. \A i \in 0 .. n : h[i] \in Seq(E)
      BY <2>11, <2>12
    <3> QED
      BY <2>12, <3>1
  <2>15. FlattenSeq(parts) = h[n]
    BY <1>2, <2>1, <2>10, <2>12
  <2>14. ASSUME NEW i \in 1 .. n PROVE h[i] = h[i - 1] \o parts[i]
    <3>1. CASE i = 1
      <4>1. h[1] = parts[1] /\ h[0] = << >> /\ parts[1] \in Seq(E)
        BY <3>1, <2>11, <2>12, <2>2
      <4>3. PICK p \in Seq(E) : p = parts[1]
        BY <4>1
      <4>2. << >> \o p = p
        BY ConcatEmptySeq
      <4>4. << >> \o parts[1] = parts[1]
        BY <4>2, <4>3
      <4>5. h[i] = parts[1] /\ h[i - 1] = << >>
        BY <3>1, <4>1
      <4> QED
        BY <3>1, <4>4, <4>5
    <3>2. CASE i # 1
      <4>1. h[i] = g[i] /\ h[i - 1] = g[i - 1]
        BY <3>2, <2>12
      <4>2. g[i] = g[i - 1] \o parts[i]
        BY <3>2, <2>11
      <4> QED
        BY <4>1, <4>2
    <3> QED
      BY <3>1, <3>2
  <2> QED
    BY <2>13, <2>14, <2>15
<1> QED
  BY <1>1, <1>2

\* The first k parts put together.
Upto(parts, k) == FlattenSeq(SubSeq(parts, 1, k))

\* What x is to b when it is found behind its first at elements.
Has(b, at, x) ==
    at \in Nat /\ at + Len(x) <= Len(b) /\ \A i \in 1 .. Len(x) : b[at + i] = x[i]

\* A concatenation has its two sides.
LEMMA HasSides ==
    ASSUME NEW E, NEW x \in Seq(E), NEW y \in Seq(E)
    PROVE  /\ x \o y \in Seq(E) /\ Len(x \o y) = Len(x) + Len(y)
           /\ Has(x \o y, 0, x) /\ Has(x \o y, Len(x), y)
<1>1. /\ x \o y \in Seq(E) /\ Len(x \o y) = Len(x) + Len(y)
      /\ \A i \in 1 .. Len(x) + Len(y) : (x \o y)[i] = IF i <= Len(x) THEN x[i] ELSE y[i - Len(x)]
  BY ConcatProperties
<1>2. Len(x) \in Nat /\ Len(y) \in Nat
  OBVIOUS
<1>3. Has(x \o y, 0, x)
  BY <1>1, <1>2 DEF Has
<1>4. \A i \in 1 .. Len(y) : (x \o y)[Len(x) + i] = y[i]
  <2> TAKE i \in 1 .. Len(y)
  <2>1. PICK k \in 1 .. Len(x) + Len(y) : k = Len(x) + i
    BY <1>2
  <2>2. (x \o y)[k] = y[k - Len(x)] /\ k - Len(x) = i
    BY <1>1, <1>2, <2>1
  <2> QED
    BY <2>1, <2>2
<1>5. Has(x \o y, Len(x), y)
  BY <1>1, <1>2, <1>4 DEF Has
<1> QED
  BY <1>1, <1>3, <1>5

\* What a part has, the whole has.
LEMMA HasWithin ==
    ASSUME NEW b, Len(b) \in Nat, NEW x, Len(x) \in Nat, NEW y, Len(y) \in Nat,
           NEW at, NEW k, Has(b, at, x), Has(x, k, y)
    PROVE  Has(b, at + k, y)
<1>1. at \in Nat /\ k \in Nat
  BY DEF Has
<1>2. \A i \in 1 .. Len(y) : b[(at + k) + i] = y[i]
  <2> TAKE i \in 1 .. Len(y)
  <2>1. PICK j \in 1 .. Len(x) : j = k + i
    BY <1>1 DEF Has
  <2>2. x[j] = y[i] /\ b[at + j] = x[j]
    BY <2>1 DEF Has
  <2>3. at + j = (at + k) + i
    BY <1>1, <2>1
  <2> QED
    BY <2>2, <2>3
<1>3. (at + k) + Len(y) <= Len(b)
  BY <1>1 DEF Has
<1> QED
  BY <1>1, <1>2, <1>3 DEF Has

\* It can be cut out.
LEMMA HasBytes ==
    ASSUME NEW E, NEW b \in Seq(E), NEW x \in Seq(E), NEW at, Has(b, at, x)
    PROVE  Bytes(b, at, Len(x)) = x
<1>1. at \in Nat /\ Len(x) \in Nat /\ at + Len(x) <= Len(b) /\ \A i \in 1 .. Len(x) : b[at + i] = x[i]
  BY DEF Has
<1>2. PICK m, n : m = at + 1 /\ n = at + Len(x) /\ m \in Int /\ n \in Int
  BY <1>1
<1>3. PICK y : y = SubSeq(b, m, n)
  OBVIOUS
<1>4. \A i \in m .. n : b[i] \in E
  BY <1>1, <1>2
<1>5. /\ y \in Seq(E)
      /\ Len(y) = IF m <= n THEN n - m + 1 ELSE 0
      /\ \A i \in 1 .. n - m + 1 : y[i] = b[m + i - 1]
  BY <1>2, <1>3, <1>4, SubSeqProperties
<1>6. Len(y) = Len(x)
  BY <1>1, <1>2, <1>5
<1>7. ASSUME NEW i \in 1 .. Len(x) PROVE y[i] = x[i]
  <2>1. i \in 1 .. n - m + 1 /\ m + i - 1 = at + i
    BY <1>1, <1>2
  <2> QED
    BY <1>1, <1>5, <2>1
<1>8. y = x
  BY <1>5, <1>6, <1>7, SeqEqual
<1> QED
  BY <1>2, <1>3, <1>8 DEF Bytes

\* What is behind the left side is the right one.
LEMMA RestOfConcat ==
    ASSUME NEW E, NEW x \in Seq(E), NEW y \in Seq(E)
    PROVE  Rest(x \o y, Len(x)) = y
<1>1. Has(x \o y, Len(x), y) /\ x \o y \in Seq(E) /\ Len(x \o y) = Len(x) + Len(y)
  BY HasSides
<1>2. Bytes(x \o y, Len(x), Len(y)) = y
  BY <1>1, HasBytes
<1> QED
  BY <1>1, <1>2 DEF Bytes, Rest

\* The prefixes of a flattened sequence, and the parts in it.
LEMMA Flattened ==
    ASSUME NEW E, NEW parts \in Seq(Seq(E))
    PROVE  /\ FlattenSeq(parts) \in Seq(E)
           /\ \A k \in 0 .. Len(parts) : Upto(parts, k) \in Seq(E)
           /\ Upto(parts, 0) = << >>
           /\ Upto(parts, Len(parts)) = FlattenSeq(parts)
           /\ \A k \in 1 .. Len(parts) : /\ Upto(parts, k) = Upto(parts, k - 1) \o parts[k]
                                         /\ parts[k] \in Seq(E)
                                         /\ Len(Upto(parts, k)) = Len(Upto(parts, k - 1)) + Len(parts[k])
<1>1. PICK n \in Nat : n = Len(parts)
  OBVIOUS
<1>2. PICK X : X = Seq(E)
  OBVIOUS
<1>3. parts \in Seq(X)
  BY <1>2
<1>4. \A k \in 0 .. n : /\ SubSeq(parts, 1, k) \in Seq(X) /\ Len(SubSeq(parts, 1, k)) = k
                        /\ \A i \in 1 .. k : SubSeq(parts, 1, k)[i] = parts[i]
  BY <1>1, <1>3
<1>5. PICK g \in [0 .. n -> X] :
              /\ g[0] = << >>
              /\ \A i \in 1 .. n : g[i] = g[i - 1] \o parts[i]
              /\ FlattenSeq(parts) = g[n]
  BY <1>1, <1>2, FlattenIs
<1>6. ASSUME NEW k \in 0 .. n PROVE Upto(parts, k) = g[k]
  <2>1. PICK p \in Seq(X) : p = SubSeq(parts, 1, k)
    BY <1>4
  <2>2. Len(p) = k /\ \A i \in 1 .. k : p[i] = parts[i]
    BY <1>4, <2>1
  <2>21. p \in Seq(Seq(E)) /\ k \in Nat
    BY <1>2, <2>1
  <2>22. PICK h \in [0 .. Len(p) -> Seq(E)] :
              /\ h[0] = << >>
              /\ \A i \in 1 .. Len(p) : h[i] = h[i - 1] \o p[i]
              /\ FlattenSeq(p) = h[Len(p)]
    BY <2>21, FlattenIs
  <2>3. /\ h[0] = << >>
        /\ \A i \in 1 .. k : h[i] = h[i - 1] \o p[i]
        /\ FlattenSeq(p) = h[k]
    BY <2>2, <2>22
  <2>4. PICK S : S = {i \in 0 .. k : h[i] = g[i]}
    OBVIOUS
  <2>5. 0 \in S
    BY <1>5, <2>3, <2>4
  <2>6. ASSUME NEW i \in 0 .. k - 1, i \in S PROVE i + 1 \in S
    <3>1. i + 1 \in 1 .. k /\ i + 1 \in 1 .. n /\ (i + 1) - 1 = i /\ i + 1 \in 0 .. k
      OBVIOUS
    <3>2. h[i + 1] = h[i] \o p[i + 1]
      BY <2>3, <3>1
    <3>3. g[i + 1] = g[i] \o parts[i + 1]
      BY <1>5, <3>1
    <3>4. h[i] = g[i] /\ p[i + 1] = parts[i + 1]
      BY <2>2, <2>4, <2>6, <3>1
    <3> QED
      BY <2>4, <3>1, <3>2, <3>3, <3>4
  <2>61. \A i \in 0 .. k : i \in S
    BY <2>21, <2>5, <2>6, Induct
  <2>7. k \in S
    BY <2>21, <2>61
  <2> QED
    BY <2>1, <2>3, <2>4, <2>7 DEF Upto
<1>7. \A k \in 0 .. n : Upto(parts, k) \in Seq(E)
  BY <1>2, <1>5, <1>6
<1>8. \A k \in 1 .. n : /\ Upto(parts, k) = Upto(parts, k - 1) \o parts[k]
                        /\ Upto(parts, k - 1) \in Seq(E) /\ parts[k] \in Seq(E)
  <2> TAKE k \in 1 .. n
  <2>1. k - 1 \in 0 .. n /\ k \in 0 .. n
    OBVIOUS
  <2>2. parts[k] \in Seq(E)
    BY <1>1, <1>2, <1>3
  <2> QED
    BY <1>1, <1>3, <1>5, <1>6, <1>7, <2>1, <2>2
<1>9. \A k \in 1 .. n : Len(Upto(parts, k)) = Len(Upto(parts, k - 1)) + Len(parts[k])
  <2> TAKE k \in 1 .. n
  <2>1. PICK x \in Seq(E), y \in Seq(E) : x = Upto(parts, k - 1) /\ y = parts[k]
    BY <1>8
  <2>2. Len(x \o y) = Len(x) + Len(y)
    BY ConcatProperties
  <2> QED
    BY <1>8, <2>1, <2>2
<1>10. FlattenSeq(parts) \in Seq(E) /\ Upto(parts, 0) = << >> /\ Upto(parts, n) = FlattenSeq(parts)
  BY <1>1, <1>2, <1>5, <1>6
<1> QED
  BY <1>1, <1>7, <1>8, <1>9, <1>10

\* The parts of a flattened sequence are in it, one behind the other.
LEMMA HasPart ==
    ASSUME NEW E, NEW parts \in Seq(Seq(E))
    PROVE  /\ \A k \in 0 .. Len(parts) : Has(FlattenSeq(parts), 0, Upto(parts, k))
           /\ \A k \in 1 .. Len(parts) :
                    Has(FlattenSeq(parts), Len(Upto(parts, k - 1)), parts[k])
<1>1. PICK n \in Nat : n = Len(parts)
  OBVIOUS
<1>2. PICK b \in Seq(E) : b = FlattenSeq(parts) /\ b = Upto(parts, n)
  BY <1>1, Flattened
<1>3. \A k \in 0 .. n : Upto(parts, k) \in Seq(E) /\ Len(Upto(parts, k)) \in Nat
  <2>1. \A k \in 0 .. n : Upto(parts, k) \in Seq(E)
    BY <1>1, Flattened
  <2> QED
    BY <2>1
<1>4. PICK S : S = {i \in 0 .. n : Has(b, 0, Upto(parts, n - i))}
  OBVIOUS
<1>5. 0 \in S
  <2>1. Has(b, 0, b)
    BY DEF Has
  <2>2. n - 0 = n
    OBVIOUS
  <2> QED
    BY <1>2, <1>4, <2>1, <2>2
<1>6. \A k \in 1 .. n : /\ Has(Upto(parts, k), 0, Upto(parts, k - 1))
                         /\ Has(Upto(parts, k), Len(Upto(parts, k - 1)), parts[k])
                         /\ parts[k] \in Seq(E)
  <2> TAKE k \in 1 .. n
  <2>1. Upto(parts, k) = Upto(parts, k - 1) \o parts[k] /\ parts[k] \in Seq(E)
    BY <1>1, Flattened
  <2>2. PICK x \in Seq(E), y \in Seq(E) : x = Upto(parts, k - 1) /\ y = parts[k]
    BY <1>3, <2>1
  <2>3. Has(x \o y, 0, x) /\ Has(x \o y, Len(x), y)
    BY HasSides
  <2> QED
    BY <2>1, <2>2, <2>3
<1>7. ASSUME NEW i \in 0 .. n - 1, i \in S PROVE i + 1 \in S
  <2>1. PICK k \in 1 .. n : k = n - i
    OBVIOUS
  <2>2. Has(b, 0, Upto(parts, k))
    BY <1>4, <1>7, <2>1
  <2>3. Has(Upto(parts, k), 0, Upto(parts, k - 1))
    BY <1>6
  <2>4. Len(b) \in Nat /\ Len(Upto(parts, k)) \in Nat /\ Len(Upto(parts, k - 1)) \in Nat
    BY <1>3
  <2>5. Has(b, 0 + 0, Upto(parts, k - 1))
    BY <2>2, <2>3, <2>4, HasWithin
  <2>6. k - 1 = n - (i + 1) /\ 0 + 0 = 0 /\ i + 1 \in 0 .. n
    BY <2>1
  <2> QED
    BY <1>4, <2>5, <2>6
<1>8. \A i \in 0 .. n : i \in S
  BY <1>5, <1>7, Induct
<1>9. ASSUME NEW k \in 0 .. n PROVE Has(b, 0, Upto(parts, k))
  <2>1. PICK i \in 0 .. n : i = n - k /\ k = n - i
    OBVIOUS
  <2> QED
    BY <1>4, <1>8, <2>1
<1>10. ASSUME NEW k \in 1 .. n PROVE Has(b, Len(Upto(parts, k - 1)), parts[k])
  <2>1. Has(b, 0, Upto(parts, k))
    BY <1>9
  <2>2. Has(Upto(parts, k), Len(Upto(parts, k - 1)), parts[k]) /\ parts[k] \in Seq(E)
    BY <1>6
  <2>3. Len(b) \in Nat /\ Len(Upto(parts, k)) \in Nat /\ Len(parts[k]) \in Nat
    BY <1>3, <2>2
  <2>4. Has(b, 0 + Len(Upto(parts, k - 1)), parts[k])
    BY <2>1, <2>2, <2>3, HasWithin
  <2>5. 0 + Len(Upto(parts, k - 1)) = Len(Upto(parts, k - 1))
    BY <1>3
  <2> QED
    BY <2>4, <2>5
<1> QED
  BY <1>1, <1>2, <1>9, <1>10

\* Parts of one length are found at its multiples.
LEMMA UniformParts ==
    ASSUME NEW E, NEW parts \in Seq(Seq(E)), NEW w \in Nat,
           \A k \in 1 .. Len(parts) : Len(parts[k]) = w
    PROVE  \A k \in 0 .. Len(parts) : Len(Upto(parts, k)) = w * k
<1>1. PICK n \in Nat : n = Len(parts)
  OBVIOUS
<1>2. PICK S : S = {k \in 0 .. n : Len(Upto(parts, k)) = w * k}
  OBVIOUS
<1>3. 0 \in S
  <2>1. Upto(parts, 0) = << >>
    BY Flattened
  <2>2. Len(Upto(parts, 0)) = 0 /\ w * 0 = 0
    BY <2>1
  <2> QED
    BY <1>2, <2>2
<1>4. ASSUME NEW k \in 0 .. n - 1, k \in S PROVE k + 1 \in S
  <2>1. k + 1 \in 1 .. n /\ (k + 1) - 1 = k /\ k + 1 \in 0 .. n
    OBVIOUS
  <2>2. Len(Upto(parts, k + 1)) = Len(Upto(parts, k)) + Len(parts[k + 1])
    BY <1>1, <2>1, Flattened
  <2>3. Len(parts[k + 1]) = w /\ Len(Upto(parts, k)) = w * k
    BY <1>1, <1>2, <1>4, <2>1
  <2>4. w * (k + 1) = w * k + w
    OBVIOUS
  <2> QED
    BY <1>2, <2>1, <2>2, <2>3, <2>4
<1>5. \A k \in 0 .. n : k \in S
  BY <1>3, <1>4, Induct
<1> QED
  BY <1>1, <1>2, <1>5

\* A part in front of the others.
LEMMA FlattenFront ==
    ASSUME NEW E, NEW x \in Seq(E), NEW parts \in Seq(Seq(E))
    PROVE  /\ <<x>> \o parts \in Seq(Seq(E))
           /\ FlattenSeq(<<x>> \o parts) = x \o FlattenSeq(parts)
<1>1. PICK n \in Nat : n = Len(parts)
  OBVIOUS
<1>2. PICK X : X = Seq(E)
  OBVIOUS
<1>3. PICK all : all = <<x>> \o parts
  OBVIOUS
<1>4. /\ all \in Seq(X) /\ Len(all) = n + 1 /\ all[1] = x
      /\ \A i \in 1 .. n : all[i + 1] = parts[i]
  BY <1>1, <1>2, <1>3
<1>5. all \in Seq(Seq(E))
  BY <1>2, <1>4
<1>6. PICK S : S = {k \in 0 .. n : Upto(all, k + 1) = x \o Upto(parts, k)}
  OBVIOUS
<1>7. 0 \in S
  <2>1. 1 \in 1 .. Len(all) /\ 1 - 1 = 0
    BY <1>4
  <2>2. Upto(all, 1) = Upto(all, 0) \o all[1] /\ Upto(all, 0) = << >>
    BY <1>5, <2>1, Flattened
  <2>3. Upto(parts, 0) = << >>
    BY Flattened
  <2>4. << >> \o x = x /\ x \o << >> = x
    BY ConcatEmptySeq
  <2>5. 0 + 1 = 1
    OBVIOUS
  <2> QED
    BY <1>4, <1>6, <2>2, <2>3, <2>4, <2>5
<1>8. ASSUME NEW k \in 0 .. n - 1, k \in S PROVE k + 1 \in S
  <2>1. k + 1 \in 1 .. n /\ (k + 1) - 1 = k /\ k + 1 \in 0 .. n
        /\ (k + 1) + 1 \in 1 .. n + 1 /\ ((k + 1) + 1) - 1 = k + 1 /\ k \in 0 .. n
    OBVIOUS
  <2>2. Upto(all, (k + 1) + 1) = Upto(all, k + 1) \o all[(k + 1) + 1]
    BY <1>4, <1>5, <2>1, Flattened
  <2>3. Upto(parts, k + 1) = Upto(parts, k) \o parts[k + 1] /\ parts[k + 1] \in Seq(E)
        /\ Upto(parts, k) \in Seq(E)
    BY <1>1, <2>1, Flattened
  <2>4. all[(k + 1) + 1] = parts[k + 1] /\ Upto(all, k + 1) = x \o Upto(parts, k)
    BY <1>4, <1>6, <1>8, <2>1
  <2>5. (x \o Upto(parts, k)) \o parts[k + 1] = x \o (Upto(parts, k) \o parts[k + 1])
    <3>1. PICK y \in Seq(E), z \in Seq(E) : y = Upto(parts, k) /\ z = parts[k + 1]
      BY <2>3
    <3>2. (x \o y) \o z = x \o (y \o z)
      BY ConcatAssociative
    <3> QED
      BY <3>1, <3>2
  <2> QED
    BY <1>6, <2>1, <2>2, <2>3, <2>4, <2>5
<1>9. n \in S
  <2>1. \A k \in 0 .. n : k \in S
    BY <1>7, <1>8, Induct
  <2> QED
    BY <2>1
<1>10. Upto(all, Len(all)) = FlattenSeq(all) /\ Upto(parts, n) = FlattenSeq(parts)
  BY <1>1, <1>5, Flattened
<1> QED
  BY <1>3, <1>4, <1>5, <1>6, <1>9, <1>10

\* The elements that are kept are elements at the places to keep.
LEMMA KeptFrom ==
    ASSUME NEW E, NEW s \in Seq(E), NEW S
    PROVE  /\ Kept(s, S) \in Seq(E)
           /\ \A j \in DOMAIN Kept(s, S) : \E i \in DOMAIN s : i \in S /\ Kept(s, S)[j] = s[i]
<1>1. PICK n \in Nat : n = Len(s) /\ DOMAIN s = 1 .. n
  OBVIOUS
<1>2. PICK F : F = {s[i] : i \in S \cap DOMAIN s}
  OBVIOUS
<1>3. PICK parts : parts = [i \in DOMAIN s |-> IF i \in S THEN <<s[i]>> ELSE << >>]
  OBVIOUS
<1>4. PICK X : X = Seq(F)
  OBVIOUS
<1>5. \A i \in 1 .. n : parts[i] \in X
  <2> TAKE i \in 1 .. n
  <2>1. CASE i \in S
    <3>1. s[i] \in F
      BY <1>1, <1>2, <2>1
    <3>2. <<s[i]>> \in Seq(F)
      BY <3>1
    <3> QED
      BY <1>1, <1>3, <1>4, <2>1, <3>2
  <2>2. CASE i \notin S
    <3>1. << >> \in Seq(F)
      BY EmptySeq
    <3> QED
      BY <1>1, <1>3, <1>4, <2>2, <3>1
  <2> QED
    BY <2>1, <2>2
<1>6. parts \in [1 .. n -> X]
  BY <1>1, <1>3, <1>5
<1>7. parts \in Seq(X)
  BY <1>6, FunctionToSeq
<1>8. parts \in Seq(Seq(F))
  BY <1>4, <1>7
<1>9. PICK k \in Seq(F) : k = FlattenSeq(parts)
  BY <1>8, Flattened
<1>10. k = Kept(s, S)
  BY <1>3, <1>9 DEF Kept
<1>11. F \subseteq E
  BY <1>1, <1>2
<1>12. k \in Seq(E)
  BY <1>11, SeqMonotonic
<1>13. ASSUME NEW j \in DOMAIN k PROVE \E i \in DOMAIN s : i \in S /\ k[j] = s[i]
  <2>1. k[j] \in F
    OBVIOUS
  <2> QED
    BY <1>2, <2>1
<1> QED
  BY <1>10, <1>12, <1>13

\* Keeping everything changes nothing.
LEMMA KeptAll ==
    ASSUME NEW E, NEW s \in Seq(E)
    PROVE  Kept(s, DOMAIN s) = s
<1>1. PICK n \in Nat : n = Len(s) /\ DOMAIN s = 1 .. n
  OBVIOUS
<1>2. PICK parts : parts = [i \in DOMAIN s |-> IF i \in DOMAIN s THEN <<s[i]>> ELSE << >>]
  OBVIOUS
<1>3. PICK X : X = Seq(E)
  OBVIOUS
<1>4. \A i \in 1 .. n : parts[i] \in X /\ parts[i] = <<s[i]>>
  <2> TAKE i \in 1 .. n
  <2>1. s[i] \in E
    BY <1>1
  <2>2. <<s[i]>> \in Seq(E)
    BY <2>1
  <2> QED
    BY <1>1, <1>2, <1>3, <2>2
<1>5. parts \in [1 .. n -> X]
  BY <1>1, <1>2, <1>4
<1>6. parts \in Seq(X) /\ Len(parts) = n
  BY <1>5, FunctionToSeq
<1>7. parts \in Seq(Seq(E))
  BY <1>3, <1>6
<1>81. \A x : Len(<<x>>) = 1 /\ <<x>>[1] = x
  OBVIOUS
<1>8. \A k \in 1 .. Len(parts) : Len(parts[k]) = 1
  <2> TAKE k \in 1 .. Len(parts)
  <2>1. parts[k] = <<s[k]>>
    BY <1>4, <1>6
  <2> QED
    BY <1>81, <2>1
<1>9. \A k \in 0 .. n : Len(Upto(parts, k)) = 1 * k
  BY <1>6, <1>7, <1>8, UniformParts
<1>10. PICK b \in Seq(E) : b = FlattenSeq(parts) /\ b = Upto(parts, n)
  BY <1>6, <1>7, Flattened
<1>11. Len(b) = n
  BY <1>9, <1>10
<1>12. ASSUME NEW i \in 1 .. n PROVE b[i] = s[i]
  <2>1. Has(b, Len(Upto(parts, i - 1)), parts[i])
    BY <1>6, <1>7, <1>10, HasPart
  <2>2. Len(Upto(parts, i - 1)) = i - 1
    BY <1>9
  <2>3. Len(parts[i]) = 1 /\ parts[i][1] = s[i]
    <3>1. parts[i] = <<s[i]>>
      BY <1>4
    <3> QED
      BY <1>81, <3>1
  <2>4. b[(i - 1) + 1] = parts[i][1]
    BY <2>1, <2>2, <2>3 DEF Has
  <2> QED
    BY <2>3, <2>4
<1>13. b = s
  BY <1>1, <1>11, <1>12, SeqEqual
<1> QED
  BY <1>2, <1>10, <1>13 DEF Kept

-----------------------------------------------------------------------------
(* Characters as UTF-8.                                                  *)

\* What the first byte of a sequence says of its length.
LEMMA LeadByte ==
    ASSUME NEW x \in Nat
    PROVE  /\ x < 128 => SequenceLen(x) = 1
           /\ x \in 192 .. 223 => SequenceLen(x) = 2
           /\ x \in 224 .. 239 => SequenceLen(x) = 3
           /\ x \in 240 .. 247 => SequenceLen(x) = 4
           /\ SequenceLen(x) \in 0 .. 4
           /\ SequenceLen(x) = 1 => x < 128
           /\ SequenceLen(x) = 2 => x \in 192 .. 223
           /\ SequenceLen(x) = 3 => x \in 224 .. 239
           /\ SequenceLen(x) = 4 => x \in 240 .. 247
BY SMT DEF SequenceLen

\* A char is one to four bytes, and none of them is a NUL unless it is one.
LEMMA Utf8Is ==
    ASSUME NEW c, IsChar(c)
    PROVE  /\ Utf8(c) \in Seq(Byte)
           /\ Len(Utf8(c)) = Utf8Len(c) /\ Utf8Len(c) \in 1 .. 4
           /\ \A i \in 1 .. Len(Utf8(c)) : c # 0 => Utf8(c)[i] # 0
           /\ c = 0 => Utf8(c) = <<0>>
<1>1. c \in Nat /\ c <= 1114111
  BY SMT DEF IsChar
<1>2. CASE c < 128
  <2>1. Utf8Len(c) = 1 /\ Utf8(c) = <<c>>
    BY SMT, <1>2 DEF Utf8Len, Utf8
  <2>2. c \in Byte
    BY SMT, <1>1, <1>2 DEF Byte
  <2>3. <<c>> \in Seq(Byte) /\ Len(<<c>>) = 1 /\ <<c>>[1] = c
    BY SMT, <2>2
  <2> QED
    BY SMT, <2>1, <2>3
<1>3. CASE c >= 128 /\ c < 2048
  <2>1. Utf8Len(c) = 2
    BY SMT, <1>1, <1>3 DEF Utf8Len
  <2>2. Utf8(c) = <<192 + c \div 64, Low(c)>>
    BY SMT, <2>1 DEF Utf8
  <2>3. PICK x, y : x = 192 + c \div 64 /\ y = Low(c)
    OBVIOUS
  <2>4. x \in Byte /\ y \in Byte /\ x # 0 /\ y # 0
    BY SMT, <1>1, <1>3, <2>3 DEF Low, Byte
  <2>5. <<x, y>> \in Seq(Byte) /\ Len(<<x, y>>) = 2
        /\ \A i \in 1 .. 2 : <<x, y>>[i] # 0
    BY SMT, <2>4
  <2> QED
    BY SMT, <1>3, <2>1, <2>2, <2>3, <2>5
<1>4. CASE c >= 2048 /\ c < 65536
  <2>1. Utf8Len(c) = 3
    BY SMT, <1>1, <1>4 DEF Utf8Len
  <2>2. Utf8(c) = <<224 + c \div 4096, Low(c \div 64), Low(c)>>
    BY SMT, <2>1 DEF Utf8
  <2>3. PICK x, y, z : x = 224 + c \div 4096 /\ y = Low(c \div 64) /\ z = Low(c)
    OBVIOUS
  <2>4. x \in Byte /\ y \in Byte /\ z \in Byte /\ x # 0 /\ y # 0 /\ z # 0
    BY SMT, <1>1, <1>4, <2>3 DEF Low, Byte
  <2>5. <<x, y, z>> \in Seq(Byte) /\ Len(<<x, y, z>>) = 3
        /\ \A i \in 1 .. 3 : <<x, y, z>>[i] # 0
    BY SMT, <2>4
  <2> QED
    BY SMT, <1>4, <2>1, <2>2, <2>3, <2>5
<1>5. CASE c >= 65536
  <2>1. Utf8Len(c) = 4
    BY SMT, <1>1, <1>5 DEF Utf8Len
  <2>2. Utf8(c) = <<240 + (c \div 64) \div 4096, Low(c \div 4096), Low(c \div 64), Low(c)>>
    BY SMT, <2>1 DEF Utf8
  <2>3. PICK w, x, y, z : w = 240 + (c \div 64) \div 4096 /\ x = Low(c \div 4096) /\ y = Low(c \div 64) /\ z = Low(c)
    OBVIOUS
  <2>4. w \in Byte /\ x \in Byte /\ y \in Byte /\ z \in Byte /\ w # 0 /\ x # 0 /\ y # 0 /\ z # 0
    BY SMT, <1>1, <1>5, <2>3 DEF Low, Byte
  <2>5. <<w, x, y, z>> \in Seq(Byte) /\ Len(<<w, x, y, z>>) = 4
        /\ \A i \in 1 .. 4 : <<w, x, y, z>>[i] # 0
    BY SMT, <2>4
  <2> QED
    BY SMT, <1>5, <2>1, <2>2, <2>3, <2>5
<1> QED
  BY SMT, <1>1, <1>2, <1>3, <1>4, <1>5

\* from_utf8 reads the char that was encoded.
LEMMA CharAtUtf8 ==
    ASSUME NEW b \in Seq(Byte), NEW c, IsChar(c), NEW i \in Nat, i > 0, Has(b, i - 1, Utf8(c))
    PROVE  CharAt(b, i) = c
<1>1. c \in Nat /\ c <= 1114111
  BY SMT DEF IsChar
<1>2. /\ Len(Utf8(c)) = Utf8Len(c) /\ Utf8Len(c) \in 1 .. 4
      /\ i + Len(Utf8(c)) - 1 <= Len(b)
      /\ \A k \in 1 .. Len(Utf8(c)) : b[(i - 1) + k] = Utf8(c)[k]
  BY SMT, Utf8Is DEF Has
<1>3. SUFFICES /\ SequenceLen(b[i]) = Utf8Len(c)
               /\ Bits(b, i, Utf8Len(c)) = c
               /\ \A k \in i + 1 .. i + Utf8Len(c) - 1 : b[k] \in 128 .. 191
  BY SMT, <1>2 DEF CharAt
<1>4. CASE c < 128
  <2>1. Utf8Len(c) = 1 /\ Utf8(c) = <<c>>
    BY SMT, <1>4 DEF Utf8Len, Utf8
  <2>2. b[(i - 1) + 1] = c
    BY SMT, <1>2, <2>1
  <2>3. b[i] = c
    BY SMT, <2>2
  <2>4. i + 1 .. i + 1 - 1 = {}
    OBVIOUS
  <2>5. SequenceLen(c) = 1
    BY SMT, <1>1, <1>4, LeadByte
  <2> QED
    BY SMT, <1>1, <1>4, <2>1, <2>3, <2>4, <2>5 DEF Bits
<1>5. CASE c >= 128 /\ c < 2048
  <2>1. Utf8Len(c) = 2
    BY SMT, <1>1, <1>5 DEF Utf8Len
  <2>2. Utf8(c) = <<192 + c \div 64, Low(c)>>
    BY SMT, <2>1 DEF Utf8
  <2>3. PICK x, y : x = 192 + c \div 64 /\ y = Low(c)
    OBVIOUS
  <2>4. x \in 192 .. 223 /\ y \in 128 .. 191 /\ 64 * (x - 192) + (y - 128) = c
    BY SMT, <1>1, <1>5, <2>3 DEF Low
  <2>5. b[(i - 1) + 1] = <<x, y>>[1] /\ b[(i - 1) + 2] = <<x, y>>[2]
    BY SMT, <1>2, <2>1, <2>2, <2>3
  <2>6. b[i] = x /\ b[i + 1] = y
    <3>1. (i - 1) + 1 = i /\ (i - 1) + 2 = i + 1
      OBVIOUS
    <3> QED
      BY SMT, <2>5, <3>1
  <2>7. SequenceLen(x) = 2
    BY SMT, <2>4, LeadByte
  <2>8. \A k \in i + 1 .. i + 2 - 1 : k = i + 1
    OBVIOUS
  <2>9. Bits(b, i, 2) = 64 * (b[i] - 192) + (b[i + 1] - 128)
    BY SMT DEF Bits
  <2>10. \A k \in i + 1 .. i + 2 - 1 : b[k] \in 128 .. 191
    <3> TAKE k \in i + 1 .. i + 2 - 1
    <3>1. k = i + 1
      BY <2>8
    <3>2. y \in 128 .. 191
      BY SMT, <2>4
    <3> QED
      BY <2>6, <3>1, <3>2, Zenon
  <2>11. Bits(b, i, 2) = c
    BY SMT, <2>4, <2>6, <2>9
  <2> QED
    BY SMT, <2>1, <2>6, <2>7, <2>10, <2>11
<1>6. CASE c >= 2048 /\ c < 65536
  <2>1. Utf8Len(c) = 3
    BY SMT, <1>1, <1>6 DEF Utf8Len
  <2>2. Utf8(c) = <<224 + c \div 4096, Low(c \div 64), Low(c)>>
    BY SMT, <2>1 DEF Utf8
  <2>3. PICK x, y, z : x = 224 + c \div 4096 /\ y = Low(c \div 64) /\ z = Low(c)
    OBVIOUS
  <2>4. x \in 224 .. 239 /\ y \in 128 .. 191 /\ z \in 128 .. 191
        /\ 4096 * (x - 224) + 64 * (y - 128) + (z - 128) = c
    BY SMT, <1>1, <1>6, <2>3 DEF Low
  <2>5. b[(i - 1) + 1] = <<x, y, z>>[1] /\ b[(i - 1) + 2] = <<x, y, z>>[2] /\ b[(i - 1) + 3] = <<x, y, z>>[3]
    BY SMT, <1>2, <2>1, <2>2, <2>3
  <2>6. b[i] = x /\ b[i + 1] = y /\ b[i + 2] = z
    <3>1. (i - 1) + 1 = i /\ (i - 1) + 2 = i + 1 /\ (i - 1) + 3 = i + 2
      OBVIOUS
    <3> QED
      BY SMT, <2>5, <3>1
  <2>7. SequenceLen(x) = 3
    BY SMT, <2>4, LeadByte
  <2>8. \A k \in i + 1 .. i + 3 - 1 : k = i + 1 \/ k = i + 2
    OBVIOUS
  <2>9. Bits(b, i, 3) = 4096 * (b[i] - 224) + 64 * (b[i + 1] - 128) + (b[i + 2] - 128)
    BY SMT DEF Bits
  <2>10. \A k \in i + 1 .. i + 3 - 1 : b[k] \in 128 .. 191
    <3> TAKE k \in i + 1 .. i + 3 - 1
    <3>1. k = i + 1 \/ k = i + 2
      BY <2>8
    <3>2. y \in 128 .. 191 /\ z \in 128 .. 191
      BY SMT, <2>4
    <3> QED
      BY <2>6, <3>1, <3>2, Zenon
  <2>11. Bits(b, i, 3) = c
    BY SMT, <2>4, <2>6, <2>9
  <2> QED
    BY SMT, <2>1, <2>6, <2>7, <2>10, <2>11
<1>7. CASE c >= 65536
  <2>1. Utf8Len(c) = 4
    BY SMT, <1>1, <1>7 DEF Utf8Len
  <2>2. Utf8(c) = <<240 + (c \div 64) \div 4096, Low(c \div 4096), Low(c \div 64), Low(c)>>
    BY SMT, <2>1 DEF Utf8
  <2>3. PICK w, x, y, z : w = 240 + (c \div 64) \div 4096 /\ x = Low(c \div 4096) /\ y = Low(c \div 64) /\ z = Low(c)
    OBVIOUS
  <2>4. w \in 240 .. 247 /\ x \in 128 .. 191 /\ y \in 128 .. 191 /\ z \in 128 .. 191
        /\ 64 * (4096 * (w - 240) + 64 * (x - 128) + (y - 128)) + (z - 128) = c
    BY SMT, <1>1, <1>7, <2>3 DEF Low
  <2>5. b[(i - 1) + 1] = <<w, x, y, z>>[1] /\ b[(i - 1) + 2] = <<w, x, y, z>>[2]
        /\ b[(i - 1) + 3] = <<w, x, y, z>>[3] /\ b[(i - 1) + 4] = <<w, x, y, z>>[4]
    BY SMT, <1>2, <2>1, <2>2, <2>3
  <2>6. b[i] = w /\ b[i + 1] = x /\ b[i + 2] = y /\ b[i + 3] = z
    <3>1. (i - 1) + 1 = i /\ (i - 1) + 2 = i + 1 /\ (i - 1) + 3 = i + 2 /\ (i - 1) + 4 = i + 3
      OBVIOUS
    <3> QED
      BY SMT, <2>5, <3>1
  <2>7. SequenceLen(w) = 4
    BY SMT, <2>4, LeadByte
  <2>8. \A k \in i + 1 .. i + 4 - 1 : k = i + 1 \/ k = i + 2 \/ k = i + 3
    OBVIOUS
  <2>9. Bits(b, i, 4) = 64 * (4096 * (b[i] - 240) + 64 * (b[i + 1] - 128) + (b[i + 2] - 128))
                            + (b[i + 3] - 128)
    BY SMT DEF Bits
  <2>10. \A k \in i + 1 .. i + 4 - 1 : b[k] \in 128 .. 191
    <3> TAKE k \in i + 1 .. i + 4 - 1
    <3>1. k = i + 1 \/ k = i + 2 \/ k = i + 3
      BY <2>8
    <3>2. x \in 128 .. 191 /\ y \in 128 .. 191 /\ z \in 128 .. 191
      BY SMT, <2>4
    <3> QED
      BY <2>6, <3>1, <3>2, Zenon
  <2>11. Bits(b, i, 4) = c
    BY SMT, <2>4, <2>6, <2>9
  <2> QED
    BY SMT, <2>1, <2>6, <2>7, <2>10, <2>11
<1> QED
  BY SMT, <1>1, <1>4, <1>5, <1>6, <1>7

\* A char that is read is there as it is encoded.
LEMMA CharAtIs ==
    ASSUME NEW b \in Seq(Byte), NEW i \in 1 .. Len(b), NEW c, c = CharAt(b, i), c # Malformed
    PROVE  IsChar(c) /\ Has(b, i - 1, Utf8(c))
<1>1. PICK n : n = SequenceLen(b[i])
  OBVIOUS
<1>2. /\ n # 0
      /\ i + n - 1 <= Len(b)
      /\ \A k \in i + 1 .. i + n - 1 : b[k] \in 128 .. 191
      /\ IsChar(c) /\ Utf8Len(c) = n /\ c = Bits(b, i, n)
  BY SMT, <1>1 DEF CharAt
<1>3. b[i] \in Nat
  <2>1. b[i] \in Byte
    OBVIOUS
  <2>2. \A x \in Byte : x \in Nat
    BY DEF Byte
  <2> QED
    BY <2>1, <2>2
<1>31. PICK lead \in Nat : lead = b[i]
  BY <1>3
<1>32. /\ SequenceLen(lead) \in 0 .. 4
       /\ SequenceLen(lead) = 2 => lead \in 192 .. 223
       /\ SequenceLen(lead) = 3 => lead \in 224 .. 239
       /\ SequenceLen(lead) = 4 => lead \in 240 .. 247
  BY LeadByte
<1>33. n = SequenceLen(lead)
  BY <1>1, <1>31
<1>4. n \in 1 .. 4
  BY <1>2, <1>32, <1>33
<1>5. i - 1 \in Nat /\ (i - 1) + n <= Len(b) /\ Len(Utf8(c)) = n
  BY SMT, <1>2, <1>4, Utf8Is
<1>6. SUFFICES \A k \in 1 .. n : b[(i - 1) + k] = Utf8(c)[k]
  BY <1>2, <1>5 DEF Has
<1>7. CASE n = 1
  <2>1. Utf8(c) = <<c>> /\ c = b[i]
    BY SMT, <1>2, <1>7 DEF Utf8, Bits
  <2>2. (i - 1) + 1 = i /\ \A k \in 1 .. 1 : k = 1
    OBVIOUS
  <2> QED
    BY <1>7, <2>1, <2>2
<1>8. CASE n = 2
  <2>1. PICK x, y : x = b[i] /\ y = b[i + 1]
    OBVIOUS
  <2>2. x \in 192 .. 223
    BY <1>31, <1>32, <1>33, <1>8, <2>1
  <2>3. y \in 128 .. 191
    <3>1. i + 1 \in i + 1 .. i + n - 1
      BY <1>8
    <3> QED
      BY <1>2, <2>1, <3>1
  <2>4. c = 64 * (x - 192) + (y - 128)
    BY SMT, <1>2, <1>8, <2>1 DEF Bits
  <2>5. Utf8(c) = <<192 + c \div 64, Low(c)>>
    BY SMT, <1>2, <1>8 DEF Utf8
  <2>6. 192 + c \div 64 = x /\ Low(c) = y
    BY SMT, <2>2, <2>3, <2>4 DEF Low
  <2>7. Utf8(c) = <<x, y>>
    BY <2>5, <2>6, Zenon
  <2>8. (i - 1) + 1 = i /\ (i - 1) + 2 = i + 1 /\ \A k \in 1 .. 2 : k = 1 \/ k = 2
    OBVIOUS
  <2> QED
    BY <1>8, <2>1, <2>7, <2>8
<1>9. CASE n = 3
  <2>1. PICK x, y, z : x = b[i] /\ y = b[i + 1] /\ z = b[i + 2]
    OBVIOUS
  <2>2. x \in 224 .. 239
    BY <1>31, <1>32, <1>33, <1>9, <2>1
  <2>3. y \in 128 .. 191 /\ z \in 128 .. 191
    <3>1. i + 1 \in i + 1 .. i + n - 1 /\ i + 2 \in i + 1 .. i + n - 1
      BY <1>9
    <3> QED
      BY <1>2, <2>1, <3>1
  <2>4. c = 4096 * (x - 224) + 64 * (y - 128) + (z - 128)
    BY SMT, <1>2, <1>9, <2>1 DEF Bits
  <2>5. Utf8(c) = <<224 + c \div 4096, Low(c \div 64), Low(c)>>
    BY SMT, <1>2, <1>9 DEF Utf8
  <2>6. 224 + c \div 4096 = x /\ Low(c \div 64) = y /\ Low(c) = z
    BY SMT, <2>2, <2>3, <2>4 DEF Low
  <2>7. Utf8(c) = <<x, y, z>>
    BY SMT, <2>5, <2>6
  <2>8. (i - 1) + 1 = i /\ (i - 1) + 2 = i + 1 /\ (i - 1) + 3 = i + 2
        /\ \A k \in 1 .. 3 : k = 1 \/ k = 2 \/ k = 3
    OBVIOUS
  <2> QED
    BY <1>9, <2>1, <2>7, <2>8
<1>10. CASE n = 4
  <2>1. PICK w, x, y, z : w = b[i] /\ x = b[i + 1] /\ y = b[i + 2] /\ z = b[i + 3]
    OBVIOUS
  <2>2. w \in 240 .. 247
    BY <1>31, <1>32, <1>33, <1>10, <2>1
  <2>3. x \in 128 .. 191 /\ y \in 128 .. 191 /\ z \in 128 .. 191
    <3>1. i + 1 \in i + 1 .. i + n - 1 /\ i + 2 \in i + 1 .. i + n - 1 /\ i + 3 \in i + 1 .. i + n - 1
      BY <1>10
    <3> QED
      BY <1>2, <2>1, <3>1
  <2>4. c = 64 * (4096 * (w - 240) + 64 * (x - 128) + (y - 128)) + (z - 128)
    BY SMT, <1>2, <1>10, <2>1 DEF Bits
  <2>5. Utf8(c) = <<240 + (c \div 64) \div 4096, Low(c \div 4096), Low(c \div 64), Low(c)>>
    BY SMT, <1>2, <1>10 DEF Utf8
  <2>6. 240 + (c \div 64) \div 4096 = w /\ Low(c \div 4096) = x /\ Low(c \div 64) = y /\ Low(c) = z
    <3>1. PICK m \in Nat : m = 4096 * (w - 240) + 64 * (x - 128) + (y - 128)
      BY SMT, <2>2, <2>3
    <3>2. c = 64 * m + (z - 128)
      BY SMT, <2>4, <3>1
    <3>3. c \div 64 = m /\ c % 64 = z - 128
      BY SMT, <2>3, <3>2
    <3>4. m \div 4096 = w - 240 /\ m % 64 = y - 128
      BY SMT, <2>2, <2>3, <3>1
    <3>5. (c \div 4096) % 64 = x - 128
      BY SMT, <2>2, <2>3, <3>1, <3>2
    <3>6. 240 + (c \div 64) \div 4096 = w
      BY SMT, <2>2, <3>3, <3>4
    <3>7. Low(c) = z
      BY SMT, <2>3, <3>3 DEF Low
    <3>8. Low(c \div 64) = y
      <4>1. Low(m) = y
        BY SMT, <2>3, <3>4 DEF Low
      <4>2. c \div 64 = m
        BY SMT, <3>3
      <4> QED
        BY <4>1, <4>2, Zenon
    <3>9. Low(c \div 4096) = x
      BY SMT, <2>3, <3>5 DEF Low
    <3> QED
      BY SMT, <3>6, <3>7, <3>8, <3>9
  <2>7. Utf8(c) = <<w, x, y, z>>
    BY SMT, <2>5, <2>6
  <2>8. (i - 1) + 1 = i /\ (i - 1) + 2 = i + 1 /\ (i - 1) + 3 = i + 2 /\ (i - 1) + 4 = i + 3
        /\ \A k \in 1 .. 4 : k = 1 \/ k = 2 \/ k = 3 \/ k = 4
    OBVIOUS
  <2> QED
    BY <1>10, <2>1, <2>7, <2>8
<1> QED
  BY <1>4, <1>7, <1>8, <1>9, <1>10

\* from_utf8 reads one char and goes on behind it.
LEMMA CharsFromIs ==
    ASSUME NEW b \in Seq(Byte)
    PROVE  /\ CharsFrom(b) \in [1 .. Len(b) + 1 -> Seq(Int)]
           /\ CharsFrom(b)[Len(b) + 1] = << >>
           /\ \A i \in 1 .. Len(b) :
                /\ CharAt(b, i) = Malformed => CharsFrom(b)[i] = <<Malformed>>
                /\ CharAt(b, i) # Malformed =>
                    /\ i + Utf8Len(CharAt(b, i)) \in i + 1 .. Len(b) + 1
                    /\ CharsFrom(b)[i] =
                            <<CharAt(b, i)>> \o CharsFrom(b)[i + Utf8Len(CharAt(b, i))]
<1>1. PICK n \in Nat : n = Len(b)
  OBVIOUS
<1>2. PICK D, X, stop : /\ D = 1 .. n + 1 /\ X = Seq(Int)
                        /\ stop = {i \in D : i = n + 1 \/ CharAt(b, i) = Malformed}
  OBVIOUS
<1>3. \A i \in D : i \notin stop => /\ i \in 1 .. n /\ CharAt(b, i) \in Int
                                    /\ Utf8Len(CharAt(b, i)) \in 1 .. 4
                                    /\ i + Utf8Len(CharAt(b, i)) \in i + 1 .. n + 1
  <2> SUFFICES ASSUME NEW i \in D, i \notin stop
               PROVE  /\ i \in 1 .. n /\ CharAt(b, i) \in Int
                      /\ Utf8Len(CharAt(b, i)) \in 1 .. 4
                      /\ i + Utf8Len(CharAt(b, i)) \in i + 1 .. n + 1
    OBVIOUS
  <2>1. i \in 1 .. n /\ CharAt(b, i) # Malformed
    BY <1>2
  <2>2. PICK c : c = CharAt(b, i)
    OBVIOUS
  <2>3. IsChar(c) /\ Has(b, i - 1, Utf8(c))
    BY <1>1, <2>1, <2>2, CharAtIs
  <2>4. c \in Int
    BY SMT, <2>3 DEF IsChar
  <2>5. Len(Utf8(c)) = Utf8Len(c) /\ Utf8Len(c) \in 1 .. 4
    BY <2>3, Utf8Is
  <2>6. (i - 1) + Utf8Len(c) <= n
    BY <1>1, <2>3, <2>5 DEF Has
  <2> QED
    BY <2>1, <2>2, <2>4, <2>5, <2>6
<1>4. PICK base, rank, next, step :
        /\ base = [i \in D |-> IF i = n + 1 THEN << >> ELSE <<Malformed>>]
        /\ rank = [i \in D |-> n + 1 - i]
        /\ next = [i \in D |-> IF i \in stop THEN i ELSE i + Utf8Len(CharAt(b, i))]
        /\ step = [i \in D |-> IF i \in stop THEN [x \in X |-> x]
                               ELSE [x \in X |-> <<CharAt(b, i)>> \o x]]
  OBVIOUS
<1>5. Recursive(D, X, n + 1, rank, stop, base, next, step)
  <2>1. base \in [D -> X]
    <3>1. << >> \in X /\ <<Malformed>> \in X
      BY <1>2 DEF Malformed
    <3> QED
      BY <1>4, <3>1
  <2>2. rank \in [D -> 0 .. n + 1]
    BY <1>2, <1>4
  <2>3. next \in [D -> D]
    <3>1. \A i \in D : i \notin stop => i + Utf8Len(CharAt(b, i)) \in D
      BY <1>2, <1>3
    <3> QED
      BY <1>4, <3>1
  <2>4. step \in [D -> [X -> X]]
    <3>1. \A i \in D : i \notin stop => [x \in X |-> <<CharAt(b, i)>> \o x] \in [X -> X]
      <4> SUFFICES ASSUME NEW i \in D, i \notin stop, NEW x \in X
                   PROVE  <<CharAt(b, i)>> \o x \in X
        OBVIOUS
      <4>1. PICK c \in Int : c = CharAt(b, i)
        BY <1>3
      <4>2. <<c>> \o x \in Seq(Int)
        BY <1>2
      <4> QED
        BY <1>2, <4>1, <4>2
    <3>2. [x \in X |-> x] \in [X -> X]
      OBVIOUS
    <3>3. \A i \in D : step[i] \in [X -> X]
      BY <1>4, <3>1, <3>2
    <3> QED
      BY <1>4, <3>3
  <2>5. \A i \in D : i \notin stop => rank[next[i]] < rank[i]
    <3> SUFFICES ASSUME NEW i \in D, i \notin stop PROVE rank[next[i]] < rank[i]
      OBVIOUS
    <3>1. PICK j \in i + 1 .. n + 1 : j = next[i]
      BY <1>3, <1>4
    <3>2. i \in 1 .. n /\ j \in D
      BY <1>2, <1>3, <2>3, <3>1
    <3>3. rank[j] = n + 1 - j /\ rank[i] = n + 1 - i
      BY <1>4, <3>2
    <3> QED
      BY <3>1, <3>2, <3>3
  <2>6. n + 1 \in Nat
    OBVIOUS
  <2> QED
    BY <2>1, <2>2, <2>3, <2>4, <2>5, <2>6 DEF Recursive
<1> DEFINE F(f) == [i \in 1 .. Len(b) + 1 |->
                        IF i > Len(b) THEN << >>
                        ELSE IF CharAt(b, i) = Malformed THEN <<Malformed>>
                        ELSE <<CharAt(b, i)>> \o f[i + Utf8Len(CharAt(b, i))]]
<1>6. PICK f \in [D -> X] :
        \A i \in D : f[i] = (IF i \in stop THEN base[i] ELSE step[i][f[next[i]]])
  BY <1>5, Recursion
<1>7. f = F(f)
  <2>1. ASSUME NEW i \in D PROVE f[i] = F(f)[i]
    <3>1. CASE i = n + 1
      <4>1. i \in stop /\ i > Len(b)
        BY <1>1, <1>2, <3>1
      <4>2. f[i] = << >>
        BY <1>4, <1>6, <3>1, <4>1
      <4> QED
        BY <1>1, <1>2, <4>1, <4>2
    <3>2. CASE i # n + 1 /\ CharAt(b, i) = Malformed
      <4>1. i \in stop /\ ~(i > Len(b))
        BY <1>1, <1>2, <3>2
      <4>2. f[i] = <<Malformed>>
        BY <1>4, <1>6, <3>2, <4>1
      <4> QED
        BY <1>1, <1>2, <3>2, <4>1, <4>2
    <3>3. CASE i # n + 1 /\ CharAt(b, i) # Malformed
      <4>1. i \notin stop /\ i \in 1 .. n
        BY <1>2, <3>3
      <4>2. f[i] = step[i][f[next[i]]] /\ next[i] = i + Utf8Len(CharAt(b, i)) /\ next[i] \in D
        <5>1. next[i] = i + Utf8Len(CharAt(b, i))
          BY <1>4, <4>1
        <5>2. next[i] \in D
          BY <1>2, <1>3, <4>1, <5>1
        <5>3. f[i] = step[i][f[next[i]]]
          BY <1>6, <4>1
        <5> QED
          BY <5>1, <5>2, <5>3
      <4>3. f[i] = <<CharAt(b, i)>> \o f[i + Utf8Len(CharAt(b, i))]
        BY <1>4, <1>6, <4>1, <4>2
      <4> QED
        BY <1>1, <1>2, <3>3, <4>1, <4>3
    <3> QED
      BY <3>1, <3>2, <3>3
  <2>2. f = [i \in D |-> f[i]] /\ F(f) = [i \in D |-> F(f)[i]]
    BY <1>1, <1>2, <1>6
  <2> QED
    BY <2>1, <2>2
<1>8. CharsFrom(b) = CHOOSE g : g = F(g)
  BY DEF CharsFrom
<1>9. PICK g : g = CharsFrom(b)
  OBVIOUS
<1>10. g = F(g)
  <2> HIDE DEF F
  <2> QED
    BY <1>7, <1>8, <1>9
<1>11. \A i \in D : /\ i = n + 1 => g[i] = << >>
                    /\ i # n + 1 /\ CharAt(b, i) = Malformed => g[i] = <<Malformed>>
                    /\ i # n + 1 /\ CharAt(b, i) # Malformed =>
                            g[i] = <<CharAt(b, i)>> \o g[i + Utf8Len(CharAt(b, i))]
  <2>1. \A i \in 1 .. n + 1 : g[i] = IF i > n THEN << >>
                        ELSE IF CharAt(b, i) = Malformed THEN <<Malformed>>
                        ELSE <<CharAt(b, i)>> \o g[i + Utf8Len(CharAt(b, i))]
    BY <1>1, <1>10
  <2>2. \A i \in D : (i > n <=> i = n + 1)
    BY <1>2
  <2> QED
    BY <1>2, <2>1, <2>2
<1>12. \A i \in D : g[i] \in Seq(Int)
  <2>1. PICK S : S = {k \in 0 .. n : \A i \in D : n + 1 - i <= k => g[i] \in Seq(Int)}
    OBVIOUS
  <2>2. 0 \in S
    <3>1. \A i \in D : n + 1 - i <= 0 => i = n + 1
      BY <1>2
    <3>2. << >> \in Seq(Int)
      OBVIOUS
    <3>3. \A i \in D : n + 1 - i <= 0 => g[i] = << >>
      BY <1>11, <3>1
    <3>4. \A i \in D : n + 1 - i <= 0 => g[i] \in Seq(Int)
      BY <3>2, <3>3
    <3> QED
      BY <2>1, <3>4
  <2>3. ASSUME NEW k \in 0 .. n - 1, k \in S PROVE k + 1 \in S
    <3>1. ASSUME NEW i \in D, n + 1 - i <= k + 1 PROVE g[i] \in Seq(Int)
      <4>1. CASE i = n + 1
        <5>1. << >> \in Seq(Int)
          OBVIOUS
        <5> QED
          BY <1>11, <4>1, <5>1
      <4>2. CASE i # n + 1 /\ CharAt(b, i) = Malformed
        <5>1. <<Malformed>> \in Seq(Int)
          BY DEF Malformed
        <5> QED
          BY <1>11, <4>2, <5>1
      <4>3. CASE i # n + 1 /\ CharAt(b, i) # Malformed
        <5>1. i \notin stop
          BY <1>2, <4>3
        <5>2. PICK j \in i + 1 .. n + 1 : j = i + Utf8Len(CharAt(b, i))
          BY <1>3, <5>1
        <5>3. i \in Nat /\ j \in D /\ n + 1 - j <= k
          BY <1>2, <3>1, <5>2
        <5>4. PICK y \in Seq(Int) : y = g[j]
          BY <2>1, <2>3, <5>3
        <5>5. PICK c \in Int : c = CharAt(b, i)
          BY <1>3, <5>1
        <5>6. <<c>> \o y \in Seq(Int)
          OBVIOUS
        <5> QED
          BY <1>11, <4>3, <5>2, <5>4, <5>5, <5>6
      <4> QED
        BY <4>1, <4>2, <4>3
    <3> QED
      BY <2>1, <3>1
  <2>4. \A k \in 0 .. n : k \in S
    BY <2>2, <2>3, Induct
  <2>5. n \in S /\ \A i \in D : n + 1 - i <= n
    BY <1>2, <2>4
  <2> QED
    BY <2>1, <2>5
<1>13. g \in [1 .. n + 1 -> Seq(Int)]
  <2> HIDE DEF F
  <2>1. g = [i \in 1 .. n + 1 |-> g[i]]
    <3>1. F(g) = [i \in 1 .. n + 1 |-> F(g)[i]]
      BY <1>1 DEF F
    <3> QED
      BY <1>10, <3>1
  <2> QED
    BY <1>2, <1>12, <2>1
<1>14. n + 1 \in D /\ \A i \in 1 .. n : i \in D /\ i # n + 1 /\ (CharAt(b, i) # Malformed => i \notin stop)
  BY <1>2
<1> QED
  BY <1>1, <1>3, <1>9, <1>11, <1>13, <1>14

\* The UTF-8 of each char of a text.
Utf8Parts(s) == [i \in 1 .. Len(s) |-> Utf8(s[i])]

\* They are bytes.
LEMMA Utf8PartsAre ==
    ASSUME NEW s, IsText(s)
    PROVE  /\ Utf8Parts(s) \in Seq(Seq(Byte)) /\ Len(Utf8Parts(s)) = Len(s)
           /\ s \in Seq(Int) /\ Len(s) \in Nat
           /\ \A i \in 1 .. Len(s) : Utf8Parts(s)[i] = Utf8(s[i]) /\ IsChar(s[i])
<1>1. s \in Seq(Int) /\ \A i \in 1 .. Len(s) : IsChar(s[i])
  BY DEF IsText
<1>2. PICK n \in Nat : n = Len(s)
  BY <1>1
<1>3. PICK X : X = Seq(Byte)
  OBVIOUS
<1>4. \A i \in 1 .. n : Utf8(s[i]) \in X
  BY <1>1, <1>2, <1>3, Utf8Is
<1>5. PICK p : p = Utf8Parts(s)
  OBVIOUS
<1>6. p = [i \in 1 .. n |-> Utf8(s[i])]
  BY <1>2, <1>5 DEF Utf8Parts
<1>7. p \in [1 .. n -> X]
  BY <1>4, <1>6
<1>8. p \in Seq(X) /\ Len(p) = n
  BY <1>7, FunctionToSeq
<1> QED
  BY <1>1, <1>2, <1>3, <1>5, <1>6, <1>8

\* from_utf8 reads back the first chars that were encoded.
LEMMA Utf8IsReadBack ==
    ASSUME NEW s, IsText(s), NEW k \in 0 .. Len(s)
    PROVE  FromUtf8(Upto(Utf8Parts(s), k)) = SubSeq(s, 1, k)
<1>1. PICK p \in Seq(Seq(Byte)) : p = Utf8Parts(s)
  BY Utf8PartsAre
<1>2. /\ Len(p) = Len(s) /\ s \in Seq(Int) /\ Len(s) \in Nat
      /\ \A i \in 1 .. Len(s) : p[i] = Utf8(s[i]) /\ IsChar(s[i])
  BY <1>1, Utf8PartsAre
<1>3. PICK b \in Seq(Byte) : b = Upto(p, k)
  BY <1>2, Flattened
<1>4. k \in Nat
  BY <1>2
<1>5. \A i \in 0 .. k : Upto(p, i) \in Seq(Byte)
  <2> TAKE i \in 0 .. k
  <2>1. i \in 0 .. Len(p)
    BY <1>2
  <2> QED
    BY <2>1, Flattened
<1>6. ASSUME NEW i \in 1 .. k PROVE Has(b, Len(Upto(p, i - 1)), p[i])
  <2>1. PICK q : q = SubSeq(p, 1, k)
    OBVIOUS
  <2>2. PICK Y : Y = Seq(Byte)
    OBVIOUS
  <2>3. p \in Seq(Y)
    BY <2>2
  <2>4. q \in Seq(Y) /\ Len(q) = k /\ \A j \in 1 .. k : q[j] = p[j]
    BY <1>2, <2>1, <2>3
  <2>5. q \in Seq(Seq(Byte))
    BY <2>2, <2>4
  <2>6. FlattenSeq(q) = b
    BY <1>3, <2>1 DEF Upto
  <2>7. Has(b, Len(Upto(q, i - 1)), q[i])
    BY <2>4, <2>5, <2>6, HasPart
  <2>8. SubSeq(q, 1, i - 1) = SubSeq(p, 1, i - 1)
    <3>1. PICK m \in Nat : m = i - 1 /\ m <= k
      OBVIOUS
    <3>2. /\ SubSeq(q, 1, m) \in Seq(Y) /\ Len(SubSeq(q, 1, m)) = m
          /\ \A j \in 1 .. m : SubSeq(q, 1, m)[j] = q[j]
      BY <2>4, <3>1
    <3>3. /\ SubSeq(p, 1, m) \in Seq(Y) /\ Len(SubSeq(p, 1, m)) = m
          /\ \A j \in 1 .. m : SubSeq(p, 1, m)[j] = p[j]
      BY <1>2, <2>3, <3>1
    <3>4. \A j \in 1 .. m : q[j] = p[j]
      BY <2>4, <3>1
    <3>5. SubSeq(q, 1, m) = SubSeq(p, 1, m)
      BY <3>2, <3>3, <3>4, SeqEqual
    <3> QED
      BY <3>1, <3>5
  <2>9. q[i] = p[i]
    BY <2>4
  <2> QED
    BY <2>7, <2>8, <2>9 DEF Upto
<1>7. PICK f : f = CharsFrom(b)
  OBVIOUS
<1>8. PICK at : at = [i \in 0 .. k |-> Len(Upto(p, i)) + 1]
  OBVIOUS
<1>9. \A i \in 0 .. k : at[i] \in Nat
  BY <1>5, <1>8
<1>10. at[k] = Len(b) + 1 /\ at[0] = 1
  <2>1. Upto(p, 0) = << >>
    BY Flattened
  <2>2. Len(Upto(p, 0)) = 0
    BY <2>1
  <2> QED
    BY <1>3, <1>4, <1>8, <2>2
<1>11. ASSUME NEW i \in 1 .. k
       PROVE  /\ at[i - 1] \in 1 .. Len(b)
              /\ f[at[i - 1]] = <<s[i]>> \o f[at[i]]
  <2>1. Has(b, at[i - 1] - 1, Utf8(s[i])) /\ IsChar(s[i])
    <3>1. i - 1 \in 0 .. k /\ i \in 1 .. Len(s)
      BY <1>2
    <3>2. at[i - 1] - 1 = Len(Upto(p, i - 1))
      BY <1>5, <1>8, <3>1
    <3> QED
      BY <1>2, <1>6, <3>1, <3>2
  <2>2. PICK a \in Nat : a = at[i - 1] /\ a > 0
    <3>1. Len(Upto(p, i - 1)) \in Nat
      BY <1>5
    <3> QED
      BY <1>8, <3>1
  <2>3. CharAt(b, a) = s[i]
    BY <2>1, <2>2, CharAtUtf8
  <2>4. Len(Utf8(s[i])) = Utf8Len(s[i]) /\ Utf8Len(s[i]) \in 1 .. 4
    BY <2>1, Utf8Is
  <2>5. a \in 1 .. Len(b)
    <3>1. Has(b, a - 1, Utf8(s[i]))
      BY <2>1, <2>2
    <3>2. (a - 1) + Len(Utf8(s[i])) <= Len(b)
      BY <3>1 DEF Has
    <3> QED
      BY <2>2, <2>4, <3>2
  <2>6. s[i] # Malformed
    BY SMT, <2>1 DEF IsChar, Malformed
  <2>7. f[a] = <<s[i]>> \o f[a + Utf8Len(s[i])]
    BY <1>7, <2>3, <2>5, <2>6, CharsFromIs
  <2>8. at[i] = a + Utf8Len(s[i])
    <3>0. i \in 1 .. Len(p)
      BY <1>2
    <3>1. Len(Upto(p, i)) = Len(Upto(p, i - 1)) + Len(p[i])
      BY <3>0, Flattened
    <3>2. p[i] = Utf8(s[i])
      BY <1>2
    <3>3. Len(Upto(p, i - 1)) \in Nat
      BY <1>5
    <3> QED
      BY <1>8, <2>2, <2>4, <3>1, <3>2, <3>3
  <2> QED
    BY <2>2, <2>5, <2>7, <2>8
<1>12. PICK S : S = {j \in 0 .. k : f[at[k - j]] = SubSeq(s, k - j + 1, k)}
  OBVIOUS
<1>13. 0 \in S
  <2>1. f[at[k]] = << >>
    BY <1>7, <1>10, CharsFromIs
  <2>2. SubSeq(s, k + 1, k) = << >>
    BY <1>2, <1>4, SubSeqEmpty
  <2>3. k - 0 = k
    BY <1>4
  <2> QED
    <3>1. f[at[k - 0]] = SubSeq(s, k - 0 + 1, k)
      BY <2>1, <2>2, <2>3
    <3> QED
      BY <1>4, <1>12, <3>1
<1>14. ASSUME NEW j \in 0 .. k - 1, j \in S PROVE j + 1 \in S
  <2>1. PICK i \in 1 .. k : i = k - j /\ i - 1 = k - (j + 1)
    BY <1>4
  <2>2. f[at[i]] = SubSeq(s, i + 1, k)
    BY <1>12, <1>14, <2>1
  <2>3. f[at[i - 1]] = <<s[i]>> \o f[at[i]]
    BY <1>11
  <2>4. SubSeq(s, i, k) = <<s[i]>> \o SubSeq(s, i + 1, k)
    <3>1. i \in 1 .. Len(s) /\ k \in i .. Len(s)
      BY <1>2, <1>4
    <3> QED
      BY <1>2, <3>1, SubSeqRecursiveFirst
  <2>5. i = k - (j + 1) + 1 /\ j + 1 \in 0 .. k
    BY <1>4, <2>1
  <2> QED
    BY <1>12, <2>1, <2>2, <2>3, <2>4, <2>5
<1>15. k \in S
  <2>1. \A j \in 0 .. k : j \in S
    BY <1>4, <1>13, <1>14, Induct
  <2> QED
    BY <1>4, <2>1
<1>16. f[at[0]] = SubSeq(s, 1, k)
  <2>1. k - k = 0 /\ k - k + 1 = 1
    BY <1>4
  <2> QED
    BY <1>12, <1>15, <2>1
<1> QED
  BY <1>1, <1>3, <1>7, <1>10, <1>16 DEF FromUtf8

\* What is left behind a part that is there.
LEMMA RestHas ==
    ASSUME NEW E, NEW b \in Seq(E), NEW x \in Seq(E), NEW at, Has(b, at, x)
    PROVE  Rest(b, at) = x \o Rest(b, at + Len(x))
<1>1. at \in Nat /\ Len(x) \in Nat /\ Len(b) \in Nat /\ at + Len(x) <= Len(b)
  BY DEF Has
<1>2. PICK m, k : /\ m = at + 1 /\ k = at + Len(x)
                  /\ m \in 1 .. Len(b) + 1 /\ k \in m - 1 .. Len(b)
  BY <1>1
<1>3. SubSeq(b, m, k) \o SubSeq(b, k + 1, Len(b)) = SubSeq(b, m, Len(b))
  <2>1. PICK n \in k .. Len(b) : n = Len(b)
    BY <1>1, <1>2
  <2>2. SubSeq(b, m, k) \o SubSeq(b, k + 1, n) = SubSeq(b, m, n)
    BY <1>2, ConcatAdjacentSubSeq
  <2> QED
    BY <2>1, <2>2
<1>4. SubSeq(b, m, k) = x
  <2>1. Bytes(b, at, Len(x)) = x
    BY HasBytes
  <2> QED
    BY <1>2, <2>1 DEF Bytes
<1> QED
  BY <1>2, <1>3, <1>4 DEF Rest

\* Text with one char more in front.
LEMMA TextFront ==
    ASSUME NEW c, IsChar(c), NEW y, IsText(y)
    PROVE  /\ IsText(<<c>> \o y)
           /\ FlattenSeq(Utf8Parts(<<c>> \o y)) = Utf8(c) \o FlattenSeq(Utf8Parts(y))
<1>1. /\ Utf8Parts(y) \in Seq(Seq(Byte)) /\ Len(Utf8Parts(y)) = Len(y)
      /\ y \in Seq(Int)
      /\ \A i \in 1 .. Len(y) : Utf8Parts(y)[i] = Utf8(y[i]) /\ IsChar(y[i])
  BY Utf8PartsAre
<1>2. c \in Int
  BY SMT DEF IsChar
<1>3. PICK n \in Nat : n = Len(y)
  BY <1>1
<1>4. PICK z \in Seq(Int) : z = <<c>> \o y
  <2>1. <<c>> \in Seq(Int)
    BY <1>2
  <2>2. <<c>> \o y \in Seq(Int)
    BY <1>1, <2>1, ConcatProperties
  <2> QED
    BY <2>2
<1>5. Len(z) = n + 1 /\ z[1] = c /\ \A i \in 1 .. n : z[i + 1] = y[i]
  BY <1>1, <1>2, <1>3, <1>4
<1>6. \A i \in 1 .. Len(z) : IsChar(z[i])
  <2> TAKE i \in 1 .. Len(z)
  <2>1. CASE i = 1
    BY <1>5, <2>1
  <2>2. CASE i # 1
    <3>1. PICK j \in 1 .. n : i = j + 1
      BY <1>5, <2>2
    <3>2. IsChar(y[j])
      BY <1>1, <1>3
    <3>3. z[i] = y[j]
      BY <1>5, <3>1
    <3> QED
      BY <3>2, <3>3
  <2> QED
    BY <2>1, <2>2
<1>7. IsText(z)
  BY <1>4, <1>6 DEF IsText
<1>8. PICK p \in Seq(Seq(Byte)) : p = Utf8Parts(z)
  BY <1>7, Utf8PartsAre
<1>9. Len(p) = n + 1 /\ \A i \in 1 .. n + 1 : p[i] = Utf8(z[i])
  BY <1>5, <1>7, <1>8, Utf8PartsAre
<1>10. PICK q \in Seq(Seq(Byte)) : q = Utf8Parts(y)
  BY <1>1
<1>11. PICK x \in Seq(Byte) : x = Utf8(c)
  BY Utf8Is
<1>12. <<x>> \o q \in Seq(Seq(Byte)) /\ FlattenSeq(<<x>> \o q) = x \o FlattenSeq(q)
  BY FlattenFront
<1>13. p = <<x>> \o q
  <2>1. PICK Y : Y = Seq(Byte)
    OBVIOUS
  <2>2. PICK r : r = <<x>> \o q
    OBVIOUS
  <2>3. q \in Seq(Y) /\ x \in Y /\ Len(q) = n
    BY <1>1, <1>3, <1>10, <2>1
  <2>4. r \in Seq(Y) /\ Len(r) = n + 1 /\ r[1] = x /\ \A i \in 1 .. n : r[i + 1] = q[i]
    BY <2>2, <2>3
  <2>5. ASSUME NEW i \in 1 .. n + 1 PROVE p[i] = r[i]
    <3>1. CASE i = 1
      BY <1>5, <1>9, <1>11, <2>4, <3>1
    <3>2. CASE i # 1
      <4>1. PICK j \in 1 .. n : i = j + 1
        BY <3>2
      <4>2. p[i] = Utf8(z[i]) /\ z[i] = y[j] /\ r[i] = q[j]
        BY <1>5, <1>9, <2>4, <4>1
      <4>3. q[j] = Utf8(y[j])
        BY <1>1, <1>3, <1>10
      <4> QED
        BY <4>2, <4>3
    <3> QED
      BY <3>1, <3>2
  <2>6. p \in Seq(Y)
    BY <2>1
  <2>7. p = r
    BY <1>9, <2>4, <2>5, <2>6, SeqEqual
  <2> QED
    BY <2>2, <2>7
<1> QED
  BY <1>4, <1>7, <1>8, <1>10, <1>11, <1>12, <1>13

\* Valid UTF-8 is what its chars are encoded to.
LEMMA Utf8IsWrittenBack ==
    ASSUME NEW b \in Seq(Byte), IsUtf8(b)
    PROVE  /\ IsText(FromUtf8(b))
           /\ FlattenSeq(Utf8Parts(FromUtf8(b))) = b
<1>1. PICK n \in Nat : n = Len(b)
  OBVIOUS
<1>2. PICK f \in [1 .. n + 1 -> Seq(Int)] : f = CharsFrom(b)
  BY <1>1, CharsFromIs
<1>3. PICK S : S = {k \in 0 .. n : \A i \in 1 .. n + 1 :
                        n + 1 - i <= k /\ ~Contains(f[i], Malformed) =>
                            IsText(f[i]) /\ FlattenSeq(Utf8Parts(f[i])) = Rest(b, i - 1)}
  OBVIOUS
<1>4. /\ f[n + 1] = << >> /\ IsText(f[n + 1])
      /\ FlattenSeq(Utf8Parts(f[n + 1])) = Rest(b, (n + 1) - 1)
  <2>1. f[n + 1] = << >>
    BY <1>1, <1>2, CharsFromIs
  <2>2. IsText(<< >>)
    BY DEF IsText
  <2>3. Utf8Parts(<< >>) \in Seq(Seq(Byte)) /\ Len(Utf8Parts(<< >>)) = Len(<< >>)
    BY <2>2, Utf8PartsAre
  <2>4. PICK q \in Seq(Seq(Byte)) : q = Utf8Parts(<< >>)
    BY <2>3
  <2>5. Upto(q, Len(q)) = FlattenSeq(q) /\ Upto(q, 0) = << >>
    BY Flattened
  <2>6. Len(q) = 0
    BY <2>3, <2>4
  <2>7. FlattenSeq(q) = << >>
    BY <2>5, <2>6
  <2>8. Rest(b, n) = << >>
    <3>1. SubSeq(b, n + 1, n) = << >>
      BY SubSeqEmpty
    <3> QED
      BY <1>1, <3>1 DEF Rest
  <2>9. (n + 1) - 1 = n
    OBVIOUS
  <2> QED
    BY <2>1, <2>2, <2>4, <2>7, <2>8, <2>9
<1>5. 0 \in S
  <2>1. \A i \in 1 .. n + 1 : n + 1 - i <= 0 => i = n + 1
    OBVIOUS
  <2> QED
    BY <1>3, <1>4, <2>1
<1>6. ASSUME NEW k \in 0 .. n - 1, k \in S PROVE k + 1 \in S
  <2>1. ASSUME NEW i \in 1 .. n + 1, n + 1 - i <= k + 1, ~Contains(f[i], Malformed)
        PROVE  IsText(f[i]) /\ FlattenSeq(Utf8Parts(f[i])) = Rest(b, i - 1)
    <3>1. CASE i = n + 1
      BY <1>4, <3>1
    <3>2. CASE i # n + 1 /\ CharAt(b, i) = Malformed
      <4>1. f[i] = <<Malformed>>
        <5>1. i \in 1 .. Len(b)
          BY <1>1, <3>2
        <5> QED
          BY <1>2, <3>2, <5>1, CharsFromIs
      <4>2. Contains(<<Malformed>>, Malformed)
        BY DEF Contains
      <4> QED
        BY <2>1, <4>1, <4>2
    <3>3. CASE i # n + 1 /\ CharAt(b, i) # Malformed
      <4>1. PICK c : c = CharAt(b, i)
        OBVIOUS
      <4>2. IsChar(c) /\ Has(b, i - 1, Utf8(c))
        BY <1>1, <3>3, <4>1, CharAtIs
      <4>3. PICK j \in i + 1 .. n + 1 : j = i + Utf8Len(c) /\ f[i] = <<c>> \o f[j]
        <5>1. i \in 1 .. Len(b)
          BY <1>1, <3>3
        <5> QED
          BY <1>1, <1>2, <3>3, <4>1, <5>1, CharsFromIs
      <4>4. j \in 1 .. n + 1 /\ n + 1 - j <= k
        BY <2>1
      <4>5. c \in Int
        BY SMT, <4>2 DEF IsChar
      <4>6. ~Contains(f[j], Malformed)
        <5>1. PICK y \in Seq(Int) : y = f[j]
          BY <4>4
        <5>2. PICK z \in Seq(Int) : z = <<c>> \o y
          <6>1. <<c>> \in Seq(Int)
            BY <4>5
          <6>2. <<c>> \o y \in Seq(Int)
            BY <6>1, ConcatProperties
          <6> QED
            BY <6>2
        <5>3. Len(z) = Len(y) + 1 /\ \A l \in 1 .. Len(y) : z[l + 1] = y[l]
          BY <4>5, <5>2
        <5>4. ~Contains(z, Malformed)
          BY <2>1, <4>3, <5>1, <5>2
        <5>5. \A l \in 1 .. Len(z) : z[l] # Malformed
          BY <5>4 DEF Contains
        <5>6. \A l \in 1 .. Len(y) : y[l] # Malformed
          <6> TAKE l \in 1 .. Len(y)
          <6>1. l + 1 \in 1 .. Len(z)
            BY <5>3
          <6> QED
            BY <5>3, <5>5, <6>1
        <5> QED
          BY <5>1, <5>6 DEF Contains
      <4>7. IsText(f[j]) /\ FlattenSeq(Utf8Parts(f[j])) = Rest(b, j - 1)
        BY <1>3, <1>6, <4>4, <4>6
      <4>8. IsText(f[i]) /\ FlattenSeq(Utf8Parts(f[i])) = Utf8(c) \o Rest(b, j - 1)
        BY <4>2, <4>3, <4>7, TextFront
      <4>9. Utf8(c) \in Seq(Byte) /\ Len(Utf8(c)) = Utf8Len(c) /\ Utf8Len(c) \in 1 .. 4
        BY <4>2, Utf8Is
      <4>10. Rest(b, i - 1) = Utf8(c) \o Rest(b, (i - 1) + Len(Utf8(c)))
        BY <4>2, <4>9, RestHas
      <4>11. (i - 1) + Len(Utf8(c)) = j - 1
        BY <4>3, <4>9
      <4> QED
        BY <4>8, <4>10, <4>11
    <3> QED
      BY <3>1, <3>2, <3>3
  <2> QED
    BY <1>3, <2>1
<1>7. n \in S
  <2>1. \A k \in 0 .. n : k \in S
    BY <1>5, <1>6, Induct
  <2> QED
    BY <2>1
<1>8. 1 \in 1 .. n + 1 /\ n + 1 - 1 <= n
  OBVIOUS
<1>9. ~Contains(f[1], Malformed)
  BY <1>2 DEF IsUtf8, FromUtf8
<1>10. IsText(f[1]) /\ FlattenSeq(Utf8Parts(f[1])) = Rest(b, 1 - 1)
  BY <1>3, <1>7, <1>8, <1>9
<1>11. Rest(b, 1 - 1) = b
  <2>1. SubSeq(b, 1, Len(b)) = b
    BY SubSeqFull
  <2>2. (1 - 1) + 1 = 1
    OBVIOUS
  <2> QED
    BY <2>1, <2>2 DEF Rest
<1> QED
  BY <1>2, <1>10, <1>11 DEF FromUtf8

-----------------------------------------------------------------------------
(* Text in so many bytes.                                                *)

\* The first characters, encoded.
LEMMA EncodedIs ==
    ASSUME NEW s, IsText(s), NEW k \in 0 .. Len(s)
    PROVE  /\ s \in Seq(Int) /\ Len(s) \in Nat
           /\ Encoded(s, k) \in Seq(Byte)
           /\ IsLatin1(s) => Encoded(s, k) = SubSeq(s, 1, k) /\ Len(Encoded(s, k)) = k
           /\ ~IsLatin1(s) => Encoded(s, k) = Upto(Utf8Parts(s), k)
<1>1. /\ Utf8Parts(s) \in Seq(Seq(Byte)) /\ Len(Utf8Parts(s)) = Len(s)
      /\ s \in Seq(Int) /\ Len(s) \in Nat
      /\ \A i \in 1 .. Len(s) : Utf8Parts(s)[i] = Utf8(s[i]) /\ IsChar(s[i])
  BY Utf8PartsAre
<1>2. CASE IsLatin1(s)
  <2>1. Encoded(s, k) = SubSeq(s, 1, k)
    BY <1>2 DEF Encoded
  <2>2. ASSUME NEW i \in 1 .. Len(s) PROVE s[i] \in Byte
    <3>0. DOMAIN s = 1 .. Len(s)
      BY <1>1
    <3>1. s[i] <= 255
      BY <1>2, <3>0 DEF IsLatin1
    <3>2. IsChar(s[i])
      BY <1>1
    <3>3. PICK x : x = s[i]
      OBVIOUS
    <3>4. x \in Nat
      BY SMT, <3>2, <3>3 DEF IsChar
    <3>5. x <= 255
      BY <3>1, <3>3
    <3>6. x \in Byte
      BY <3>4, <3>5 DEF Byte
    <3> QED
      BY <3>3, <3>6
  <2>3. \A i \in 1 .. k : s[i] \in Byte
    BY <1>1, <2>2
  <2>4. SubSeq(s, 1, k) \in Seq(Byte) /\ Len(SubSeq(s, 1, k)) = k
    <3>1. k \in Int /\ k \in Nat
      BY <1>1
    <3>2. SubSeq(s, 1, k) \in Seq(Byte) /\ Len(SubSeq(s, 1, k)) = IF 1 <= k THEN k - 1 + 1 ELSE 0
      BY <2>3, <3>1, SubSeqProperties
    <3> QED
      BY <3>1, <3>2
  <2> QED
    BY <1>1, <1>2, <2>1, <2>4
<1>3. CASE ~IsLatin1(s)
  <2>1. Encoded(s, k) = FlattenSeq([i \in 1 .. k |-> Utf8(s[i])])
    BY <1>3 DEF Encoded
  <2>2. PICK Y : Y = Seq(Byte)
    OBVIOUS
  <2>3. PICK p \in Seq(Y) : p = Utf8Parts(s)
    BY <1>1, <2>2
  <2>4. PICK q : q = [i \in 1 .. k |-> Utf8(s[i])]
    OBVIOUS
  <2>5. k \in Nat /\ \A i \in 1 .. k : Utf8(s[i]) \in Y /\ p[i] = Utf8(s[i])
    <3>1. k \in Nat /\ \A i \in 1 .. k : i \in 1 .. Len(s)
      BY <1>1
    <3>2. \A i \in 1 .. k : Utf8(s[i]) \in Y
      BY <1>1, <2>2, <3>1, Utf8Is
    <3> QED
      BY <1>1, <2>3, <3>1, <3>2
  <2>6. q \in [1 .. k -> Y]
    BY <2>4, <2>5
  <2>7. q \in Seq(Y) /\ Len(q) = k
    BY <2>5, <2>6, FunctionToSeq
  <2>8. PICK r : r = SubSeq(p, 1, k)
    OBVIOUS
  <2>9. r \in Seq(Y) /\ Len(r) = k /\ \A i \in 1 .. k : r[i] = p[i]
    BY <1>1, <2>3, <2>8
  <2>10. \A i \in 1 .. k : q[i] = r[i]
    BY <2>4, <2>5, <2>9
  <2>11. q = r
    BY <2>7, <2>9, <2>10, SeqEqual
  <2>12. Encoded(s, k) = Upto(Utf8Parts(s), k)
    BY <2>1, <2>3, <2>4, <2>8, <2>11 DEF Upto
  <2>13. Upto(Utf8Parts(s), k) \in Seq(Byte)
    <3>1. k \in 0 .. Len(Utf8Parts(s))
      BY <1>1
    <3> QED
      BY <1>1, <3>1, Flattened
  <2> QED
    BY <1>1, <1>3, <2>12, <2>13
<1> QED
  BY <1>2, <1>3

\* One more character is one to four more bytes.
LEMMA EncodedGrows ==
    ASSUME NEW s, IsText(s)
    PROVE  /\ Encoded(s, 0) = << >>
           /\ \A k \in 1 .. Len(s) :
                Len(Encoded(s, k)) - Len(Encoded(s, k - 1)) \in 1 .. 4
<1>1. /\ Utf8Parts(s) \in Seq(Seq(Byte)) /\ Len(Utf8Parts(s)) = Len(s)
      /\ s \in Seq(Int) /\ Len(s) \in Nat
      /\ \A i \in 1 .. Len(s) : Utf8Parts(s)[i] = Utf8(s[i]) /\ IsChar(s[i])
  BY Utf8PartsAre
<1>2. 0 \in 0 .. Len(s) /\ \A k \in 1 .. Len(s) : k \in 0 .. Len(s) /\ k - 1 \in 0 .. Len(s)
  BY <1>1
<1>3. CASE IsLatin1(s)
  <2>1. \A k \in 0 .. Len(s) : Encoded(s, k) = SubSeq(s, 1, k) /\ Len(Encoded(s, k)) = k
    BY <1>3, EncodedIs
  <2>2. SubSeq(s, 1, 0) = << >>
    BY SubSeqEmpty
  <2>3. \A k \in 1 .. Len(s) : Len(Encoded(s, k)) = k /\ Len(Encoded(s, k - 1)) = k - 1
    BY <1>2, <2>1
  <2> QED
    BY <1>1, <1>2, <2>1, <2>2, <2>3
<1>4. CASE ~IsLatin1(s)
  <2>1. PICK p \in Seq(Seq(Byte)) : p = Utf8Parts(s)
    BY <1>1
  <2>2. \A k \in 0 .. Len(s) : Encoded(s, k) = Upto(p, k)
    BY <1>4, <2>1, EncodedIs
  <2>3. Upto(p, 0) = << >>
    BY Flattened
  <2>4. ASSUME NEW k \in 1 .. Len(s) PROVE Len(Encoded(s, k)) - Len(Encoded(s, k - 1)) \in 1 .. 4
    <3>1. Len(Upto(p, k)) = Len(Upto(p, k - 1)) + Len(p[k])
      <4>1. k \in 1 .. Len(p)
        BY <1>1, <2>1
      <4> QED
        BY <4>1, Flattened
    <3>2. Len(p[k]) \in 1 .. 4
      <4>1. IsChar(s[k]) /\ p[k] = Utf8(s[k])
        BY <1>1, <2>1
      <4> QED
        BY <4>1, Utf8Is
    <3>3. Len(Upto(p, k - 1)) \in Nat
      <4>1. k - 1 \in 0 .. Len(p)
        BY <1>1, <2>1
      <4>2. Upto(p, k - 1) \in Seq(Byte)
        BY <4>1, Flattened
      <4> QED
        BY <4>2
    <3>4. Encoded(s, k) = Upto(p, k) /\ Encoded(s, k - 1) = Upto(p, k - 1)
      BY <1>2, <2>2
    <3>5. PICK x \in Nat : x = Len(Upto(p, k - 1))
      BY <3>3
    <3>6. PICK y \in 1 .. 4 : y = Len(p[k])
      BY <3>2
    <3>7. Len(Upto(p, k)) = x + y
      BY <3>1, <3>5, <3>6
    <3>8. (x + y) - x \in 1 .. 4
      OBVIOUS
    <3> QED
      BY <3>4, <3>5, <3>7, <3>8
  <2> QED
    BY <1>2, <2>2, <2>3, <2>4
<1> QED
  BY <1>3, <1>4

\* More characters are more bytes, and no more than four for each.
LEMMA EncodedLengths ==
    ASSUME NEW s, IsText(s)
    PROVE  /\ \A k \in 0 .. Len(s) : Len(Encoded(s, k)) \in k .. 4 * k
           /\ \A j, k \in 0 .. Len(s) : j <= k => Len(Encoded(s, j)) <= Len(Encoded(s, k))
<1>1. PICK n \in Nat : n = Len(s)
  BY Utf8PartsAre
<1>2. PICK L : L = [k \in 0 .. n |-> Len(Encoded(s, k))]
  OBVIOUS
<1>3. L[0] = 0
  <2>1. Encoded(s, 0) = << >>
    BY EncodedGrows
  <2>2. 0 \in 0 .. n
    OBVIOUS
  <2> QED
    BY <1>2, <2>1, <2>2
<1>4. \A k \in 0 .. n : L[k] \in Nat
  <2>1. \A k \in 0 .. n : Encoded(s, k) \in Seq(Byte)
    BY <1>1, EncodedIs
  <2> QED
    BY <1>2, <2>1
<1>5. \A k \in 1 .. n : L[k] - L[k - 1] \in 1 .. 4
  <2> TAKE k \in 1 .. n
  <2>1. k \in 0 .. n /\ k - 1 \in 0 .. n
    OBVIOUS
  <2>2. Len(Encoded(s, k)) - Len(Encoded(s, k - 1)) \in 1 .. 4
    BY <1>1, EncodedGrows
  <2> QED
    BY <1>2, <2>1, <2>2
<1>6. \A k \in 0 .. n : L[k] \in k .. 4 * k /\ \A j \in 0 .. n : j <= k => L[j] <= L[k]
  <2>1. PICK S : S = {k \in 0 .. n : L[k] \in k .. 4 * k /\ \A j \in 0 .. n : j <= k => L[j] <= L[k]}
    OBVIOUS
  <2>2. 0 \in S
    <3>1. \A j \in 0 .. n : j <= 0 => j = 0
      OBVIOUS
    <3>2. L[0] \in 0 .. 4 * 0 /\ \A j \in 0 .. n : j <= 0 => L[j] <= L[0]
      BY <1>3, <3>1
    <3> QED
      BY <2>1, <3>2
  <2>3. ASSUME NEW k \in 0 .. n - 1, k \in S PROVE k + 1 \in S
    <3>1. k + 1 \in 1 .. n /\ (k + 1) - 1 = k /\ k + 1 \in 0 .. n /\ k \in 0 .. n
      OBVIOUS
    <3>2. L[k + 1] - L[k] \in 1 .. 4 /\ L[k] \in Nat /\ L[k + 1] \in Nat
      BY <1>4, <1>5, <3>1
    <3>3. L[k] \in k .. 4 * k /\ \A j \in 0 .. n : j <= k => L[j] <= L[k]
      BY <2>1, <2>3
    <3>4. L[k + 1] \in k + 1 .. 4 * (k + 1)
      BY <3>2, <3>3
    <3>5. ASSUME NEW j \in 0 .. n, j <= k + 1 PROVE L[j] <= L[k + 1]
      <4>1. CASE j = k + 1
        BY <3>2, <4>1
      <4>2. CASE j <= k
        <5>1. L[j] <= L[k] /\ L[j] \in Nat
          BY <1>4, <3>3, <4>2
        <5> QED
          BY <3>2, <5>1
      <4>3. j = k + 1 \/ j <= k
        BY <3>5
      <4> QED
        BY <4>1, <4>2, <4>3
    <3> QED
      BY <2>1, <3>1, <3>4, <3>5
  <2>4. \A k \in 0 .. n : k \in S
    BY <2>2, <2>3, Induct
  <2> QED
    BY <2>1, <2>4
<1> QED
  BY <1>1, <1>2, <1>6

\* The greatest of some numbers.
LEMMA Greatest ==
    ASSUME NEW n \in Nat, NEW T, T \subseteq 0 .. n, T # {}
    PROVE  \E x \in T : \A y \in T : y <= x
<1>1. PICK U : U = {n - x : x \in T}
  OBVIOUS
<1>2. U \subseteq Nat /\ U # {}
  <2>1. \A x \in T : n - x \in Nat
    <3> TAKE x \in T
    <3>1. x \in 0 .. n
      OBVIOUS
    <3> QED
      BY <3>1
  <2>2. PICK x \in T : TRUE
    OBVIOUS
  <2>3. n - x \in U
    BY <1>1, <2>2
  <2> QED
    BY <1>1, <2>1, <2>3
<1>3. PICK u \in U : \A v \in U : u <= v
  BY <1>2, Least
<1>4. PICK x \in T : u = n - x
  BY <1>1
<1>5. ASSUME NEW y \in T PROVE y <= x
  <2>1. n - y \in U
    BY <1>1
  <2>2. u <= n - y
    BY <1>3, <2>1
  <2>3. x \in 0 .. n /\ y \in 0 .. n
    OBVIOUS
  <2> QED
    BY <1>4, <2>2, <2>3
<1> QED
  BY <1>5

\* encode_text takes the characters that fit, and the next one does not.
LEMMA EncodeTextIs ==
    ASSUME NEW s, IsText(s), NEW max \in Nat
    PROVE  \E n \in 0 .. Len(s) :
              /\ EncodeText(s, max) = Encoded(s, n)
              /\ Len(Encoded(s, n)) <= max
              /\ n < Len(s) => Len(Encoded(s, n + 1)) > max
<1>1. PICK l \in Nat : l = Len(s)
  BY Utf8PartsAre
<1>2. PICK fits : fits = {k \in 0 .. l : Len(Encoded(s, k)) <= max}
  OBVIOUS
<1>3. 0 \in fits
  <2>1. Encoded(s, 0) = << >>
    BY EncodedGrows
  <2>2. Len(Encoded(s, 0)) = 0
    BY <2>1
  <2> QED
    BY <1>2, <2>2
<1>4. \E x \in fits : \A y \in fits : y <= x
  BY <1>2, <1>3, Greatest
<1>5. PICK n : n = CHOOSE k \in fits : \A j \in fits : j <= k
  OBVIOUS
<1>6. n \in fits /\ \A j \in fits : j <= n
  BY <1>4, <1>5
<1>7. EncodeText(s, max) = Encoded(s, n)
  BY <1>1, <1>2, <1>5 DEF EncodeText
<1>8. n \in 0 .. l /\ Len(Encoded(s, n)) <= max
  BY <1>2, <1>6
<1>9. ASSUME n < l PROVE Len(Encoded(s, n + 1)) > max
  <2>1. n + 1 \in 0 .. l /\ ~(n + 1 <= n)
    BY <1>8, <1>9
  <2>2. n + 1 \notin fits
    BY <1>6, <2>1
  <2>3. Encoded(s, n + 1) \in Seq(Byte)
    BY <1>1, <2>1, EncodedIs
  <2> QED
    BY <1>2, <2>1, <2>2, <2>3
<1> QED
  BY <1>1, <1>7, <1>8, <1>9

\* It takes all of a text that fits.
LEMMA EncodeTextFits ==
    ASSUME NEW s, IsText(s), NEW max \in Nat, Len(Encoded(s, Len(s))) <= max
    PROVE  EncodeText(s, max) = Encoded(s, Len(s))
<1>1. PICK l \in Nat : l = Len(s)
  BY Utf8PartsAre
<1>2. PICK n \in 0 .. l : /\ EncodeText(s, max) = Encoded(s, n)
                          /\ n < l => Len(Encoded(s, n + 1)) > max
  BY <1>1, EncodeTextIs
<1>3. n = l
  <2>1. SUFFICES ASSUME n < l PROVE FALSE
    BY <1>2
  <2>2. n + 1 \in 0 .. l /\ l \in 0 .. l /\ n + 1 <= l
    BY <2>1
  <2>3. Len(Encoded(s, n + 1)) <= Len(Encoded(s, l))
    BY <1>1, <2>2, EncodedLengths
  <2>4. Encoded(s, n + 1) \in Seq(Byte) /\ Encoded(s, l) \in Seq(Byte)
    BY <1>1, <2>2, EncodedIs
  <2>5. Len(Encoded(s, n + 1)) \in Nat /\ Len(Encoded(s, l)) \in Nat
    BY <2>4
  <2> QED
    BY <1>1, <1>2, <2>1, <2>3, <2>5
<1> QED
  BY <1>1, <1>2, <1>3

\* Without a limit, that is any text.
LEMMA EncodeAllIs ==
    ASSUME NEW s, IsText(s)
    PROVE  EncodeAll(s) = Encoded(s, Len(s)) /\ EncodeAll(s) \in Seq(Byte)
<1>1. PICK l \in Nat : l = Len(s)
  BY Utf8PartsAre
<1>2. l \in 0 .. l /\ 4 * l \in Nat
  OBVIOUS
<1>3. Len(Encoded(s, l)) <= 4 * l
  BY <1>1, <1>2, EncodedLengths
<1>4. EncodeText(s, 4 * l) = Encoded(s, l)
  BY <1>1, <1>2, <1>3, EncodeTextFits
<1>5. Encoded(s, l) \in Seq(Byte)
  BY <1>1, <1>2, EncodedIs
<1> QED
  BY <1>1, <1>4, <1>5 DEF EncodeAll

\* What is before the first NUL.
LEMMA BeforeNulIs ==
    ASSUME NEW E, NEW b \in Seq(E)
    PROVE  \E m \in 0 .. Len(b) :
              /\ BeforeNul(b) = SubSeq(b, 1, m)
              /\ \A i \in 1 .. m : b[i] # 0
              /\ m < Len(b) => b[m + 1] = 0
<1>1. PICK n \in Nat : n = Len(b)
  OBVIOUS
<1>2. DOMAIN b = 1 .. n
  BY <1>1
<1>3. CASE Contains(b, 0)
  <2>1. PICK T : T = {i \in 1 .. n : b[i] = 0}
    OBVIOUS
  <2>2. T # {}
    BY <1>1, <1>3, <2>1 DEF Contains
  <2>3. T \subseteq Nat
    BY <2>1
  <2>4. PICK x \in T : \A y \in T : x <= y
    BY <2>2, <2>3, Least
  <2>5. ASSUME NEW k \in 1 .. x - 1 PROVE b[k] # 0
    <3>1. x \in 1 .. n
      BY <2>1
    <3>2. k \in 1 .. n /\ ~(x <= k)
      BY <3>1
    <3> QED
      BY <2>1, <2>4, <3>2
  <2>6. \E i \in DOMAIN b : b[i] = 0 /\ 0 \notin {b[k] : k \in 1 .. i - 1}
    BY <1>2, <2>1, <2>4, <2>5
  <2>7. PICK i : i = CHOOSE j \in DOMAIN b : b[j] = 0 /\ 0 \notin {b[k] : k \in 1 .. j - 1}
    OBVIOUS
  <2>8. i \in 1 .. n /\ b[i] = 0 /\ \A k \in 1 .. i - 1 : b[k] # 0
    BY <1>2, <2>6, <2>7
  <2>9. BeforeNul(b) = SubSeq(b, 1, i - 1)
    BY <1>3, <2>7 DEF BeforeNul
  <2>10. i - 1 \in 0 .. n /\ (i - 1) + 1 = i
    BY <2>8
  <2> QED
    BY <1>1, <2>8, <2>9, <2>10
<1>4. CASE ~Contains(b, 0)
  <2>1. \A i \in 1 .. n : b[i] # 0
    BY <1>1, <1>4 DEF Contains
  <2>2. BeforeNul(b) = b
    BY <1>4 DEF BeforeNul
  <2>3. SubSeq(b, 1, n) = b
    BY <1>1
  <2>4. n \in 0 .. n /\ ~(n < n)
    OBVIOUS
  <2> QED
    BY <1>1, <2>1, <2>2, <2>3, <2>4
<1> QED
  BY <1>3, <1>4

\* There is one such place.
LEMMA BeforeNulAt ==
    ASSUME NEW E, NEW b \in Seq(E), NEW m \in 0 .. Len(b),
           \A i \in 1 .. m : b[i] # 0, m < Len(b) => b[m + 1] = 0
    PROVE  BeforeNul(b) = SubSeq(b, 1, m)
<1>1. PICK n \in Nat : n = Len(b)
  OBVIOUS
<1>2. PICK k \in 0 .. n : /\ BeforeNul(b) = SubSeq(b, 1, k)
                          /\ \A i \in 1 .. k : b[i] # 0
                          /\ k < n => b[k + 1] = 0
  BY <1>1, BeforeNulIs
<1>3. m \in 0 .. n
  BY <1>1
<1>4. ~(k < m)
  <2>1. SUFFICES ASSUME k < m PROVE FALSE
    OBVIOUS
  <2>2. k + 1 \in 1 .. m /\ k < n
    BY <1>3, <2>1
  <2> QED
    BY <1>2, <2>2
<1>5. ~(m < k)
  <2>1. SUFFICES ASSUME m < k PROVE FALSE
    OBVIOUS
  <2>2. m + 1 \in 1 .. k /\ m < n
    BY <1>3, <2>1
  <2> QED
    BY <1>1, <1>2, <2>2
<1>6. k = m
  BY <1>3, <1>4, <1>5
<1> QED
  BY <1>2, <1>6

\* It has no NUL, and is no longer.
LEMMA BeforeNulType ==
    ASSUME NEW E, NEW b \in Seq(E)
    PROVE  /\ BeforeNul(b) \in Seq(E) /\ Len(BeforeNul(b)) \in 0 .. Len(b)
           /\ \A i \in 1 .. Len(BeforeNul(b)) : BeforeNul(b)[i] # 0
<1>1. PICK n \in Nat : n = Len(b)
  OBVIOUS
<1>2. PICK m \in 0 .. n : BeforeNul(b) = SubSeq(b, 1, m) /\ \A i \in 1 .. m : b[i] # 0
  BY <1>1, BeforeNulIs
<1>3. SubSeq(b, 1, m) \in Seq(E) /\ Len(SubSeq(b, 1, m)) = m
      /\ \A i \in 1 .. m : SubSeq(b, 1, m)[i] = b[i]
  BY <1>1
<1> QED
  BY <1>1, <1>2, <1>3

\* Without a NUL it is all of it, and NULs behind it are not seen.
LEMMA BeforeNulNone ==
    ASSUME NEW E, NEW b \in Seq(E), \A i \in 1 .. Len(b) : b[i] # 0
    PROVE  BeforeNul(b) = b
<1>1. PICK n \in Nat : n = Len(b)
  OBVIOUS
<1>2. n \in 0 .. n /\ ~(n < n)
  OBVIOUS
<1>3. BeforeNul(b) = SubSeq(b, 1, n)
  BY <1>1, <1>2, BeforeNulAt
<1>4. SubSeq(b, 1, n) = b
  BY <1>1
<1> QED
  BY <1>3, <1>4

\* Padding is so many zero bytes.
LEMMA ZerosAre ==
    ASSUME NEW n \in Nat
    PROVE  Zeros(n) \in Seq(Byte) /\ Len(Zeros(n)) = n /\ \A i \in 1 .. n : Zeros(n)[i] = 0
<1>1. 0 \in Byte
  BY DEF Byte
<1>2. PICK z : z = [i \in 1 .. n |-> 0]
  OBVIOUS
<1>3. z \in [1 .. n -> Byte]
  BY <1>1, <1>2
<1>4. z \in Seq(Byte) /\ Len(z) = n
  BY <1>3, FunctionToSeq
<1> QED
  BY <1>2, <1>4 DEF Zeros

\* Padding does not change what is before the first NUL.
LEMMA BeforePadding ==
    ASSUME NEW b \in Seq(Byte), NEW z \in Nat
    PROVE  BeforeNul(b \o Zeros(z)) = BeforeNul(b)
<1>1. PICK n \in Nat : n = Len(b)
  OBVIOUS
<1>2. PICK m \in 0 .. n : /\ BeforeNul(b) = SubSeq(b, 1, m)
                          /\ \A i \in 1 .. m : b[i] # 0
                          /\ m < n => b[m + 1] = 0
  BY <1>1, BeforeNulIs
<1>3. PICK y \in Seq(Byte) : y = Zeros(z) /\ Len(y) = z /\ \A i \in 1 .. z : y[i] = 0
  BY ZerosAre
<1>4. PICK x \in Seq(Byte) : x = b \o y
  BY HasSides
<1>5. /\ Len(x) = n + z
      /\ \A i \in 1 .. n + z : x[i] = IF i <= n THEN b[i] ELSE y[i - n]
  <2>1. /\ Len(b \o y) = Len(b) + Len(y)
        /\ \A i \in 1 .. Len(b) + Len(y) : (b \o y)[i] = IF i <= Len(b) THEN b[i] ELSE y[i - Len(b)]
    BY ConcatProperties
  <2>2. Len(b) = n /\ Len(y) = z
    BY <1>1, <1>3
  <2> QED
    BY <1>4, <2>1, <2>2
<1>6. \A i \in 1 .. m : x[i] # 0
  <2> TAKE i \in 1 .. m
  <2>1. i \in 1 .. n + z /\ i <= n
    OBVIOUS
  <2> QED
    BY <1>2, <1>5, <2>1
<1>7. ASSUME m < n + z PROVE x[m + 1] = 0
  <2>1. m + 1 \in 1 .. n + z
    BY <1>7
  <2>2. CASE m < n
    BY <1>2, <1>5, <2>1, <2>2
  <2>3. CASE ~(m < n)
    <3>1. m = n /\ ~(m + 1 <= n) /\ (m + 1) - n = 1 /\ 1 \in 1 .. z
      BY <1>7, <2>3
    <3> QED
      BY <1>3, <1>5, <2>1, <3>1
  <2> QED
    BY <2>2, <2>3
<1>8. m \in 0 .. Len(x)
  BY <1>5
<1>9. BeforeNul(x) = SubSeq(x, 1, m)
  BY <1>5, <1>6, <1>7, <1>8, BeforeNulAt
<1>10. SubSeq(x, 1, m) = SubSeq(b, 1, m)
  <2>1. SubSeq(x, 1, m) \in Seq(Byte) /\ Len(SubSeq(x, 1, m)) = m
        /\ \A i \in 1 .. m : SubSeq(x, 1, m)[i] = x[i]
    BY <1>8
  <2>2. SubSeq(b, 1, m) \in Seq(Byte) /\ Len(SubSeq(b, 1, m)) = m
        /\ \A i \in 1 .. m : SubSeq(b, 1, m)[i] = b[i]
    BY <1>1
  <2>3. \A i \in 1 .. m : x[i] = b[i]
    <3> TAKE i \in 1 .. m
    <3>1. i \in 1 .. n + z /\ i <= n
      OBVIOUS
    <3> QED
      BY <1>5, <3>1
  <2> QED
    BY <2>1, <2>2, <2>3, SeqEqual
<1> QED
  BY <1>2, <1>3, <1>4, <1>9, <1>10

\* UTF-8 has at least a byte for every character, and a NUL for a NUL only.
LEMMA Utf8Lengths ==
    ASSUME NEW s, IsText(s)
    PROVE  \A k \in 0 .. Len(s) :
              /\ Upto(Utf8Parts(s), k) \in Seq(Byte)
              /\ k <= Len(Upto(Utf8Parts(s), k))
              /\ (\A i \in 1 .. k : s[i] # 0) =>
                    \A i \in 1 .. Len(Upto(Utf8Parts(s), k)) : Upto(Utf8Parts(s), k)[i] # 0
<1>1. PICK n \in Nat : n = Len(s)
  BY Utf8PartsAre
<1>2. PICK p \in Seq(Seq(Byte)) : p = Utf8Parts(s)
  BY Utf8PartsAre
<1>3. Len(p) = n /\ \A i \in 1 .. n : p[i] = Utf8(s[i]) /\ IsChar(s[i])
  BY <1>1, <1>2, Utf8PartsAre
<1>4. PICK S : S = {k \in 0 .. n :
              /\ k <= Len(Upto(p, k))
              /\ (\A i \in 1 .. k : s[i] # 0) => \A i \in 1 .. Len(Upto(p, k)) : Upto(p, k)[i] # 0}
  OBVIOUS
<1>5. \A k \in 0 .. n : Upto(p, k) \in Seq(Byte)
  BY <1>3, Flattened
<1>6. 0 \in S
  <2>1. Upto(p, 0) = << >>
    BY Flattened
  <2>2. Len(<< >>) = 0 /\ 1 .. 0 = {}
    OBVIOUS
  <2> QED
    BY <1>4, <2>1, <2>2
<1>7. ASSUME NEW k \in 0 .. n - 1, k \in S PROVE k + 1 \in S
  <2>1. k + 1 \in 1 .. n /\ (k + 1) - 1 = k /\ k + 1 \in 0 .. n /\ k \in 0 .. n
    OBVIOUS
  <2>2. PICK x \in Seq(Byte) : x = Upto(p, k)
    BY <1>5, <2>1
  <2>3. PICK y \in Seq(Byte) : y = Utf8(s[k + 1])
    BY <1>3, <2>1, Utf8Is
  <2>4. Upto(p, k + 1) = x \o y
    BY <1>3, <2>1, <2>2, <2>3, Flattened
  <2>5. Len(y) \in 1 .. 4 /\ (s[k + 1] # 0 => \A i \in 1 .. Len(y) : y[i] # 0)
    BY <1>3, <2>1, <2>3, Utf8Is
  <2>6. k <= Len(x) /\ ((\A i \in 1 .. k : s[i] # 0) => \A i \in 1 .. Len(x) : x[i] # 0)
    BY <1>4, <1>7, <2>2
  <2>7. PICK c \in Nat, d \in 1 .. 4 : c = Len(x) /\ d = Len(y)
    BY <2>5
  <2>8. /\ Len(x \o y) = c + d
        /\ \A i \in 1 .. c + d : (x \o y)[i] = IF i <= c THEN x[i] ELSE y[i - c]
    BY <2>7, ConcatProperties
  <2>9. k + 1 <= c + d
    <3>1. k <= c
      BY <2>6, <2>7
    <3>2. k \in Nat
      OBVIOUS
    <3> QED
      BY <3>1, <3>2
  <2>10. ASSUME \A i \in 1 .. k + 1 : s[i] # 0, NEW i \in 1 .. c + d PROVE (x \o y)[i] # 0
    <3>1. s[k + 1] # 0 /\ \A j \in 1 .. k : s[j] # 0
      <4>1. k + 1 \in 1 .. k + 1 /\ \A j \in 1 .. k : j \in 1 .. k + 1
        OBVIOUS
      <4> QED
        BY <2>10, <4>1
    <3>2. CASE i <= c
      <4>1. i \in 1 .. c
        BY <3>2
      <4> QED
        BY <2>6, <2>7, <2>8, <3>1, <3>2, <4>1
    <3>3. CASE ~(i <= c)
      <4>1. i - c \in 1 .. d
        BY <3>3
      <4> QED
        BY <2>5, <2>7, <2>8, <3>1, <3>3, <4>1
    <3> QED
      BY <3>2, <3>3
  <2> QED
    BY <1>4, <2>1, <2>4, <2>8, <2>9, <2>10
<1>8. \A k \in 0 .. n : k \in S
  BY <1>6, <1>7, Induct
<1> QED
  BY <1>1, <1>2, <1>4, <1>5, <1>8

\* Text is not malformed.
LEMMA TextIsUtf8 ==
    ASSUME NEW s, IsText(s)
    PROVE  ~Contains(s, Malformed)
<1>1. s \in Seq(Int) /\ DOMAIN s = 1 .. Len(s) /\ \A i \in DOMAIN s : IsChar(s[i])
  BY DEF IsText
<1>2. SUFFICES ASSUME NEW i \in 1 .. Len(s), s[i] = Malformed PROVE FALSE
  BY DEF Contains
<1>3. IsChar(s[i])
  BY <1>1
<1>4. s[i] \in Nat
  BY SMT, <1>3 DEF IsChar
<1> QED
  BY <1>2, <1>4 DEF Malformed

\* Bytes are text: every one of them is a character of Latin-1.
LEMMA BytesAreText ==
    ASSUME NEW b \in Seq(Byte)
    PROVE  IsText(b) /\ IsLatin1(b)
<1>1. \A x \in Byte : x \in Nat /\ x <= 255
  BY DEF Byte
<1>2. \A x \in Nat : x <= 255 => IsChar(x)
  BY SMT DEF IsChar
<1>3. DOMAIN b = 1 .. Len(b) /\ \A i \in DOMAIN b : b[i] \in Byte
  OBVIOUS
<1>4. b \in Seq(Int)
  <2>1. Byte \subseteq Int
    BY <1>1
  <2> QED
    BY <2>1, SeqMonotonic
<1> QED
  BY <1>1, <1>2, <1>3, <1>4 DEF IsText, IsLatin1

\* What decode_text returns: text without a NUL, that fits in the bytes it is
\* from, and is written as them if they are not UTF-8.
LEMMA DecodeTextIs ==
    ASSUME NEW raw \in Seq(Byte), NEW t, t = DecodeText(raw)
    PROVE  /\ IsText(t)
           /\ \A i \in 1 .. Len(t) : t[i] # 0
           /\ Len(EncodeAll(t)) <= Len(BeforeNul(raw))
           /\ ~IsUtf8(BeforeNul(raw)) => EncodeAll(t) = BeforeNul(raw)
<1>1. PICK f \in Seq(Byte) : f = BeforeNul(raw)
  BY BeforeNulType
<1>2. \A i \in 1 .. Len(f) : f[i] # 0
  BY <1>1, BeforeNulType
<1>3. t = IF IsUtf8(f) THEN FromUtf8(f) ELSE f
  BY <1>1 DEF DecodeText
<1>4. CASE IsUtf8(f)
  <2>1. IsText(t) /\ FlattenSeq(Utf8Parts(t)) = f
    BY <1>3, <1>4, Utf8IsWrittenBack
  <2>2. PICK n \in Nat : n = Len(t)
    BY <2>1, Utf8PartsAre
  <2>3. PICK p \in Seq(Seq(Byte)) : p = Utf8Parts(t) /\ Len(p) = n
    BY <2>1, <2>2, Utf8PartsAre
  <2>4. \A i \in 1 .. n : p[i] = Utf8(t[i])
    BY <2>1, <2>2, <2>3, Utf8PartsAre
  <2>5. Upto(p, n) = f
    BY <2>1, <2>3, Flattened
  <2>6. n \in 0 .. n
    OBVIOUS
  <2>7. n <= Len(f)
    BY <2>1, <2>2, <2>3, <2>5, <2>6, Utf8Lengths
  <2>8. EncodeAll(t) = Encoded(t, n)
    BY <2>1, <2>2, EncodeAllIs
  <2>9. Len(EncodeAll(t)) <= Len(f)
    <3>1. CASE IsLatin1(t)
      <4>1. Len(Encoded(t, n)) = n
        BY <2>1, <2>2, <2>6, <3>1, EncodedIs
      <4> QED
        BY <2>7, <2>8, <4>1
    <3>2. CASE ~IsLatin1(t)
      <4>1. Encoded(t, n) = f
        BY <2>1, <2>2, <2>3, <2>5, <2>6, <3>2, EncodedIs
      <4>2. Len(f) \in Nat
        OBVIOUS
      <4> QED
        BY <2>8, <4>1, <4>2
    <3> QED
      BY <3>1, <3>2
  <2>10. ASSUME NEW i \in 1 .. n, t[i] = 0 PROVE FALSE
    <3>1. Has(f, Len(Upto(p, i - 1)), p[i])
      BY <2>1, <2>3, HasPart
    <3>2. p[i] = <<0>>
      <4>1. Utf8(0) = <<0>>
        BY SMT DEF Utf8, Utf8Len
      <4> QED
        BY <2>4, <2>10, <4>1
    <3>3. PICK at : at = Len(Upto(p, i - 1))
      OBVIOUS
    <3>4. Len(<<0>>) = 1 /\ <<0>>[1] = 0 /\ 1 \in 1 .. 1
      OBVIOUS
    <3>5. at \in Nat /\ at + 1 <= Len(f) /\ f[at + 1] = 0
      BY <3>1, <3>2, <3>3, <3>4 DEF Has
    <3>6. at + 1 \in 1 .. Len(f)
      BY <3>5
    <3> QED
      BY <1>2, <3>5, <3>6
  <2> QED
    BY <1>1, <1>4, <2>1, <2>2, <2>9, <2>10
<1>5. CASE ~IsUtf8(f)
  <2>1. t = f
    BY <1>3, <1>5
  <2>2. IsText(f) /\ IsLatin1(f)
    BY BytesAreText
  <2>3. PICK n \in Nat : n = Len(f)
    OBVIOUS
  <2>4. n \in 0 .. n /\ SubSeq(f, 1, n) = f
    BY <2>3
  <2>5. EncodeAll(f) = f
    BY <2>2, <2>3, <2>4, EncodedIs, EncodeAllIs
  <2>6. Len(EncodeAll(t)) <= Len(f)
    BY <2>1, <2>3, <2>5
  <2> QED
    BY <1>1, <1>2, <2>1, <2>2, <2>5, <2>6
<1> QED
  BY <1>4, <1>5

\* The chars up to a NUL, in Latin-1 and in UTF-8.
LEMMA PrefixIsCut ==
    ASSUME NEW s, IsText(s), NEW w \in Nat, NEW n \in 0 .. Len(s), NEW m \in 0 .. n,
           n < Len(s) => Len(Encoded(s, n + 1)) > w,
           \A i \in 1 .. m : s[i] # 0, m < n => s[m + 1] = 0
    PROVE  CutOf(SubSeq(s, 1, m), s, w)
<1>1. PICK l \in Nat : l = Len(s)
  BY Utf8PartsAre
<1>2. s \in Seq(Int)
  BY DEF IsText
<1>3. PICK t \in Seq(Int) : t = SubSeq(s, 1, m) /\ Len(t) = m /\ \A i \in 1 .. m : t[i] = s[i]
  <2>1. m \in 0 .. l /\ \A i \in 1 .. m : i \in 1 .. l
    BY <1>1
  <2>2. SubSeq(s, 1, m) \in Seq(Int) /\ Len(SubSeq(s, 1, m)) = m
        /\ \A i \in 1 .. m : SubSeq(s, 1, m)[i] = s[i]
    BY <1>1, <1>2, <2>1
  <2> QED
    BY <2>2
<1>4. m \in 0 .. l /\ m \in Nat
  BY <1>1
<1>5. IsPrefix(t, s)
  <2>1. Len(t) <= Len(s) /\ SubSeq(s, 1, Len(t)) = SubSeq(t, 1, Len(t))
    <3>1. SubSeq(t, 1, m) = t
      BY <1>3, <1>4
    <3>2. m <= l
      BY <1>4
    <3> QED
      BY <1>1, <1>3, <3>1, <3>2
  <2> QED
    BY <2>1 DEF IsPrefix
<1>6. ~Contains(t, 0)
  BY <1>3 DEF Contains
<1>7. ASSUME t # s PROVE s[m + 1] = 0 \/ Len(Encoded(s, m + 1)) > w
  <2>1. CASE m < n
    BY <2>1
  <2>2. CASE m = n
    <3>1. m # l
      BY <1>1, <1>2, <1>3, <1>7
    <3>2. n < l
      BY <1>4, <2>2, <3>1
    <3> QED
      BY <1>1, <2>2, <3>2
  <2>3. m < n \/ m = n
    OBVIOUS
  <2> QED
    BY <2>1, <2>2, <2>3
<1> QED
  BY <1>3, <1>5, <1>6, <1>7 DEF CutOf

\* What is decoded of an encoded text.
LEMMA TextIsReadBack ==
    ASSUME NEW s, IsText(s), NEW w \in Nat, NEW z \in Nat
    PROVE  \/ CutOf(DecodeText(EncodeText(s, w) \o Zeros(z)), s, w)
           \/ IsLatin1(s) /\ Ambiguous(BeforeNul(EncodeText(s, w)))
<1>1. PICK l \in Nat : l = Len(s)
  BY Utf8PartsAre
<1>2. s \in Seq(Int)
  BY DEF IsText
<1>3. PICK n \in 0 .. l : /\ EncodeText(s, w) = Encoded(s, n)
                          /\ n < l => Len(Encoded(s, n + 1)) > w
  BY <1>1, EncodeTextIs
<1>4. PICK e \in Seq(Byte) : e = Encoded(s, n)
  BY <1>1, EncodedIs
<1>5. PICK f \in Seq(Byte) : f = BeforeNul(e)
  BY BeforeNulType
<1>6. DecodeText(e \o Zeros(z)) = IF IsUtf8(f) THEN FromUtf8(f) ELSE f
  <2>1. BeforeNul(e \o Zeros(z)) = f
    BY <1>5, BeforePadding
  <2> QED
    BY <2>1 DEF DecodeText
<1>7. CASE IsLatin1(s)
  <2>1. e = SubSeq(s, 1, n) /\ Len(e) = n
    BY <1>1, <1>4, <1>7, EncodedIs
  <2>2. PICK m \in 0 .. n : /\ f = SubSeq(e, 1, m)
                            /\ \A i \in 1 .. m : e[i] # 0
                            /\ m < n => e[m + 1] = 0
    BY <1>5, <2>1, BeforeNulIs
  <2>3. \A i \in 1 .. n : e[i] = s[i]
    BY <1>1, <1>2, <2>1
  <2>4. \A i \in 1 .. m : i \in 1 .. n
    OBVIOUS
  <2>5. m < n => m + 1 \in 1 .. n
    OBVIOUS
  <2>6. f = SubSeq(s, 1, m)
    <3>1. f \in Seq(Byte) /\ Len(f) = m /\ \A i \in 1 .. m : f[i] = e[i]
      BY <2>1, <2>2
    <3>2. PICK g : g = SubSeq(s, 1, m)
      OBVIOUS
    <3>3. m \in 0 .. l
      OBVIOUS
    <3>4. g \in Seq(Int) /\ Len(g) = m /\ \A i \in 1 .. m : g[i] = s[i]
      BY <1>1, <1>2, <3>2, <3>3
    <3>5. \A i \in 1 .. m : f[i] = g[i]
      BY <2>3, <2>4, <3>1, <3>4
    <3>6. f \in Seq(Int)
      BY BytesAreText DEF IsText
    <3> QED
      BY <3>1, <3>2, <3>4, <3>5, <3>6, SeqEqual
  <2>7. CutOf(SubSeq(s, 1, m), s, w)
    <3>1. (\A i \in 1 .. m : s[i] # 0) /\ (m < n => s[m + 1] = 0)
      BY <2>2, <2>3, <2>4, <2>5
    <3> QED
      BY <1>1, <1>3, <3>1, PrefixIsCut
  <2>8. CASE IsUtf8(f) /\ FromUtf8(f) # f
    <3>1. IsLatin1(f)
      BY BytesAreText
    <3>2. Ambiguous(f)
      BY <2>8, <3>1 DEF Ambiguous
    <3> QED
      BY <1>3, <1>4, <1>5, <1>7, <3>2
  <2>9. CASE ~(IsUtf8(f) /\ FromUtf8(f) # f)
    <3>1. DecodeText(e \o Zeros(z)) = f
      BY <1>6, <2>9
    <3> QED
      BY <1>3, <1>4, <2>6, <2>7, <3>1
  <2> QED
    BY <2>8, <2>9
<1>8. CASE ~IsLatin1(s)
  <2>1. PICK p \in Seq(Seq(Byte)) : p = Utf8Parts(s) /\ Len(p) = l
    BY <1>1, Utf8PartsAre
  <2>2. e = Upto(p, n)
    BY <1>1, <1>4, <1>8, <2>1, EncodedIs
  <2>3. PICK c : c = SubSeq(s, 1, n)
    OBVIOUS
  <2>4. c \in Seq(Int) /\ Len(c) = n /\ \A i \in 1 .. n : c[i] = s[i]
    BY <1>1, <1>2, <2>3
  <2>5. PICK q \in 0 .. n : /\ \A i \in 1 .. q : c[i] # 0
                            /\ q < n => c[q + 1] = 0
    BY <2>4, BeforeNulIs
  <2>6. \A i \in 1 .. q : s[i] # 0
    <3> TAKE i \in 1 .. q
    <3>1. i \in 1 .. n
      OBVIOUS
    <3> QED
      BY <2>4, <2>5, <3>1
  <2>7. ASSUME q < n PROVE s[q + 1] = 0
    <3>1. q + 1 \in 1 .. n
      BY <2>7
    <3> QED
      BY <2>4, <2>5, <2>7, <3>1
  <2>8. q \in 0 .. l /\ n \in 0 .. l
    OBVIOUS
  <2>9. PICK x \in Seq(Byte) : x = Upto(p, q)
    BY <2>1, <2>8, Flattened
  <2>10. \A i \in 1 .. Len(x) : x[i] # 0
    BY <1>1, <2>1, <2>6, <2>8, <2>9, Utf8Lengths
  <2>11. f = x
    <3>1. PICK r \in Seq(Seq(Byte)) : r = SubSeq(p, 1, n) /\ Len(r) = n /\ \A i \in 1 .. n : r[i] = p[i]
      <4>1. PICK Y : Y = Seq(Byte)
        OBVIOUS
      <4>2. p \in Seq(Y)
        BY <4>1
      <4>3. SubSeq(p, 1, n) \in Seq(Y) /\ Len(SubSeq(p, 1, n)) = n
            /\ \A i \in 1 .. n : SubSeq(p, 1, n)[i] = p[i]
        BY <2>1, <2>8, <4>2
      <4> QED
        BY <4>1, <4>3
    <3>2. e = FlattenSeq(r)
      BY <2>2, <3>1 DEF Upto
    <3>3. Upto(r, q) = x
      <4>1. PICK Y : Y = Seq(Byte)
        OBVIOUS
      <4>2. p \in Seq(Y) /\ r \in Seq(Y)
        BY <4>1
      <4>3. PICK u : u = SubSeq(p, 1, q)
        OBVIOUS
      <4>4. PICK v : v = SubSeq(r, 1, q)
        OBVIOUS
      <4>5. u \in Seq(Y) /\ Len(u) = q /\ \A i \in 1 .. q : u[i] = p[i]
        BY <2>1, <2>8, <4>2, <4>3
      <4>6. v \in Seq(Y) /\ Len(v) = q /\ \A i \in 1 .. q : v[i] = r[i]
        BY <3>1, <4>2, <4>4
      <4>7. \A i \in 1 .. q : i \in 1 .. n
        OBVIOUS
      <4>8. \A i \in 1 .. q : u[i] = v[i]
        BY <3>1, <4>5, <4>6, <4>7
      <4>9. u = v
        BY <4>5, <4>6, <4>8, SeqEqual
      <4> QED
        BY <2>9, <4>3, <4>4, <4>9 DEF Upto
    <3>4. Has(e, 0, x)
      BY <3>1, <3>2, <3>3, HasPart
    <3>5. PICK m \in Nat : m = Len(x)
      OBVIOUS
    <3>6. m \in 0 .. Len(e) /\ \A i \in 1 .. m : e[i] = x[i]
      <4>1. 0 + m <= Len(e) /\ \A i \in 1 .. m : e[0 + i] = x[i]
        BY <3>4, <3>5 DEF Has
      <4>2. \A i \in 1 .. m : 0 + i = i
        OBVIOUS
      <4> QED
        BY <4>1, <4>2
    <3>7. ASSUME m < Len(e) PROVE e[m + 1] = 0
      <4>1. CASE q < n
        <5>1. q + 1 \in 1 .. n /\ (q + 1) - 1 = q /\ q + 1 \in 1 .. l
          BY <4>1
        <5>2. Has(e, m, r[q + 1])
          BY <3>1, <3>2, <3>3, <3>5, <5>1, HasPart
        <5>3. r[q + 1] = Utf8(0)
          <6>1. r[q + 1] = p[q + 1]
            BY <3>1, <5>1
          <6>2. p[q + 1] = Utf8(s[q + 1])
            BY <1>1, <2>1, <5>1, Utf8PartsAre
          <6> QED
            BY <2>7, <4>1, <6>1, <6>2
        <5>4. Utf8(0) = <<0>>
          BY SMT DEF Utf8, Utf8Len
        <5>5. Len(<<0>>) = 1 /\ <<0>>[1] = 0 /\ 1 \in 1 .. 1
          OBVIOUS
        <5> QED
          BY <5>2, <5>3, <5>4, <5>5 DEF Has
      <4>2. CASE q = n
        <5>1. e = x
          BY <2>2, <2>9, <4>2
        <5> QED
          BY <3>5, <3>7, <5>1
      <4>3. q < n \/ q = n
        OBVIOUS
      <4> QED
        BY <4>1, <4>2, <4>3
    <3>8. \A i \in 1 .. m : e[i] # 0
      BY <2>10, <3>5, <3>6
    <3>9. f = SubSeq(e, 1, m)
      BY <1>5, <3>6, <3>7, <3>8, BeforeNulAt
    <3>10. SubSeq(e, 1, m) \in Seq(Byte) /\ Len(SubSeq(e, 1, m)) = m
           /\ \A i \in 1 .. m : SubSeq(e, 1, m)[i] = e[i]
      BY <3>6
    <3> QED
      BY <3>5, <3>6, <3>9, <3>10, SeqEqual
  <2>12. FromUtf8(f) = SubSeq(s, 1, q)
    BY <1>1, <2>1, <2>8, <2>9, <2>11, Utf8IsReadBack
  <2>13. IsUtf8(f)
    <3>1. PICK u : u = SubSeq(s, 1, q)
      OBVIOUS
    <3>2. u \in Seq(Int) /\ Len(u) = q /\ \A i \in 1 .. q : u[i] = s[i]
      BY <1>1, <1>2, <2>8, <3>1
    <3>3. DOMAIN u = 1 .. q /\ DOMAIN s = 1 .. l /\ \A i \in 1 .. q : i \in 1 .. l
      BY <1>1, <1>2, <2>8, <3>2
    <3>4. IsText(u)
      BY <3>2, <3>3 DEF IsText
    <3>5. ~Contains(u, Malformed)
      BY <3>4, TextIsUtf8
    <3> QED
      BY <2>12, <3>1, <3>5 DEF IsUtf8
  <2>14. CutOf(SubSeq(s, 1, q), s, w)
    BY <1>1, <1>3, <2>6, <2>7, PrefixIsCut
  <2> QED
    BY <1>3, <1>4, <1>6, <2>12, <2>13, <2>14
<1> QED
  BY <1>7, <1>8

\* Text that has no NUL and fits is read back as it is, unless it is ambiguous.
LEMMA TextIsStable ==
    ASSUME NEW t, IsText(t), \A i \in 1 .. Len(t) : t[i] # 0,
           NEW w \in Nat, Len(Encoded(t, Len(t))) <= w, NEW z \in Nat
    PROVE  DecodeText(EncodeText(t, w) \o Zeros(z)) = t \/ Ambiguous(t)
<1>1. PICK l \in Nat : l = Len(t)
  BY Utf8PartsAre
<1>2. t \in Seq(Int)
  BY DEF IsText
<1>3. EncodeText(t, w) = Encoded(t, l)
  BY <1>1, EncodeTextFits
<1>4. CASE CutOf(DecodeText(EncodeText(t, w) \o Zeros(z)), t, w)
  <2>1. PICK u : u = DecodeText(EncodeText(t, w) \o Zeros(z))
    OBVIOUS
  <2>2. IsPrefix(u, t) /\ (u # t => t[Len(u) + 1] = 0 \/ Len(Encoded(t, Len(u) + 1)) > w)
    BY <1>4, <2>1 DEF CutOf
  <2>3. IsText(u)
    <3>1. EncodeText(t, w) \in Seq(Byte)
      <4>1. l \in 0 .. Len(t)
        BY <1>1
      <4> QED
        BY <1>3, <4>1, EncodedIs
    <3>2. EncodeText(t, w) \o Zeros(z) \in Seq(Byte)
      BY <3>1, ZerosAre, HasSides
    <3> QED
      BY <2>1, <3>2, DecodeTextIs
  <2>4. PICK k \in Nat : k = Len(u) /\ u \in Seq(Int)
    BY <2>3, Utf8PartsAre
  <2>5. k <= l /\ SubSeq(t, 1, k) = SubSeq(u, 1, k)
    BY <1>1, <2>2, <2>4 DEF IsPrefix
  <2>6. SubSeq(u, 1, k) = u
    BY <2>4
  <2>7. CASE k = l
    <3>1. SubSeq(t, 1, l) = t
      BY <1>1, <1>2
    <3> QED
      BY <2>1, <2>5, <2>6, <2>7, <3>1
  <2>8. CASE k < l
    <3>1. k + 1 \in 1 .. l /\ k + 1 \in 0 .. l /\ l \in 0 .. l /\ k + 1 <= l
      BY <2>8
    <3>2. t[k + 1] # 0
      BY <1>1, <3>1
    <3>3. Len(Encoded(t, k + 1)) <= Len(Encoded(t, l))
      BY <1>1, <3>1, EncodedLengths
    <3>4. Encoded(t, k + 1) \in Seq(Byte) /\ Encoded(t, l) \in Seq(Byte)
      BY <1>1, <3>1, EncodedIs
    <3>5. Len(Encoded(t, k + 1)) \in Nat /\ Len(Encoded(t, l)) \in Nat
      BY <3>4
    <3>6. ~(Len(Encoded(t, k + 1)) > w)
      BY <1>1, <3>3, <3>5
    <3> QED
      BY <2>1, <2>2, <2>4, <3>2, <3>6
  <2> QED
    BY <2>5, <2>7, <2>8
<1>5. CASE IsLatin1(t) /\ Ambiguous(BeforeNul(EncodeText(t, w)))
  <2>1. l \in 0 .. Len(t)
    BY <1>1
  <2>2. EncodeText(t, w) = SubSeq(t, 1, l)
    BY <1>3, <1>5, <2>1, EncodedIs
  <2>3. SubSeq(t, 1, l) = t
    BY <1>1, <1>2
  <2>4. BeforeNul(t) = t
    BY <1>2, BeforeNulNone
  <2> QED
    BY <1>5, <2>2, <2>3, <2>4
<1> QED
  BY <1>4, <1>5, TextIsReadBack

-----------------------------------------------------------------------------
(* Numbers and sub-chunks.                                               *)

\* Bytes out of the middle, and up to the end.
LEMMA BytesAre ==
    ASSUME NEW E, NEW b \in Seq(E), NEW at \in Nat, NEW n \in Nat, at + n <= Len(b)
    PROVE  /\ Bytes(b, at, n) \in Seq(E) /\ Len(Bytes(b, at, n)) = n
           /\ \A i \in 1 .. n : Bytes(b, at, n)[i] = b[at + i]
<1>1. PICK l \in Nat : l = Len(b)
  OBVIOUS
<1>2. PICK y : y = SubSeq(b, at + 1, at + n)
  OBVIOUS
<1>3. \A i \in at + 1 .. at + n : b[i] \in E
  <2> TAKE i \in at + 1 .. at + n
  <2>1. i \in 1 .. l
    BY <1>1
  <2> QED
    BY <1>1, <2>1
<1>4. at + 1 \in Int /\ at + n \in Int
  OBVIOUS
<1>5. /\ y \in Seq(E)
      /\ Len(y) = IF at + 1 <= at + n THEN (at + n) - (at + 1) + 1 ELSE 0
      /\ \A i \in 1 .. (at + n) - (at + 1) + 1 : y[i] = b[(at + 1) + i - 1]
  BY <1>2, <1>3, <1>4, SubSeqProperties
<1>6. Len(y) = n
  BY <1>5
<1>7. ASSUME NEW i \in 1 .. n PROVE y[i] = b[at + i]
  <2>1. i \in 1 .. (at + n) - (at + 1) + 1 /\ (at + 1) + i - 1 = at + i
    OBVIOUS
  <2> QED
    BY <1>5, <2>1
<1> QED
  BY <1>2, <1>5, <1>6, <1>7 DEF Bytes

\* The rest is the bytes from there to the end.
LEMMA RestIs ==
    ASSUME NEW E, NEW b \in Seq(E), NEW at \in 0 .. Len(b)
    PROVE  /\ Rest(b, at) \in Seq(E) /\ Len(Rest(b, at)) = Len(b) - at
           /\ Rest(b, at) = Bytes(b, at, Len(b) - at)
<1>1. PICK l \in Nat : l = Len(b)
  OBVIOUS
<1>2. at \in Nat /\ l - at \in Nat /\ at + (l - at) = l
  BY <1>1
<1>3. Rest(b, at) = Bytes(b, at, l - at)
  BY <1>1, <1>2 DEF Rest, Bytes
<1> QED
  BY <1>1, <1>2, <1>3, BytesAre

\* A number is two bytes, and comes back out of them.
LEMMA NumberBytesAre ==
    ASSUME NEW n \in Nat
    PROVE  /\ NumberBytes(n) \in Seq(Byte) /\ Len(NumberBytes(n)) = 2
           /\ NumberBytes(n)[1] = n % 256 /\ NumberBytes(n)[2] = (n \div 256) % 256
<1>1. PICK x, y : x = n % 256 /\ y = (n \div 256) % 256
  OBVIOUS
<1>2. x \in 0 .. 255 /\ y \in 0 .. 255
  <2>1. n \div 256 \in Nat
    BY SMT
  <2> QED
    BY SMT, <1>1, <2>1
<1>3. x \in Byte /\ y \in Byte
  BY <1>2 DEF Byte
<1>4. <<x, y>> \in Seq(Byte) /\ Len(<<x, y>>) = 2
  BY <1>3
<1> QED
  BY <1>1, <1>4 DEF NumberBytes

\* The range of a u32.
LEMMA U32Is ==
    ASSUME NEW n
    PROVE  n \in U32 <=> n \in Nat /\ n <= 65535
<1>1. ASSUME n \in U32 PROVE n \in Nat /\ n <= 65535
  BY SMT, <1>1 DEF U32, U32Max
<1>2. ASSUME n \in Nat, n <= 65535 PROVE n \in U32
  <2>1. PICK m \in Nat : m = U32Max
    BY SMT DEF U32Max
  <2>2. n <= m
    BY SMT, <1>2, <2>1 DEF U32Max
  <2>3. n \in 0 .. m
    BY <1>2, <2>2
  <2> QED
    BY <2>1, <2>3 DEF U32
<1> QED
  BY <1>1, <1>2

\* A number is read from the bytes it was written as.
LEMMA NumberIsReadBack ==
    ASSUME NEW b \in Seq(Byte), NEW n \in U32, NEW at, Has(b, at, NumberBytes(n))
    PROVE  NumberAt(b, at) = n
<1>1. n \in Nat /\ n <= 65535
  BY U32Is
<1>2. PICK x, y : x = n % 256 /\ y = (n \div 256) % 256
  OBVIOUS
<1>3. x + 256 * y = n
  BY SMT, <1>1, <1>2
<1>4. PICK nb : nb = NumberBytes(n) /\ Len(nb) = 2 /\ nb[1] = x /\ nb[2] = y
  BY <1>1, <1>2, NumberBytesAre
<1>5. b[at + 1] = x /\ b[at + 2] = y
  <2>1. \A i \in 1 .. Len(nb) : b[at + i] = nb[i]
    BY <1>4 DEF Has
  <2>2. 1 \in 1 .. Len(nb) /\ 2 \in 1 .. Len(nb)
    BY <1>4
  <2> QED
    BY <1>4, <2>1, <2>2
<1> QED
  BY <1>3, <1>5 DEF NumberAt

\* Two bytes are a number.
LEMMA NumberAtIs ==
    ASSUME NEW b \in Seq(Byte), NEW at \in Nat, at + 2 <= Len(b)
    PROVE  NumberAt(b, at) \in U32
<1>1. at + 1 \in 1 .. Len(b) /\ at + 2 \in 1 .. Len(b)
  OBVIOUS
<1>2. PICK x, y \in Byte : x = b[at + 1] /\ y = b[at + 2]
  BY <1>1
<1>3. x \in Nat /\ x <= 255 /\ y \in Nat /\ y <= 255
  BY DEF Byte
<1>4. PICK z : z = x + 256 * y
  OBVIOUS
<1>5. z \in Nat /\ z <= 65535
  BY SMT, <1>3, <1>4
<1>6. NumberAt(b, at) = z
  BY <1>2, <1>4 DEF NumberAt
<1> QED
  BY <1>5, <1>6, U32Is

\* What a sub-chunk is decoded to.
Sub == {r \in [id : Id, data : Seq(Byte)] : Len(r.data) \in U32}

\* An id is two bytes.
LEMMA IdIs ==
    ASSUME NEW id
    PROVE  id \in Id <=> id \in Seq(Byte) /\ Len(id) = 2
<1>1. ASSUME id \in Id PROVE id \in Seq(Byte) /\ Len(id) = 2
  <2>1. id \in [1 .. 2 -> Byte]
    BY <1>1 DEF Id
  <2> QED
    BY <2>1, FunctionToSeq
<1>2. ASSUME id \in Seq(Byte), Len(id) = 2 PROVE id \in Id
  <2>1. DOMAIN id = 1 .. 2 /\ \A i \in 1 .. 2 : id[i] \in Byte
    BY <1>2
  <2>2. id = [i \in 1 .. 2 |-> id[i]]
    BY <1>2
  <2>3. id \in [1 .. 2 -> Byte]
    BY <2>1, <2>2
  <2> QED
    BY <2>3 DEF Id
<1> QED
  BY <1>1, <1>2

\* Its bytes.
LEMMA SubChunkIs ==
    ASSUME NEW id \in Id, NEW data \in Seq(Byte)
    PROVE  /\ SubChunk(id, data) \in Seq(Byte)
           /\ Len(SubChunk(id, data)) = 4 + Len(data) + (Len(data) % 2)
           /\ Len(data) % 2 \in 0 .. 1
           /\ Has(SubChunk(id, data), 0, id)
           /\ Has(SubChunk(id, data), 2, NumberBytes(Len(data)))
           /\ Has(SubChunk(id, data), 4, data)
<1>1. PICK n \in Nat : n = Len(data)
  OBVIOUS
<1>2. id \in Seq(Byte) /\ Len(id) = 2
  BY IdIs
<1>3. PICK nb \in Seq(Byte) : nb = NumberBytes(n) /\ Len(nb) = 2
  BY NumberBytesAre
<1>4. n % 2 \in 0 .. 1
  BY SMT
<1>5. PICK z \in Seq(Byte) : z = Zeros(n % 2) /\ Len(z) = n % 2
  <2>1. n % 2 \in Nat
    BY <1>4
  <2> QED
    BY <2>1, ZerosAre
<1>6. PICK u \in Seq(Byte) : u = id \o nb /\ Len(u) = 4 /\ Has(u, 0, id) /\ Has(u, 2, nb)
  <2>1. /\ id \o nb \in Seq(Byte) /\ Len(id \o nb) = Len(id) + Len(nb)
        /\ Has(id \o nb, 0, id) /\ Has(id \o nb, Len(id), nb)
    BY <1>2, HasSides
  <2>2. Len(id \o nb) = 4 /\ Has(id \o nb, 2, nb)
    BY <1>2, <1>3, <2>1
  <2> QED
    BY <2>1, <2>2
<1>61. PICK k \in 0 .. 1 : k = n % 2
  BY <1>4
<1>7. PICK v \in Seq(Byte) : v = u \o data /\ Len(v) = 4 + n /\ Has(v, 0, u) /\ Has(v, 4, data)
  <2>1. /\ u \o data \in Seq(Byte) /\ Len(u \o data) = Len(u) + Len(data)
        /\ Has(u \o data, 0, u) /\ Has(u \o data, Len(u), data)
    BY HasSides
  <2>2. Len(u \o data) = 4 + n /\ Has(u \o data, 4, data)
    BY <1>1, <1>6, <2>1
  <2> QED
    BY <2>1, <2>2
<1>8. PICK x \in Seq(Byte) : x = v \o z /\ Len(x) = 4 + n + k /\ Has(x, 0, v)
  <2>1. /\ v \o z \in Seq(Byte) /\ Len(v \o z) = Len(v) + Len(z)
        /\ Has(v \o z, 0, v)
    BY HasSides
  <2>2. Len(v \o z) = 4 + n + k
    BY <1>5, <1>61, <1>7, <2>1
  <2> QED
    BY <2>1, <2>2
<1>9. x = SubChunk(id, data)
  BY <1>1, <1>3, <1>5, <1>6, <1>7, <1>8 DEF SubChunk
<1>10. Has(x, 4, data)
  <2>1. Len(x) \in Nat /\ Len(v) \in Nat /\ Len(data) \in Nat
    OBVIOUS
  <2>2. Has(x, 0 + 4, data)
    BY <1>7, <1>8, <2>1, HasWithin
  <2> QED
    BY <2>2
<1>11. Has(x, 0, u)
  <2>1. Len(x) \in Nat /\ Len(v) \in Nat /\ Len(u) \in Nat
    OBVIOUS
  <2>2. Has(x, 0 + 0, u)
    BY <1>7, <1>8, <2>1, HasWithin
  <2> QED
    BY <2>2
<1>12. Has(x, 2, nb) /\ Has(x, 0, id)
  <2>1. Len(x) \in Nat /\ Len(u) \in Nat /\ Len(nb) \in Nat /\ Len(id) \in Nat
    BY <1>2
  <2>2. Has(x, 0 + 2, nb)
    BY <1>6, <1>11, <2>1, HasWithin
  <2>3. Has(x, 0 + 0, id)
    BY <1>6, <1>11, <2>1, HasWithin
  <2> QED
    BY <2>2, <2>3
<1> QED
  <2>1. NumberBytes(Len(data)) = nb
    BY <1>1, <1>3
  <2>2. Len(x) = 4 + Len(data) + (Len(data) % 2) /\ Len(data) % 2 \in 0 .. 1
    BY <1>1, <1>61, <1>8
  <2> QED
    BY <1>8, <1>9, <1>10, <1>12, <2>1, <2>2

-----------------------------------------------------------------------------
(* One round of the loop that reads sub-chunks.                            *)

SizeAt(b, pos) == NumberAt(b, pos + 2)

EndsAt(b, pos) == pos + 4 > Len(b) \/ pos + 4 + SizeAt(b, pos) > Len(b)

SubAt(b, pos) == [id |-> Bytes(b, pos, 2), data |-> Bytes(b, pos + 4, SizeAt(b, pos))]

NextAt(b, pos) == pos + 4 + SizeAt(b, pos) + (SizeAt(b, pos) % 2)

\* It reads a sub-chunk and goes on behind it.
LEMMA RoundIs ==
    ASSUME NEW b \in Seq(Byte), NEW pos \in Nat, ~EndsAt(b, pos)
    PROVE  /\ SubAt(b, pos) \in Sub
           /\ Len(SubAt(b, pos).data) + 4 <= Len(b)
           /\ NextAt(b, pos) \in pos + 1 .. Len(b) + 1
<1>1. PICK l \in Nat : l = Len(b)
  OBVIOUS
<1>2. pos + 4 <= l
  BY <1>1 DEF EndsAt
<1>3. PICK n \in U32 : n = SizeAt(b, pos)
  <2>1. pos + 2 \in Nat /\ (pos + 2) + 2 <= Len(b)
    BY <1>1, <1>2
  <2> QED
    BY <2>1, NumberAtIs DEF SizeAt
<1>4. n \in Nat
  BY U32Is
<1>5. pos + 4 + n <= l
  BY <1>1, <1>3, <1>4 DEF EndsAt
<1>6. Bytes(b, pos, 2) \in Id
  <2>1. pos + 2 <= Len(b)
    BY <1>1, <1>2
  <2>2. 2 \in Nat
    OBVIOUS
  <2>3. Bytes(b, pos, 2) \in Seq(Byte) /\ Len(Bytes(b, pos, 2)) = 2
    BY <2>1, <2>2, BytesAre
  <2> QED
    BY <2>3, IdIs
<1>7. Bytes(b, pos + 4, n) \in Seq(Byte) /\ Len(Bytes(b, pos + 4, n)) = n
  <2>1. pos + 4 \in Nat /\ (pos + 4) + n <= Len(b)
    BY <1>1, <1>4, <1>5
  <2> QED
    BY <1>4, <2>1, BytesAre
<1>8. SubAt(b, pos) \in Sub /\ Len(SubAt(b, pos).data) = n
  BY <1>3, <1>6, <1>7 DEF SubAt, Sub
<1>9. n % 2 \in 0 .. 1
  BY SMT, <1>4
<1>10. pos + 4 + n + (n % 2) \in pos + 1 .. l + 1
  <2>1. PICK k \in 0 .. 1 : k = n % 2
    BY <1>9
  <2>2. pos + 4 + n + k \in pos + 1 .. l + 1
    BY <1>4, <1>5
  <2>3. pos + 4 + n + (n % 2) = pos + 4 + n + k
    BY <2>1
  <2> QED
    BY <2>2, <2>3
<1>11. n + 4 <= l
  BY <1>4, <1>5
<1> QED
  BY <1>1, <1>3, <1>8, <1>10, <1>11 DEF NextAt

\* What the loop returns from every place.
LEMMA SubChunksFromIs ==
    ASSUME NEW b \in Seq(Byte)
    PROVE  \A pos \in 0 .. Len(b) + 1 :
              /\ SubChunksFrom(b)[pos] \in Seq(Sub)
              /\ \A i \in 1 .. Len(SubChunksFrom(b)[pos]) :
                    Len(SubChunksFrom(b)[pos][i].data) + 4 <= Len(b)
              /\ EndsAt(b, pos) => SubChunksFrom(b)[pos] = << >>
              /\ ~EndsAt(b, pos) => SubChunksFrom(b)[pos] =
                                        <<SubAt(b, pos)>> \o SubChunksFrom(b)[NextAt(b, pos)]
<1>1. PICK n \in Nat : n = Len(b)
  OBVIOUS
<1>2. PICK D, T, X, stop : /\ D = 0 .. n + 1
                           /\ T = {r \in Sub : Len(r.data) + 4 <= n}
                           /\ X = Seq(T)
                           /\ stop = {i \in D : EndsAt(b, i)}
  OBVIOUS
<1>3. \A i \in D : i \notin stop => SubAt(b, i) \in T /\ NextAt(b, i) \in i + 1 .. n + 1
  <2> SUFFICES ASSUME NEW i \in D, i \notin stop
               PROVE  SubAt(b, i) \in T /\ NextAt(b, i) \in i + 1 .. n + 1
    OBVIOUS
  <2>1. i \in Nat /\ ~EndsAt(b, i)
    BY <1>2
  <2> QED
    BY <1>1, <1>2, <2>1, RoundIs
<1>4. PICK base, rank, next, step :
        /\ base = [i \in D |-> << >>]
        /\ rank = [i \in D |-> n + 1 - i]
        /\ next = [i \in D |-> IF i \in stop THEN i ELSE NextAt(b, i)]
        /\ step = [i \in D |-> IF i \in stop THEN [x \in X |-> x]
                               ELSE [x \in X |-> <<SubAt(b, i)>> \o x]]
  OBVIOUS
<1>5. Recursive(D, X, n + 1, rank, stop, base, next, step)
  <2>1. base \in [D -> X]
    <3>1. << >> \in X
      BY <1>2
    <3> QED
      BY <1>4, <3>1
  <2>2. rank \in [D -> 0 .. n + 1]
    BY <1>2, <1>4
  <2>3. next \in [D -> D]
    <3>1. \A i \in D : i \notin stop => NextAt(b, i) \in D
      BY <1>2, <1>3
    <3> QED
      BY <1>4, <3>1
  <2>4. step \in [D -> [X -> X]]
    <3>1. \A i \in D : i \notin stop => [x \in X |-> <<SubAt(b, i)>> \o x] \in [X -> X]
      <4> SUFFICES ASSUME NEW i \in D, i \notin stop, NEW x \in X
                   PROVE  <<SubAt(b, i)>> \o x \in X
        OBVIOUS
      <4>1. PICK c \in T : c = SubAt(b, i)
        BY <1>3
      <4>2. <<c>> \o x \in Seq(T)
        BY <1>2
      <4> QED
        BY <1>2, <4>1, <4>2
    <3>2. [x \in X |-> x] \in [X -> X]
      OBVIOUS
    <3>3. \A i \in D : step[i] \in [X -> X]
      BY <1>4, <3>1, <3>2
    <3> QED
      BY <1>4, <3>3
  <2>5. \A i \in D : i \notin stop => rank[next[i]] < rank[i]
    <3> SUFFICES ASSUME NEW i \in D, i \notin stop PROVE rank[next[i]] < rank[i]
      OBVIOUS
    <3>1. PICK j \in i + 1 .. n + 1 : j = next[i]
      BY <1>3, <1>4
    <3>2. i \in 0 .. n + 1 /\ j \in D
      BY <1>2, <1>3, <2>3, <3>1
    <3>3. rank[j] = n + 1 - j /\ rank[i] = n + 1 - i
      BY <1>2, <1>4, <3>2
    <3> QED
      BY <3>1, <3>2, <3>3
  <2>6. n + 1 \in Nat
    OBVIOUS
  <2> QED
    BY <2>1, <2>2, <2>3, <2>4, <2>5, <2>6 DEF Recursive
<1>6. PICK f \in [D -> X] :
        \A i \in D : f[i] = (IF i \in stop THEN base[i] ELSE step[i][f[next[i]]])
  BY <1>5, Recursion
<1> DEFINE G(h, pos) == IF EndsAt(b, pos) THEN << >> ELSE <<SubAt(b, pos)>> \o h[NextAt(b, pos)]
           H(h) == [pos \in D |-> G(h, pos)]
           F(h) == [pos \in 0 .. Len(b) + 1 |->
                        IF pos + SubHeader > Len(b) THEN << >>
                        ELSE LET size == NumberAt(b, pos + 2)
                                 at == pos + SubHeader
                             IN  IF at + size > Len(b) THEN << >>
                                 ELSE <<[id |-> Bytes(b, pos, 2), data |-> Bytes(b, at, size)]>>
                                        \o h[at + size + (size % 2)]]
<1>7. ASSUME NEW g PROVE F(g) = H(g)
  <2>1. D = 0 .. Len(b) + 1
    BY <1>1, <1>2
  <2>2. ASSUME NEW pos \in D PROVE F(g)[pos] = G(g, pos)
    BY <2>1 DEF SubHeader, EndsAt, SizeAt, SubAt, NextAt
  <2>3. F(g) = [pos \in D |-> F(g)[pos]]
    BY <2>1
  <2> HIDE DEF F, G
  <2>4. [pos \in D |-> F(g)[pos]] = [pos \in D |-> G(g, pos)]
    BY <2>2
  <2> QED
    BY <2>3, <2>4
<1>8. f = H(f)
  <2>1. ASSUME NEW i \in D PROVE f[i] = G(f, i)
    <3>1. CASE EndsAt(b, i)
      <4>1. i \in stop
        BY <1>2, <3>1
      <4> QED
        BY <1>4, <1>6, <3>1, <4>1
    <3>2. CASE ~EndsAt(b, i)
      <4>1. i \notin stop
        BY <1>2, <3>2
      <4>2. next[i] = NextAt(b, i)
        BY <1>4, <4>1
      <4>3. next[i] \in D
        BY <1>2, <1>3, <4>1, <4>2
      <4>4. f[next[i]] \in X
        BY <1>6, <4>3
      <4>5. f[i] = step[i][f[next[i]]]
        BY <1>6, <4>1
      <4>6. f[i] = <<SubAt(b, i)>> \o f[NextAt(b, i)]
        BY <1>4, <4>1, <4>2, <4>4, <4>5
      <4> QED
        BY <3>2, <4>6
    <3> QED
      BY <3>1, <3>2
  <2> HIDE DEF G
  <2>2. f = [i \in D |-> f[i]]
    BY <1>6
  <2> QED
    BY <2>1, <2>2
<1>9. PICK g : g = SubChunksFrom(b)
  OBVIOUS
<1>10. g = CHOOSE h : h = F(h)
  BY <1>9 DEF SubChunksFrom
<1>11. g = H(g)
  <2> HIDE DEF F, H
  <2>1. f = F(f)
    BY <1>7, <1>8
  <2>2. g = F(g)
    BY <1>10, <2>1
  <2> QED
    BY <1>7, <2>2
<1>12. \A pos \in D : g[pos] = G(g, pos)
  <2> HIDE DEF G
  <2> QED
    BY <1>11
<1>13. \A i \in D : g[i] \in Seq(T)
  <2>1. PICK S : S = {k \in 0 .. n + 1 : \A i \in D : n + 1 - i <= k => g[i] \in Seq(T)}
    OBVIOUS
  <2>2. \A i \in D : i \in Nat
    BY <1>2
  <2>3. ASSUME NEW i \in D, EndsAt(b, i) PROVE g[i] \in Seq(T)
    <3>1. << >> \in Seq(T)
      OBVIOUS
    <3> QED
      BY <1>12, <2>3, <3>1
  <2>4. 0 \in S
    <3>1. ASSUME NEW i \in D, n + 1 - i <= 0 PROVE EndsAt(b, i)
      BY <1>1, <1>2, <3>1 DEF EndsAt
    <3> QED
      BY <2>1, <2>3, <3>1
  <2>5. ASSUME NEW k \in 0 .. (n + 1) - 1, k \in S PROVE k + 1 \in S
    <3>1. ASSUME NEW i \in D, n + 1 - i <= k + 1, ~EndsAt(b, i) PROVE g[i] \in Seq(T)
      <4>1. i \notin stop
        BY <1>2, <3>1
      <4>2. PICK j \in i + 1 .. n + 1 : j = NextAt(b, i)
        BY <1>3, <4>1
      <4>3. j \in D /\ n + 1 - j <= k
        BY <1>2, <2>2, <3>1, <4>2
      <4>4. PICK y \in Seq(T) : y = g[j]
        BY <2>1, <2>5, <4>3
      <4>5. PICK c \in T : c = SubAt(b, i)
        BY <1>3, <4>1
      <4>6. <<c>> \o y \in Seq(T)
        OBVIOUS
      <4> QED
        BY <1>12, <3>1, <4>2, <4>4, <4>5, <4>6
    <3>2. k + 1 \in 0 .. n + 1
      OBVIOUS
    <3> QED
      BY <2>1, <2>3, <3>1, <3>2
  <2>6. n + 1 \in Nat
    OBVIOUS
  <2>7. \A k \in 0 .. n + 1 : k \in S
    BY <2>4, <2>5, <2>6, Induct
  <2>8. n + 1 \in S /\ \A i \in D : n + 1 - i <= n + 1
    BY <1>2, <2>7
  <2> QED
    BY <2>1, <2>8
<1>14. ASSUME NEW i \in D
       PROVE  g[i] \in Seq(Sub) /\ \A j \in 1 .. Len(g[i]) : Len(g[i][j].data) + 4 <= Len(b)
  <2>1. PICK y \in Seq(T) : y = g[i]
    BY <1>13
  <2>2. T \subseteq Sub
    BY <1>2
  <2>3. y \in Seq(Sub)
    BY <2>2, SeqMonotonic
  <2>4. \A j \in 1 .. Len(y) : y[j] \in T
    OBVIOUS
  <2>5. \A j \in 1 .. Len(y) : Len(y[j].data) + 4 <= n
    BY <1>2, <2>4
  <2> QED
    BY <1>1, <2>1, <2>3, <2>5
<1>15. D = 0 .. Len(b) + 1
  BY <1>1, <1>2
<1> QED
  BY <1>9, <1>12, <1>14, <1>15

\* Sub-chunks: their ids and sizes, and that none is longer than the body.
LEMMA SubChunksAre ==
    ASSUME NEW b \in Seq(Byte), Len(b) >= 2
    PROVE  /\ SubChunks(b) \in Seq(Sub)
           /\ \A i \in 1 .. Len(SubChunks(b)) : Len(SubChunks(b)[i].data) + 4 <= Len(b)
<1>1. 2 \in 0 .. Len(b) + 1
  OBVIOUS
<1> QED
  BY <1>1, SubChunksFromIs DEF SubChunks

\* An element and what is behind it.
LEMMA FrontOfRest ==
    ASSUME NEW E, NEW s \in Seq(E), NEW i \in 1 .. Len(s)
    PROVE  <<s[i]>> \o SubSeq(s, i + 1, Len(s)) = SubSeq(s, i, Len(s))
<1>1. PICK n \in Nat : n = Len(s)
  OBVIOUS
<1>2. i \in 1 .. n /\ i + 1 \in Int /\ i \in Int /\ n \in Int
  BY <1>1
<1>3. PICK x, y : x = SubSeq(s, i + 1, n) /\ y = SubSeq(s, i, n)
  OBVIOUS
<1>4. /\ y \in Seq(E) /\ Len(y) = n - i + 1
      /\ \A k \in 1 .. n - i + 1 : y[k] = s[i + k - 1]
  <2>1. \A k \in i .. n : s[k] \in E
    BY <1>1, <1>2
  <2>2. /\ y \in Seq(E)
        /\ Len(y) = IF i <= n THEN n - i + 1 ELSE 0
        /\ \A k \in 1 .. n - i + 1 : y[k] = s[i + k - 1]
    BY <1>2, <1>3, <2>1, SubSeqProperties
  <2> QED
    BY <1>2, <2>2
<1>5. /\ x \in Seq(E) /\ Len(x) = n - i
      /\ \A k \in 1 .. n - i : x[k] = s[i + k]
  <2>0. PICK m \in Int : m = i + 1
    BY <1>2
  <2>1. \A k \in m .. n : s[k] \in E
    BY <1>1, <1>2, <2>0
  <2>2. /\ x \in Seq(E)
        /\ Len(x) = IF m <= n THEN n - m + 1 ELSE 0
        /\ \A k \in 1 .. n - m + 1 : x[k] = s[m + k - 1]
    BY <1>2, <1>3, <2>0, <2>1, SubSeqProperties
  <2>3. \A k \in 1 .. n - i : k \in 1 .. n - m + 1 /\ m + k - 1 = i + k
    BY <1>2, <2>0
  <2>4. Len(x) = n - i
    BY <1>2, <2>0, <2>2
  <2> QED
    BY <2>2, <2>3, <2>4
<1>6. PICK e \in E : e = s[i]
  BY <1>2
<1>7. PICK z \in Seq(E) : z = <<e>> \o x
  <2>1. <<e>> \in Seq(E)
    OBVIOUS
  <2> QED
    BY <1>5, <2>1, ConcatProperties
<1>8. Len(z) = n - i + 1 /\ z[1] = e /\ \A k \in 2 .. n - i + 1 : z[k] = x[k - 1]
  <2>1. /\ Len(<<e>> \o x) = Len(<<e>>) + Len(x)
        /\ \A k \in 1 .. Len(<<e>>) + Len(x) :
                (<<e>> \o x)[k] = IF k <= Len(<<e>>) THEN <<e>>[k] ELSE x[k - Len(<<e>>)]
    <3>1. <<e>> \in Seq(E)
      OBVIOUS
    <3> QED
      BY <3>1, ConcatProperties
  <2>2. Len(<<e>>) = 1 /\ <<e>>[1] = e
    OBVIOUS
  <2>3. n - i \in Nat /\ 1 + (n - i) = n - i + 1
    BY <1>2
  <2> QED
    BY <1>5, <1>7, <2>1, <2>2, <2>3
<1>9. ASSUME NEW k \in 1 .. n - i + 1 PROVE z[k] = y[k]
  <2>1. CASE k = 1
    <3>1. i + k - 1 = i
      BY <1>2, <2>1
    <3> QED
      BY <1>4, <1>6, <1>8, <2>1, <3>1
  <2>2. CASE k # 1
    <3>1. k \in 2 .. n - i + 1 /\ k - 1 \in 1 .. n - i /\ i + (k - 1) = i + k - 1
      BY <1>2, <2>2
    <3> QED
      BY <1>4, <1>5, <1>8, <3>1
  <2> QED
    BY <2>1, <2>2
<1>10. z = y
  <2>1. Len(z) = Len(y)
    BY <1>4, <1>8
  <2>2. \A k \in 1 .. Len(z) : z[k] = y[k]
    BY <1>8, <1>9
  <2> QED
    BY <1>4, <2>1, <2>2, SeqEqual
<1> QED
  BY <1>1, <1>3, <1>6, <1>7, <1>10

\* The sub-chunks of a list.
PartsOf(subs) == [i \in 1 .. Len(subs) |-> SubChunk(subs[i].id, subs[i].data)]

\* A body made of sub-chunks is read back as them.
LEMMA SubChunksAreReadBack ==
    ASSUME NEW subs \in Seq(Sub), NEW form \in Id
    PROVE  /\ PartsOf(subs) \in Seq(Seq(Byte))
           /\ form \o FlattenSeq(PartsOf(subs)) \in Seq(Byte)
           /\ HasForm(form \o FlattenSeq(PartsOf(subs)), form)
           /\ SubChunks(form \o FlattenSeq(PartsOf(subs))) = subs
<1>1. PICK n \in Nat : n = Len(subs)
  OBVIOUS
<1>2. \A i \in 1 .. n : /\ subs[i].id \in Id /\ subs[i].data \in Seq(Byte)
                        /\ Len(subs[i].data) \in U32
                        /\ subs[i] = [id |-> subs[i].id, data |-> subs[i].data]
  <2> TAKE i \in 1 .. n
  <2>1. subs[i] \in Sub
    BY <1>1
  <2>2. PICK r : r = subs[i]
    OBVIOUS
  <2>3. r \in [id : Id, data : Seq(Byte)] /\ Len(r.data) \in U32
    BY <2>1, <2>2 DEF Sub
  <2> QED
    BY <2>2, <2>3
<1>3. PICK Y : Y = Seq(Byte)
  OBVIOUS
<1>4. PICK p : p = PartsOf(subs)
  OBVIOUS
<1>5. p \in Seq(Y) /\ Len(p) = n /\ \A i \in 1 .. n : p[i] = SubChunk(subs[i].id, subs[i].data)
  <2>1. p = [i \in 1 .. n |-> SubChunk(subs[i].id, subs[i].data)]
    BY <1>1, <1>4 DEF PartsOf
  <2>2. \A i \in 1 .. n : SubChunk(subs[i].id, subs[i].data) \in Y
    BY <1>2, <1>3, SubChunkIs
  <2>3. p \in [1 .. n -> Y]
    BY <2>1, <2>2
  <2> QED
    BY <2>1, <2>3, FunctionToSeq
<1>6. p \in Seq(Seq(Byte))
  BY <1>3, <1>5
<1>7. PICK x \in Seq(Byte) : x = FlattenSeq(p)
  BY <1>6, Flattened
<1>8. form \in Seq(Byte) /\ Len(form) = 2
  BY IdIs
<1>9. PICK b \in Seq(Byte) : /\ b = form \o x /\ Len(b) = 2 + Len(x)
                             /\ Has(b, 0, form) /\ Has(b, 2, x)
  <2>1. /\ form \o x \in Seq(Byte) /\ Len(form \o x) = Len(form) + Len(x)
        /\ Has(form \o x, 0, form) /\ Has(form \o x, Len(form), x)
    BY <1>8, HasSides
  <2>2. Len(form \o x) = 2 + Len(x) /\ Has(form \o x, 2, x)
    BY <1>8, <2>1
  <2> QED
    BY <2>1, <2>2
<1>10. HasForm(b, form)
  <2>1. Bytes(b, 0, Len(form)) = form
    BY <1>8, <1>9, HasBytes
  <2>2. Len(b) >= 2
    BY <1>9
  <2> QED
    BY <1>8, <2>1, <2>2 DEF HasForm
<1>11. PICK g : g = SubChunksFrom(b)
  OBVIOUS
<1>12. \A k \in 0 .. n : Upto(p, k) \in Seq(Byte)
  BY <1>5, <1>6, Flattened
<1>13. ASSUME NEW i \in 1 .. n
       PROVE  LET pos == 2 + Len(Upto(p, i - 1))
              IN  /\ pos \in 0 .. Len(b) + 1
                  /\ g[pos] = <<subs[i]>> \o g[2 + Len(Upto(p, i))]
  <2>1. PICK id \in Id, data \in Seq(Byte) : subs[i] = [id |-> id, data |-> data]
    BY <1>2
  <2>2. subs[i].id = id /\ subs[i].data = data
    BY <2>1
  <2>3. Len(data) \in U32
    BY <1>2, <2>2
  <2>4. PICK s \in Nat : s = Len(data)
    OBVIOUS
  <2>5. PICK k \in 0 .. 1 : k = s % 2
    BY <2>2, <2>4, SubChunkIs
  <2>6. PICK q \in Seq(Byte) : /\ q = p[i] /\ Len(q) = 4 + s + k
                               /\ Has(q, 0, id) /\ Has(q, 2, NumberBytes(s)) /\ Has(q, 4, data)
    <3>1. p[i] = SubChunk(id, data)
      BY <1>5, <2>2
    <3>2. Len(SubChunk(id, data)) = 4 + s + k
      BY <2>4, <2>5, SubChunkIs
    <3> QED
      BY <2>4, <3>1, <3>2, SubChunkIs
  <2>7. i - 1 \in 0 .. n /\ i \in 0 .. n
    OBVIOUS
  <2>8. PICK u \in Nat : u = Len(Upto(p, i - 1))
    BY <1>12, <2>7
  <2>9. Len(Upto(p, i)) = u + (4 + s + k)
    <3>1. Len(Upto(p, i)) = Len(Upto(p, i - 1)) + Len(p[i])
      BY <1>5, <1>6, Flattened
    <3> QED
      BY <2>6, <2>8, <3>1
  <2>10. Has(x, u, q)
    BY <1>5, <1>6, <1>7, <2>6, <2>8, HasPart
  <2>11. Len(b) \in Nat /\ Len(x) \in Nat /\ Len(q) \in Nat /\ Len(id) \in Nat /\ Len(data) \in Nat
         /\ id \in Seq(Byte) /\ Len(id) = 2
    BY IdIs
  <2>12. Has(b, 2 + u, q)
    BY <1>9, <2>10, <2>11, HasWithin
  <2>13. PICK pos \in Nat : pos = 2 + u
    OBVIOUS
  <2>14. Has(b, pos, id) /\ Has(b, pos + 2, NumberBytes(s)) /\ Has(b, pos + 4, data)
    <3>1. Len(NumberBytes(s)) \in Nat
      BY NumberBytesAre
    <3>2. Has(b, pos + 0, id)
      BY <2>6, <2>11, <2>12, <2>13, HasWithin
    <3>3. Has(b, pos + 2, NumberBytes(s))
      BY <2>6, <2>11, <2>12, <2>13, <3>1, HasWithin
    <3>4. Has(b, pos + 4, data)
      <4>1. Has(q, 4, data) /\ Has(b, pos, q)
        BY <2>6, <2>12, <2>13
      <4> QED
        BY <2>11, <4>1, HasWithin
    <3> QED
      BY <3>2, <3>3, <3>4
  <2>15. SizeAt(b, pos) = s
    BY <2>3, <2>4, <2>14, NumberIsReadBack DEF SizeAt
  <2>16. pos + (4 + s + k) <= Len(b)
    BY <2>6, <2>12, <2>13 DEF Has
  <2>17. ~EndsAt(b, pos)
    <3>1. ~(pos + 4 > Len(b)) /\ ~(pos + 4 + s > Len(b))
      BY <2>16
    <3> QED
      BY <2>15, <3>1 DEF EndsAt
  <2>18. SubAt(b, pos) = subs[i]
    <3>1. Bytes(b, pos, 2) = id
      BY <2>11, <2>14, HasBytes
    <3>2. Bytes(b, pos + 4, s) = data
      BY <2>4, <2>14, HasBytes
    <3> QED
      BY <2>1, <2>15, <3>1, <3>2 DEF SubAt
  <2>19. NextAt(b, pos) = 2 + Len(Upto(p, i))
    <3>1. NextAt(b, pos) = pos + 4 + s + k
      BY <2>5, <2>15 DEF NextAt
    <3> QED
      BY <2>9, <2>13, <3>1
  <2>20. pos \in 0 .. Len(b) + 1
    BY <2>16
  <2>21. g[pos] = <<subs[i]>> \o g[2 + Len(Upto(p, i))]
    BY <1>11, <2>17, <2>18, <2>19, <2>20, SubChunksFromIs
  <2> QED
    BY <2>8, <2>13, <2>20, <2>21
<1>14. g[2 + Len(Upto(p, n))] = << >>
  <2>1. Upto(p, n) = x
    BY <1>5, <1>6, <1>7, Flattened
  <2>2. 2 + Len(x) \in 0 .. Len(b) + 1 /\ 2 + Len(x) + 4 > Len(b)
    BY <1>9
  <2>3. EndsAt(b, 2 + Len(x))
    BY <2>2 DEF EndsAt
  <2> QED
    BY <1>11, <2>1, <2>2, <2>3, SubChunksFromIs
<1>15. \A i \in 0 .. n : g[2 + Len(Upto(p, n - i))] = SubSeq(subs, (n - i) + 1, n)
  <2>1. PICK S : S = {i \in 0 .. n : g[2 + Len(Upto(p, n - i))] = SubSeq(subs, (n - i) + 1, n)}
    OBVIOUS
  <2>2. 0 \in S
    <3>1. SubSeq(subs, n + 1, n) = << >>
      BY SubSeqEmpty
    <3>2. n - 0 = n /\ 0 \in 0 .. n
      OBVIOUS
    <3> QED
      BY <1>14, <2>1, <3>1, <3>2
  <2>3. ASSUME NEW k \in 0 .. n - 1, k \in S PROVE k + 1 \in S
    <3>1. PICK i \in 1 .. n : i = n - k
      OBVIOUS
    <3>2. n - (k + 1) = i - 1 /\ (i - 1) + 1 = i /\ k + 1 \in 0 .. n
      BY <3>1
    <3>3. g[2 + Len(Upto(p, i))] = SubSeq(subs, i + 1, n)
      BY <2>1, <2>3, <3>1
    <3>4. g[2 + Len(Upto(p, i - 1))] = <<subs[i]>> \o g[2 + Len(Upto(p, i))]
      BY <1>13
    <3>5. <<subs[i]>> \o SubSeq(subs, i + 1, n) = SubSeq(subs, i, n)
      BY <1>1, FrontOfRest
    <3>6. g[2 + Len(Upto(p, i - 1))] = SubSeq(subs, i, n)
      BY <3>3, <3>4, <3>5
    <3> QED
      BY <2>1, <3>2, <3>6
  <2>4. \A k \in 0 .. n : k \in S
    BY <2>2, <2>3, Induct
  <2> QED
    BY <2>1, <2>4
<1>16. g[2] = subs
  <2>1. n \in 0 .. n /\ n - n = 0 /\ 0 + 1 = 1
    OBVIOUS
  <2>2. Upto(p, 0) = << >> /\ 2 + Len(<< >>) = 2
    <3>1. Upto(p, 0) = << >>
      BY <1>6, Flattened
    <3>2. 2 + Len(<< >>) = 2
      OBVIOUS
    <3> QED
      BY <3>1, <3>2
  <2>3. SubSeq(subs, 1, n) = subs
    BY <1>1
  <2>4. g[2 + Len(Upto(p, n - n))] = SubSeq(subs, (n - n) + 1, n)
    BY <1>15, <2>1
  <2> QED
    BY <2>1, <2>2, <2>3, <2>4
<1> QED
  BY <1>4, <1>6, <1>7, <1>9, <1>10, <1>11, <1>16 DEF SubChunks

-----------------------------------------------------------------------------
(* The tags of an InfoList.                                              *)

\* A text as decode_text returns it: no NUL in it, and no longer than its field.
Clean(s) == /\ \A i \in 1 .. Len(s.text) : s.text[i] # 0
            /\ Len(EncodeAll(s.text)) <= s.width

\* A value as from_bytes returns it.
Decoded(k, v) == \A i \in DOMAIN TextsOf(k, v) : Clean(TextsOf(k, v)[i])

Readable(k, r) == r = None \/ (r = Some(r[1]) /\ IsValue(k, r[1]) /\ Decoded(k, r[1]))

\* What becomes of a value that is written and read.
ReadBack(k, v, w) ==
    /\ Untexted(k, w) = Untexted(k, v)
    /\ \A i \in DOMAIN TextsOf(k, v) : \E z \in Nat :
            TextsOf(k, w)[i].text = DecodeText(EncodeText(TextsOf(k, v)[i].text, TextsOf(k, v)[i].width) \o Zeros(z))

\* A text without a limit has enough room.
LEMMA UnlimitedIs ==
    ASSUME NEW t, IsText(t)
    PROVE  /\ 4 * Len(t) \in Nat /\ Len(EncodeAll(t)) <= 4 * Len(t)
           /\ (\A i \in 1 .. Len(t) : t[i] # 0) => Clean(Unlimited(t))
<1>1. PICK l \in Nat : l = Len(t)
  BY Utf8PartsAre
<1>2. l \in 0 .. l /\ 4 * l \in Nat
  OBVIOUS
<1>3. Len(Encoded(t, l)) \in l .. 4 * l
  BY <1>1, <1>2, EncodedLengths
<1>4. EncodeAll(t) = Encoded(t, l)
  BY <1>1, EncodeAllIs
<1>5. Len(EncodeAll(t)) <= 4 * l
  BY <1>2, <1>3, <1>4
<1>6. Unlimited(t).text = t /\ Unlimited(t).width = 4 * Len(t)
  BY DEF Unlimited
<1> QED
  BY <1>1, <1>2, <1>5, <1>6 DEF Clean

\* A text that ends in a NUL.
LEMMA TerminatedIs ==
    ASSUME NEW s, IsText(s), NEW e, e = EncodeAll(s), NEW t, t = DecodeText(e \o << 0 >>)
    PROVE  /\ e \in Seq(Byte) /\ e \o <<0>> \in Seq(Byte) /\ Len(e \o <<0>>) = Len(e) + 1
           /\ e \o <<0>> = EncodeText(s, 4 * Len(s)) \o Zeros(1)
           /\ IsText(t) /\ \A i \in 1 .. Len(t) : t[i] # 0
           /\ Len(EncodeAll(t)) <= Len(e)
<1>1. e \in Seq(Byte)
  BY EncodeAllIs
<1>2. PICK z \in Seq(Byte) : z = Zeros(1) /\ Len(z) = 1 /\ z[1] = 0
  BY ZerosAre
<1>3. z = <<0>>
  BY <1>2
<1>4. e \o z \in Seq(Byte) /\ Len(e \o z) = Len(e) + 1
  BY <1>1, <1>2, HasSides
<1>5. e \o z = EncodeText(s, 4 * Len(s)) \o Zeros(1)
  BY <1>2 DEF EncodeAll
<1>6. BeforeNul(e \o z) = BeforeNul(e)
  BY <1>1, <1>2, BeforePadding
<1>7. Len(BeforeNul(e)) \in 0 .. Len(e)
  BY <1>1, BeforeNulType
<1>8. /\ IsText(t) /\ \A i \in 1 .. Len(t) : t[i] # 0
      /\ Len(EncodeAll(t)) <= Len(BeforeNul(e \o z))
  BY <1>3, <1>4, DecodeTextIs
<1>9. EncodeAll(t) \in Seq(Byte)
  BY <1>8, EncodeAllIs
<1>10. Len(EncodeAll(t)) <= Len(e)
  <2>1. PICK x \in Nat : x = Len(EncodeAll(t))
    BY <1>9
  <2>2. PICK y \in Nat : y = Len(e)
    BY <1>1
  <2>3. PICK m \in 0 .. y : m = Len(BeforeNul(e))
    BY <1>7, <2>2
  <2>4. x <= m
    BY <1>6, <1>8, <2>1, <2>3
  <2> QED
    BY <2>1, <2>2, <2>4
<1> QED
  BY <1>1, <1>3, <1>4, <1>5, <1>8, <1>10

-----------------------------------------------------------------------------

FormsAreIds ==
    /\ INFO \in Id /\ ADTL \in Id
    /\ LABL \in Id /\ NOTE \in Id /\ LTXT \in Id

\* The ids in the code are ids.
LEMMA FormIds == FormsAreIds
<1>1. \A x, y \in Byte : <<x, y>> \in Seq(Byte) /\ Len(<<x, y>>) = 2
  OBVIOUS
<1>2. \A x, y \in Byte : <<x, y>> \in Id
  BY <1>1, IdIs
<1>3. {73, 78, 97, 100, 108, 110, 111, 116} \subseteq Byte
  BY SMT DEF Byte
<1>4. 73 \in Byte /\ 78 \in Byte /\ 97 \in Byte /\ 100 \in Byte /\ 108 \in Byte
      /\ 110 \in Byte /\ 111 \in Byte /\ 116 \in Byte
  BY <1>3
<1> QED
  BY <1>2, <1>4 DEF FormsAreIds, INFO, ADTL, LABL, NOTE, LTXT

\* Values and texts of an InfoList.
LEMMA InfoTexts ==
    ASSUME kind = "INFO", NEW v
    PROVE  /\ TextsOf(kind, v) = [i \in DOMAIN v |-> Unlimited(v[i].text)]
           /\ Untexted(kind, v) = [i \in DOMAIN v |-> v[i].id]
           /\ IsValue(kind, v) <=> IsInfoList(v)
BY DEF TextsOf, Untexted, IsValue

\* What InfoList::from_bytes returns.
LEMMA InfoFromIs ==
    ASSUME NEW b \in Seq(Byte), HasForm(b, INFO), NEW v, v = InfoFromBytes(b)[1]
    PROVE  /\ InfoFromBytes(b) = Some(v)
           /\ SubChunks(b) \in Seq(Sub) /\ Len(v) = Len(SubChunks(b))
           /\ v \in Seq([id : Id, text : Seq(Int)])
           /\ \A i \in 1 .. Len(v) :
                /\ SubChunks(b)[i].data \in Seq(Byte)
                /\ v[i].id = SubChunks(b)[i].id
                /\ v[i].text = DecodeText(SubChunks(b)[i].data)
                /\ IsText(v[i].text) /\ \A j \in 1 .. Len(v[i].text) : v[i].text[j] # 0
<1>1. PICK subs : subs = SubChunks(b)
  OBVIOUS
<1>2. subs \in Seq(Sub)
  <2>1. Len(b) >= 2
    BY DEF HasForm
  <2> QED
    BY <1>1, <2>1, SubChunksAre
<1>3. PICK n \in Nat : n = Len(subs) /\ DOMAIN subs = 1 .. n
  BY <1>2
<1>4. InfoFromBytes(b) = Some([i \in 1 .. n |-> [id |-> subs[i].id, text |-> DecodeText(subs[i].data)]])
  BY <1>1, <1>3 DEF InfoFromBytes
<1>5. v = [i \in 1 .. n |-> [id |-> subs[i].id, text |-> DecodeText(subs[i].data)]]
  BY <1>4 DEF Some
<1>6. ASSUME NEW i \in 1 .. n
      PROVE  /\ subs[i].data \in Seq(Byte) /\ subs[i].id \in Id
             /\ IsText(DecodeText(subs[i].data)) /\ DecodeText(subs[i].data) \in Seq(Int)
             /\ \A j \in 1 .. Len(DecodeText(subs[i].data)) : DecodeText(subs[i].data)[j] # 0
  <2>1. subs[i] \in Sub
    BY <1>2, <1>3
  <2>2. subs[i].data \in Seq(Byte) /\ subs[i].id \in Id
    BY <2>1 DEF Sub
  <2>3. /\ IsText(DecodeText(subs[i].data))
        /\ \A j \in 1 .. Len(DecodeText(subs[i].data)) : DecodeText(subs[i].data)[j] # 0
    BY <2>2, DecodeTextIs
  <2> QED
    BY <2>2, <2>3 DEF IsText
<1>7. v \in [1 .. n -> [id : Id, text : Seq(Int)]]
  BY <1>5, <1>6
<1>8. v \in Seq([id : Id, text : Seq(Int)]) /\ Len(v) = n
  BY <1>7, FunctionToSeq
<1>9. InfoFromBytes(b) = Some(v)
  BY <1>4, <1>5
<1> QED
  BY <1>1, <1>2, <1>3, <1>5, <1>6, <1>8, <1>9

\* An InfoList from any bytes is a proper one.
LEMMA InfoFound ==
    ASSUME kind = "INFO", NEW b \in Seq(Byte), Len(b) \in U32
    PROVE  Readable(kind, InfoFromBytes(b))
<1>1. CASE ~HasForm(b, INFO)
  BY <1>1 DEF InfoFromBytes, Readable
<1>2. CASE HasForm(b, INFO)
  <2>1. PICK v : v = InfoFromBytes(b)[1]
    OBVIOUS
  <2>2. PICK subs : subs = SubChunks(b)
    OBVIOUS
  <2>3. /\ InfoFromBytes(b) = Some(v)
        /\ Len(v) = Len(subs)
        /\ v \in Seq([id : Id, text : Seq(Int)])
        /\ \A i \in 1 .. Len(v) :
                /\ subs[i].data \in Seq(Byte)
                /\ v[i].text = DecodeText(subs[i].data)
                /\ IsText(v[i].text) /\ \A j \in 1 .. Len(v[i].text) : v[i].text[j] # 0
    <3>1. /\ InfoFromBytes(b) = Some(v)
          /\ Len(v) = Len(SubChunks(b))
          /\ v \in Seq([id : Id, text : Seq(Int)])
      BY <1>2, <2>1, InfoFromIs
    <3>2. ASSUME NEW i \in 1 .. Len(v)
          PROVE  /\ SubChunks(b)[i].data \in Seq(Byte)
                 /\ v[i].text = DecodeText(SubChunks(b)[i].data)
                 /\ IsText(v[i].text) /\ \A j \in 1 .. Len(v[i].text) : v[i].text[j] # 0
      BY <1>2, <2>1, InfoFromIs
    <3> QED
      BY <2>2, <3>1, <3>2
  <2>4. DOMAIN v = 1 .. Len(v)
    BY <2>3
  <2>5. ASSUME NEW i \in 1 .. Len(v) PROVE FitsSubChunk(v[i].text, 0)
    <3>1. Len(subs[i].data) + 4 <= Len(b)
      <4>1. Len(b) >= 2
        BY <1>2 DEF HasForm
      <4> QED
        BY <2>2, <2>3, <4>1, SubChunksAre
    <3>2. PICK x \in Nat : x = Len(EncodeAll(v[i].text))
      <4>1. IsText(v[i].text)
        BY <2>3
      <4>2. EncodeAll(v[i].text) \in Seq(Byte)
        BY Zenon, <4>1, EncodeAllIs
      <4> QED
        BY <4>2
    <3>3. PICK y \in Nat : y = Len(subs[i].data)
      <4>1. subs[i].data \in Seq(Byte)
        BY <2>3
      <4> QED
        BY <4>1
    <3>4. PICK m \in 0 .. y : m = Len(BeforeNul(subs[i].data))
      BY <2>3, <3>3, BeforeNulType
    <3>5. x <= m
      BY <2>3, <3>2, <3>4, DecodeTextIs
    <3>6. PICK l \in Nat : l = Len(b) /\ l <= 65535
      BY U32Is
    <3>7. 0 + x + 1 <= l
      BY <3>1, <3>3, <3>5, <3>6
    <3> QED
      BY SMT, <3>2, <3>6, <3>7 DEF FitsSubChunk, U32Max
  <2>6. IsInfoList(v)
    BY <2>3, <2>4, <2>5 DEF IsInfoList
  <2>7. Decoded(kind, v)
    <3>1. ASSUME NEW i \in DOMAIN TextsOf(kind, v) PROVE Clean(TextsOf(kind, v)[i])
      <4>1. i \in 1 .. Len(v) /\ TextsOf(kind, v)[i] = Unlimited(v[i].text)
        BY <2>4, InfoTexts
      <4> QED
        BY <2>3, <4>1, UnlimitedIs
    <3> QED
      BY <3>1 DEF Decoded
  <2> QED
    BY <2>1, <2>3, <2>6, <2>7, InfoTexts DEF Readable
<1> QED
  BY <1>1, <1>2

\* What is written of an InfoList, and read back.
LEMMA InfoWritten ==
    ASSUME kind = "INFO", NEW v, IsInfoList(v)
    PROVE  /\ InfoToBytes(v) \in Seq(Byte)
           /\ InfoFromBytes(InfoToBytes(v)) # None
           /\ Readable(kind, InfoFromBytes(InfoToBytes(v)))
           /\ ReadBack(kind, v, InfoFromBytes(InfoToBytes(v))[1])
<1>1. PICK R : R = [id : Id, text : Seq(Int)]
  OBVIOUS
<1>2. v \in Seq(R) /\ \A i \in DOMAIN v : IsText(v[i].text) /\ FitsSubChunk(v[i].text, 0)
  BY <1>1 DEF IsInfoList
<1>3. PICK n \in Nat : n = Len(v) /\ DOMAIN v = 1 .. n
  BY <1>2
<1>4. \A i \in 1 .. n : v[i] \in R /\ v[i].id \in Id
  <2> TAKE i \in 1 .. n
  <2>1. v[i] \in R
    BY <1>2, <1>3
  <2> QED
    BY <1>1, <2>1
<1>5. PICK subs : subs = [i \in 1 .. n |-> [id |-> v[i].id, data |-> EncodeAll(v[i].text) \o <<0>>]]
  OBVIOUS
<1>6. ASSUME NEW i \in 1 .. n
      PROVE  /\ subs[i] \in Sub
             /\ subs[i].id = v[i].id /\ subs[i].data = EncodeAll(v[i].text) \o <<0>>
  <2>1. subs[i].id = v[i].id /\ subs[i].data = EncodeAll(v[i].text) \o <<0>>
    BY <1>5
  <2>2. PICK e \in Seq(Byte) : e = EncodeAll(v[i].text)
    BY <1>2, <1>3, EncodeAllIs
  <2>3. e \o <<0>> \in Seq(Byte) /\ Len(e \o <<0>>) = Len(e) + 1
    BY <1>2, <1>3, <2>2, TerminatedIs
  <2>4. 0 + Len(e) + 1 <= U32Max
    BY <1>2, <1>3, <2>2 DEF FitsSubChunk
  <2>5. Len(e) + 1 \in U32
    <3>1. 0 + Len(e) + 1 <= 65535
      BY SMT, <2>4 DEF U32Max
    <3>2. Len(e) + 1 \in Nat /\ Len(e) + 1 <= 65535
      BY SMT, <3>1
    <3> QED
      BY <3>2, U32Is
  <2>6. Len(subs[i].data) \in U32 /\ subs[i].data \in Seq(Byte)
    BY <2>1, <2>2, <2>3, <2>5
  <2>7. subs[i] \in [id : Id, data : Seq(Byte)]
    BY <1>4, <1>5, <2>1, <2>6
  <2> QED
    BY <2>1, <2>6, <2>7 DEF Sub
<1>7. subs \in Seq(Sub) /\ Len(subs) = n
  <2>1. subs \in [1 .. n -> Sub]
    BY <1>5, <1>6
  <2> QED
    BY <2>1, FunctionToSeq
<1>8. InfoToBytes(v) = INFO \o FlattenSeq(PartsOf(subs))
  <2>1. PICK p : p = [i \in DOMAIN v |-> SubChunk(v[i].id, EncodeAll(v[i].text) \o <<0>>)]
    OBVIOUS
  <2>2. p = [i \in 1 .. n |-> SubChunk(subs[i].id, subs[i].data)]
    BY <1>3, <1>6, <2>1
  <2>3. p = PartsOf(subs)
    BY <1>7, <2>2 DEF PartsOf
  <2> QED
    BY <2>1, <2>3 DEF InfoToBytes
<1>9. PICK b \in Seq(Byte) : b = InfoToBytes(v) /\ HasForm(b, INFO) /\ SubChunks(b) = subs
  <2>1. INFO \in Id
    BY FormIds DEF FormsAreIds
  <2> QED
    BY <1>7, <1>8, <2>1, SubChunksAreReadBack
<1>10. PICK w : w = InfoFromBytes(b)[1]
  OBVIOUS
<1>11. /\ InfoFromBytes(b) = Some(w)
       /\ Len(w) = n /\ w \in Seq(R)
       /\ \A i \in 1 .. n : /\ w[i].id = subs[i].id
                            /\ w[i].text = DecodeText(subs[i].data)
                            /\ IsText(w[i].text)
                            /\ \A j \in 1 .. Len(w[i].text) : w[i].text[j] # 0
  <2>1. /\ InfoFromBytes(b) = Some(w)
        /\ Len(w) = Len(SubChunks(b)) /\ w \in Seq([id : Id, text : Seq(Int)])
    BY <1>9, <1>10, InfoFromIs
  <2>2. ASSUME NEW i \in 1 .. Len(w)
        PROVE  /\ w[i].id = SubChunks(b)[i].id
               /\ w[i].text = DecodeText(SubChunks(b)[i].data)
               /\ IsText(w[i].text)
               /\ \A j \in 1 .. Len(w[i].text) : w[i].text[j] # 0
    BY <1>9, <1>10, InfoFromIs
  <2>3. Len(w) = n
    BY <1>7, <1>9, <2>1
  <2> QED
    BY <1>1, <1>9, <2>1, <2>2, <2>3
<1>12. DOMAIN w = 1 .. n
  BY <1>11
<1>13. ASSUME NEW i \in 1 .. n PROVE FitsSubChunk(w[i].text, 0)
  <2>1. PICK e \in Seq(Byte) : e = EncodeAll(v[i].text)
    BY <1>2, <1>3, EncodeAllIs
  <2>2. w[i].text = DecodeText(e \o <<0>>)
    BY <1>6, <1>11, <2>1
  <2>3. Len(EncodeAll(w[i].text)) <= Len(e)
    BY <1>2, <1>3, <2>1, <2>2, TerminatedIs
  <2>4. EncodeAll(w[i].text) \in Seq(Byte)
    BY <1>11, EncodeAllIs
  <2>5. 0 + Len(e) + 1 <= U32Max
    BY <1>2, <1>3, <2>1 DEF FitsSubChunk
  <2>6. PICK x, y, m \in Nat : x = Len(EncodeAll(w[i].text)) /\ y = Len(e) /\ m = U32Max
    BY SMT, <2>4 DEF U32Max
  <2>7. 0 + x + 1 <= m
    BY <2>3, <2>5, <2>6
  <2> QED
    BY <2>6, <2>7 DEF FitsSubChunk
<1>14. IsInfoList(w)
  BY <1>1, <1>11, <1>12, <1>13 DEF IsInfoList
<1>15. Decoded(kind, w)
  <2>1. ASSUME NEW i \in DOMAIN TextsOf(kind, w) PROVE Clean(TextsOf(kind, w)[i])
    <3>1. i \in 1 .. n /\ TextsOf(kind, w)[i] = Unlimited(w[i].text)
      BY <1>12, InfoTexts
    <3> QED
      BY <1>11, <3>1, UnlimitedIs
  <2> QED
    BY <2>1 DEF Decoded
<1>16. ReadBack(kind, v, w)
  <2>1. Untexted(kind, w) = Untexted(kind, v)
    <3>1. \A i \in 1 .. n : w[i].id = v[i].id
      BY <1>6, <1>11
    <3>2. Untexted(kind, w) = [i \in 1 .. n |-> w[i].id] /\ Untexted(kind, v) = [i \in 1 .. n |-> v[i].id]
      BY <1>3, <1>12, InfoTexts
    <3> QED
      BY <3>1, <3>2
  <2>2. ASSUME NEW i \in DOMAIN TextsOf(kind, v)
        PROVE  \E z \in Nat : TextsOf(kind, w)[i].text =
                    DecodeText(EncodeText(TextsOf(kind, v)[i].text, TextsOf(kind, v)[i].width) \o Zeros(z))
    <3>1. i \in 1 .. n /\ TextsOf(kind, v)[i] = Unlimited(v[i].text)
      BY <1>3, InfoTexts
    <3>2. TextsOf(kind, w)[i] = Unlimited(w[i].text)
      BY <1>12, <3>1, InfoTexts
    <3>3. TextsOf(kind, w)[i].text = w[i].text
      BY <3>2 DEF Unlimited
    <3>4. TextsOf(kind, v)[i].text = v[i].text /\ TextsOf(kind, v)[i].width = 4 * Len(v[i].text)
      BY <3>1 DEF Unlimited
    <3>5. IsText(v[i].text)
      BY <1>2, <1>3, <3>1
    <3>6. EncodeAll(v[i].text) \o <<0>> = EncodeText(v[i].text, 4 * Len(v[i].text)) \o Zeros(1)
      BY <3>5, TerminatedIs
    <3>7. w[i].text = DecodeText(EncodeText(v[i].text, 4 * Len(v[i].text)) \o Zeros(1))
      BY <1>6, <1>11, <3>1, <3>6
    <3>8. 1 \in Nat
      OBVIOUS
    <3> QED
      BY <3>3, <3>4, <3>7, <3>8
  <2> QED
    BY <2>1, <2>2 DEF ReadBack
<1>17. Some(w) # None /\ Some(w)[1] = w
  BY DEF Some, None
<1> QED
  BY <1>9, <1>10, <1>11, <1>14, <1>15, <1>16, <1>17, InfoTexts DEF Readable

\* Its texts fit back.
LEMMA InfoFits ==
    ASSUME kind = "INFO", chunk.data \in Seq(Byte), InfoFromBytes(chunk.data) # None,
           NEW i \in DOMAIN RawTexts
    PROVE  LET raw == BeforeNul(RawTexts[i])
               new == EncodeAll(TextsOf(kind, InfoFromBytes(chunk.data)[1])[i].text)
           IN  Len(new) <= Len(raw) /\ (~IsUtf8(raw) => new = raw)
<1>1. PICK b \in Seq(Byte) : b = chunk.data
  OBVIOUS
<1>2. HasForm(b, INFO)
  BY <1>1 DEF InfoFromBytes
<1>3. PICK v : v = InfoFromBytes(b)[1]
  OBVIOUS
<1>4. PICK subs : subs = SubChunks(b)
  OBVIOUS
<1>5. /\ Len(v) = Len(subs) /\ subs \in Seq(Sub)
      /\ v \in Seq([id : Id, text : Seq(Int)])
      /\ \A j \in 1 .. Len(v) : /\ subs[j].data \in Seq(Byte)
                                /\ v[j].text = DecodeText(subs[j].data)
  BY <1>2, <1>3, <1>4, InfoFromIs
<1>6. RawTexts = [j \in DOMAIN subs |-> subs[j].data]
  BY <1>1, <1>4 DEF RawTexts
<1>7. i \in 1 .. Len(v) /\ DOMAIN v = 1 .. Len(v) /\ RawTexts[i] = subs[i].data
  BY <1>5, <1>6
<1>8. TextsOf(kind, v)[i].text = v[i].text
  BY <1>7, InfoTexts DEF Unlimited
<1> QED
  BY <1>1, <1>3, <1>5, <1>7, <1>8, DecodeTextIs

\* It is its ids and its texts.
LEMMA InfoSame ==
    ASSUME kind = "INFO", NEW v, IsInfoList(v), NEW w, IsInfoList(w), Untexted(kind, w) = Untexted(kind, v),
           \A i \in DOMAIN TextsOf(kind, v) : TextsOf(kind, w)[i].text = TextsOf(kind, v)[i].text
    PROVE  w = v
<1>1. PICK R : R = [id : Id, text : Seq(Int)]
  OBVIOUS
<1>2. v \in Seq(R) /\ w \in Seq(R)
  BY <1>1 DEF IsInfoList
<1>3. /\ TextsOf(kind, v) = [i \in DOMAIN v |-> Unlimited(v[i].text)]
      /\ TextsOf(kind, w) = [i \in DOMAIN w |-> Unlimited(w[i].text)]
  BY InfoTexts
<1>4. [i \in DOMAIN w |-> w[i].id] = [i \in DOMAIN v |-> v[i].id]
  BY InfoTexts
<1>5. DOMAIN w = DOMAIN v
  <2>1. PICK f, g : f = [i \in DOMAIN w |-> w[i].id] /\ g = [i \in DOMAIN v |-> v[i].id]
    OBVIOUS
  <2>2. DOMAIN f = DOMAIN w /\ DOMAIN g = DOMAIN v
    BY <2>1
  <2> QED
    BY <1>4, <2>1, <2>2
<1>6. ASSUME NEW i \in DOMAIN v PROVE w[i] = v[i]
  <2>1. w[i].id = v[i].id
    <3>1. [j \in DOMAIN w |-> w[j].id][i] = [j \in DOMAIN v |-> v[j].id][i]
      BY <1>4
    <3> QED
      BY <1>5, <3>1
  <2>2. w[i].text = v[i].text
    <3>1. TextsOf(kind, w)[i].text = TextsOf(kind, v)[i].text
      BY <1>3
    <3>2. TextsOf(kind, w)[i] = Unlimited(w[i].text) /\ TextsOf(kind, v)[i] = Unlimited(v[i].text)
      BY <1>3, <1>5
    <3> QED
      BY <3>1, <3>2 DEF Unlimited
  <2>3. w[i] \in R /\ v[i] \in R
    BY <1>2, <1>5
  <2> QED
    BY <1>1, <2>1, <2>2, <2>3
<1> QED
  BY <1>2, <1>5, <1>6

-----------------------------------------------------------------------------
(* The entries of an AdtlList.                                           *)

EntryIds == {LABL, NOTE, LTXT}
Entries == [id : EntryIds, cue : U32, more : Seq(Byte), text : Seq(Int)]

\* What comes before the text of an adtl entry.
LEMMA FixedLenIs ==
    ASSUME NEW id
    PROVE  FixedLen(id) \in Nat /\ FixedLen(id) - 2 \in Nat /\ FixedLen(id) >= 2
<1>1. CASE id = LTXT
  <2>1. FixedLen(id) = 10
    BY <1>1 DEF FixedLen
  <2> QED
    BY <2>1
<1>2. CASE id # LTXT
  <2>1. FixedLen(id) = 2
    BY <1>2 DEF FixedLen
  <2> QED
    BY <2>1
<1> QED
  BY <1>1, <1>2

\* Values and texts of an AdtlList.
LEMMA AdtlTexts ==
    ASSUME kind = "adtl", NEW v
    PROVE  /\ TextsOf(kind, v) = [i \in DOMAIN v |-> Unlimited(v[i].text)]
           /\ Untexted(kind, v) = [i \in DOMAIN v |-> <<v[i].id, v[i].cue, v[i].more>>]
           /\ IsValue(kind, v) <=> IsAdtlList(v)
BY DEF TextsOf, Untexted, IsValue

\* An entry, from the bytes of a sub-chunk that is long enough.
LEMMA EntryIs ==
    ASSUME NEW sub \in Sub, IsEntry(sub)
    PROVE  /\ Entry(sub) \in Entries
           /\ Entry(sub).id = sub.id
           /\ Len(Entry(sub).more) = FixedLen(sub.id) - 2
           /\ Rest(sub.data, FixedLen(sub.id)) \in Seq(Byte)
           /\ FixedLen(sub.id) + Len(Rest(sub.data, FixedLen(sub.id))) = Len(sub.data)
           /\ Entry(sub).text = DecodeText(Rest(sub.data, FixedLen(sub.id)))
           /\ IsText(Entry(sub).text)
           /\ \A j \in 1 .. Len(Entry(sub).text) : Entry(sub).text[j] # 0
<1>1. PICK b \in Seq(Byte) : b = sub.data
  BY DEF Sub
<1>2. PICK id \in EntryIds : id = sub.id
  BY DEF IsEntry, EntryIds
<1>3. PICK n \in Nat : n = FixedLen(id)
  BY FixedLenIs
<1>4. n - 2 \in Nat /\ n >= 2
  BY <1>3, FixedLenIs
<1>5. PICK l \in Nat : l = Len(b)
  OBVIOUS
<1>6. n <= l
  BY <1>1, <1>2, <1>3, <1>5 DEF IsEntry
<1>7. PICK cue \in U32 : cue = NumberAt(b, 0)
  <2>1. 0 \in Nat /\ 0 + 2 <= Len(b)
    BY <1>4, <1>5, <1>6
  <2> QED
    BY <2>1, NumberAtIs
<1>8. PICK more \in Seq(Byte) : more = Bytes(b, 2, n - 2) /\ Len(more) = n - 2
  <2>1. 2 + (n - 2) <= Len(b) /\ 2 \in Nat
    BY <1>4, <1>5, <1>6
  <2> QED
    BY <1>4, <2>1, BytesAre
<1>9. PICK r \in Seq(Byte) : r = Rest(b, n) /\ Len(r) = l - n
  <2>1. n \in 0 .. Len(b)
    BY <1>5, <1>6
  <2> QED
    BY <1>5, <2>1, RestIs
<1>10. PICK t : t = DecodeText(r)
  OBVIOUS
<1>11. IsText(t) /\ t \in Seq(Int) /\ \A j \in 1 .. Len(t) : t[j] # 0
  <2>1. IsText(t) /\ \A j \in 1 .. Len(t) : t[j] # 0
    BY <1>10, DecodeTextIs
  <2> QED
    BY <2>1 DEF IsText
<1>12. PICK e : e = [id |-> id, cue |-> cue, more |-> more, text |-> t]
  OBVIOUS
<1>13. Entry(sub) = e
  BY <1>1, <1>2, <1>3, <1>7, <1>8, <1>9, <1>10, <1>12 DEF Entry
<1>14. e \in Entries
  BY <1>11, <1>12 DEF Entries
<1>15. e.id = id /\ e.more = more /\ e.text = t
  BY <1>12
<1>16. n + (l - n) = l
  OBVIOUS
<1> QED
  BY <1>1, <1>2, <1>3, <1>5, <1>8, <1>9, <1>10, <1>11, <1>13, <1>14, <1>15, <1>16

\* The entries among the sub-chunks of a body.
LEMMA EntriesAre ==
    ASSUME NEW b \in Seq(Byte), Len(b) >= 2
    PROVE  /\ EntriesOf(SubChunks(b)) \in Seq(Sub)
           /\ \A i \in 1 .. Len(EntriesOf(SubChunks(b))) :
                /\ EntriesOf(SubChunks(b))[i] \in Sub
                /\ IsEntry(EntriesOf(SubChunks(b))[i])
                /\ Len(EntriesOf(SubChunks(b))[i].data) + 4 <= Len(b)
<1>1. PICK all \in Seq(Sub) : all = SubChunks(b) /\ \A i \in 1 .. Len(all) : Len(all[i].data) + 4 <= Len(b)
  BY SubChunksAre
<1>2. PICK S : S = {i \in DOMAIN all : IsEntry(all[i])}
  OBVIOUS
<1>3. PICK subs : subs = Kept(all, S)
  OBVIOUS
<1>4. /\ subs \in Seq(Sub)
      /\ \A j \in DOMAIN subs : \E i \in DOMAIN all : i \in S /\ subs[j] = all[i]
  BY <1>3, KeptFrom
<1>5. subs = EntriesOf(SubChunks(b))
  BY <1>1, <1>2, <1>3 DEF EntriesOf
<1>6. ASSUME NEW j \in 1 .. Len(subs)
      PROVE  subs[j] \in Sub /\ IsEntry(subs[j]) /\ Len(subs[j].data) + 4 <= Len(b)
  <2>1. j \in DOMAIN subs
    BY <1>4
  <2>2. PICK i \in DOMAIN all : i \in S /\ subs[j] = all[i]
    BY <1>4, <2>1
  <2>3. IsEntry(all[i]) /\ i \in 1 .. Len(all)
    BY <1>1, <1>2, <2>2
  <2>4. subs[j] \in Sub
    BY <1>4
  <2> QED
    BY <1>1, <2>2, <2>3, <2>4
<1> QED
  BY <1>4, <1>5, <1>6

\* What AdtlList::from_bytes returns.
LEMMA AdtlFromIs ==
    ASSUME NEW b \in Seq(Byte), HasForm(b, ADTL), NEW v, v = AdtlFromBytes(b)[1],
           NEW subs, subs = EntriesOf(SubChunks(b))
    PROVE  /\ AdtlFromBytes(b) = Some(v)
           /\ subs \in Seq(Sub) /\ Len(v) = Len(subs)
           /\ v \in Seq(Entries)
           /\ \A i \in 1 .. Len(v) : v[i] = Entry(subs[i]) /\ subs[i] \in Sub /\ IsEntry(subs[i])
<1>1. Len(b) >= 2
  BY DEF HasForm
<1>2. subs \in Seq(Sub) /\ \A i \in 1 .. Len(subs) : subs[i] \in Sub /\ IsEntry(subs[i])
  BY <1>1, EntriesAre
<1>3. PICK n \in Nat : n = Len(subs) /\ DOMAIN subs = 1 .. n
  BY <1>2
<1>4. AdtlFromBytes(b) = Some([i \in 1 .. n |-> Entry(subs[i])])
  BY <1>3 DEF AdtlFromBytes
<1>5. v = [i \in 1 .. n |-> Entry(subs[i])]
  BY <1>4 DEF Some
<1>6. \A i \in 1 .. n : Entry(subs[i]) \in Entries
  BY <1>2, <1>3, EntryIs
<1>7. v \in [1 .. n -> Entries]
  BY <1>5, <1>6
<1>8. v \in Seq(Entries) /\ Len(v) = n
  BY <1>7, FunctionToSeq
<1> QED
  BY <1>2, <1>3, <1>4, <1>5, <1>8

\* Any decoded entries are proper ones, when they are short enough.
LEMMA AdtlReadable ==
    ASSUME kind = "adtl", NEW b \in Seq(Byte), HasForm(b, ADTL), NEW v, v = AdtlFromBytes(b)[1],
           \A i \in 1 .. Len(v) : FitsSubChunk(v[i].text, FixedLen(v[i].id))
    PROVE  Readable(kind, AdtlFromBytes(b)) /\ IsAdtlList(v)
<1>1. PICK subs : subs = EntriesOf(SubChunks(b))
  OBVIOUS
<1>2. /\ AdtlFromBytes(b) = Some(v)
      /\ v \in Seq(Entries)
      /\ \A i \in 1 .. Len(v) : v[i] = Entry(subs[i]) /\ subs[i] \in Sub /\ IsEntry(subs[i])
  BY <1>1, AdtlFromIs
<1>3. DOMAIN v = 1 .. Len(v)
  BY <1>2
<1>4. ASSUME NEW i \in 1 .. Len(v)
      PROVE  /\ Len(v[i].more) = FixedLen(v[i].id) - 2
             /\ IsText(v[i].text) /\ \A j \in 1 .. Len(v[i].text) : v[i].text[j] # 0
  <2>1. v[i] = Entry(subs[i]) /\ subs[i] \in Sub /\ IsEntry(subs[i])
    BY <1>2
  <2> QED
    BY <2>1, EntryIs
<1>5. IsAdtlList(v)
  BY <1>2, <1>3, <1>4 DEF IsAdtlList, Entries, EntryIds
<1>6. Decoded(kind, v)
  <2>1. ASSUME NEW i \in DOMAIN TextsOf(kind, v) PROVE Clean(TextsOf(kind, v)[i])
    <3>1. i \in 1 .. Len(v) /\ TextsOf(kind, v)[i] = Unlimited(v[i].text)
      BY <1>3, AdtlTexts
    <3> QED
      BY <1>4, <3>1, UnlimitedIs
  <2> QED
    BY <2>1 DEF Decoded
<1> QED
  BY <1>2, <1>5, <1>6, AdtlTexts DEF Readable

\* An AdtlList from any bytes is a proper one.
LEMMA AdtlFound ==
    ASSUME kind = "adtl", NEW b \in Seq(Byte), Len(b) \in U32
    PROVE  Readable(kind, AdtlFromBytes(b))
<1>1. CASE ~HasForm(b, ADTL)
  BY <1>1 DEF AdtlFromBytes, Readable
<1>2. CASE HasForm(b, ADTL)
  <2>1. PICK v : v = AdtlFromBytes(b)[1]
    OBVIOUS
  <2>2. PICK subs : subs = EntriesOf(SubChunks(b))
    OBVIOUS
  <2>3. /\ Len(v) = Len(subs)
        /\ \A i \in 1 .. Len(v) : v[i] = Entry(subs[i]) /\ subs[i] \in Sub /\ IsEntry(subs[i])
    BY <1>2, <2>1, <2>2, AdtlFromIs
  <2>4. ASSUME NEW i \in 1 .. Len(v) PROVE FitsSubChunk(v[i].text, FixedLen(v[i].id))
    <3>1. v[i] = Entry(subs[i]) /\ subs[i] \in Sub /\ IsEntry(subs[i])
      BY <2>3
    <3>2. PICK data \in Seq(Byte) : data = subs[i].data
      BY <3>1 DEF Sub
    <3>3. PICK n \in Nat : n = FixedLen(v[i].id)
      BY FixedLenIs
    <3>4. v[i].id = subs[i].id
      BY <3>1, EntryIs
    <3>5. PICK raw \in Seq(Byte) : raw = Rest(data, n) /\ n + Len(raw) = Len(data) /\ v[i].text = DecodeText(raw)
      BY <3>1, <3>2, <3>3, <3>4, EntryIs
    <3>6. Len(data) + 4 <= Len(b)
      <4>1. Len(b) >= 2
        BY <1>2 DEF HasForm
      <4> QED
        BY <2>2, <2>3, <3>2, <4>1, EntriesAre
    <3>7. PICK x \in Nat : x = Len(EncodeAll(v[i].text))
      <4>1. IsText(v[i].text)
        BY <3>1, EntryIs
      <4>2. EncodeAll(v[i].text) \in Seq(Byte)
        BY <4>1, EncodeAllIs
      <4> QED
        BY <4>2
    <3>8. PICK y \in Nat : y = Len(raw)
      OBVIOUS
    <3>9. PICK m \in 0 .. y : m = Len(BeforeNul(raw))
      BY <3>8, BeforeNulType
    <3>10. x <= m
      BY <3>5, <3>7, <3>9, DecodeTextIs
    <3>11. PICK l \in Nat : l = Len(b) /\ l <= 65535
      BY U32Is
    <3>12. n + x + 1 <= l
      <4>1. (n + y) + 4 <= l
        BY <3>5, <3>6, <3>8, <3>11
      <4> QED
        BY <3>10, <4>1
    <3> QED
      BY SMT, <3>3, <3>7, <3>11, <3>12 DEF FitsSubChunk, U32Max
  <2> QED
    BY <1>2, <2>1, <2>4, AdtlReadable
<1> QED
  BY <1>1, <1>2

\* The bytes of an entry.
EntryBytes(e) == NumberBytes(e.cue) \o e.more \o EncodeAll(e.text) \o <<0>>

\* One element more at the end.
LEMMA ConcatLast ==
    ASSUME NEW x \in Seq(Byte), NEW y \in Seq(Byte), NEW z \in Seq(Byte)
    PROVE  (x \o y) \o z = x \o (y \o z)
BY ConcatAssociative

\* A length that fits is a number.
LEMMA InU32 ==
    ASSUME NEW n \in Nat, NEW k \in Nat, n + k + 1 <= U32Max
    PROVE  n + (k + 1) \in U32
<1>1. PICK m \in Nat : m = n + (k + 1)
  OBVIOUS
<1>2. m \in Nat /\ m <= 65535
  BY SMT, <1>1 DEF U32Max
<1>3. m \in U32
  BY <1>2, U32Is
<1> QED
  BY <1>1, <1>3

\* The bytes of an adtl entry.
LEMMA EntryBytesAre ==
    ASSUME NEW nb \in Seq(Byte), Len(nb) = 2, NEW more \in Seq(Byte), NEW y \in Seq(Byte)
    PROVE  /\ (nb \o more) \o y \in Seq(Byte)
           /\ Len((nb \o more) \o y) = (2 + Len(more)) + Len(y)
           /\ Has((nb \o more) \o y, 0, nb)
           /\ Bytes((nb \o more) \o y, 2, Len(more)) = more
           /\ Rest((nb \o more) \o y, 2 + Len(more)) = y
<1>1. PICK x \in Seq(Byte) : /\ x = nb \o more /\ Len(x) = 2 + Len(more)
                             /\ Has(x, 0, nb) /\ Has(x, 2, more)
  <2>1. /\ nb \o more \in Seq(Byte) /\ Len(nb \o more) = Len(nb) + Len(more)
        /\ Has(nb \o more, 0, nb) /\ Has(nb \o more, Len(nb), more)
    BY HasSides
  <2>2. Len(nb \o more) = 2 + Len(more) /\ Has(nb \o more, 2, more)
    BY <2>1
  <2> QED
    BY <2>1, <2>2
<1>2. PICK d \in Seq(Byte) : d = x \o y /\ Len(d) = Len(x) + Len(y) /\ Has(d, 0, x)
  BY HasSides
<1>3. Rest(d, 2 + Len(more)) = y
  BY <1>1, <1>2, RestOfConcat
<1>4. Has(d, 0, nb) /\ Has(d, 2, more)
  <2>1. Len(d) \in Nat /\ Len(x) \in Nat /\ Len(nb) \in Nat /\ Len(more) \in Nat
    OBVIOUS
  <2>2. Has(d, 0 + 0, nb)
    BY <1>1, <1>2, <2>1, HasWithin
  <2>3. Has(d, 0 + 2, more)
    BY <1>1, <1>2, <2>1, HasWithin
  <2> QED
    BY <2>2, <2>3
<1>5. Bytes(d, 2, Len(more)) = more
  BY <1>4, HasBytes
<1> QED
  BY <1>1, <1>2, <1>3, <1>4, <1>5

\* They are read back.
LEMMA EntryIsReadBack ==
    ASSUME NEW e \in Entries, IsText(e.text), Len(e.more) = FixedLen(e.id) - 2,
           FitsSubChunk(e.text, FixedLen(e.id)),
           NEW sub, sub = [id |-> e.id, data |-> EntryBytes(e)]
    PROVE  /\ sub \in Sub /\ IsEntry(sub)
           /\ Entry(sub) = [id |-> e.id, cue |-> e.cue, more |-> e.more,
                            text |-> DecodeText(EncodeAll(e.text) \o <<0>>)]
<1>1. PICK id \in EntryIds, cue \in U32, more \in Seq(Byte), s \in Seq(Int) :
            e = [id |-> id, cue |-> cue, more |-> more, text |-> s]
  BY DEF Entries
<1>2. e.id = id /\ e.cue = cue /\ e.more = more /\ e.text = s
  BY <1>1
<1>3. PICK n : n = FixedLen(id)
  OBVIOUS
<1>4. n \in Nat /\ n - 2 \in Nat
  BY <1>3, FixedLenIs
<1>5. PICK c : c = EncodeAll(s)
  OBVIOUS
<1>6. c \in Seq(Byte)
  BY <1>2, <1>5, EncodeAllIs
<1>7. n + Len(c) + 1 <= U32Max
  BY <1>2, <1>3, <1>5 DEF FitsSubChunk
<1>8. Len(more) = n - 2
  BY <1>2, <1>3
<1>81. cue \in Nat
  BY U32Is
<1>82. PICK nb : nb = NumberBytes(cue)
  OBVIOUS
<1>83. nb \in Seq(Byte) /\ Len(nb) = 2
  BY <1>81, <1>82, NumberBytesAre
<1>84. PICK y : y = c \o <<0>>
  OBVIOUS
<1>85. y \in Seq(Byte) /\ Len(y) = Len(c) + 1
  BY <1>2, <1>5, <1>84, TerminatedIs
<1>9. PICK d : d = (nb \o more) \o y
  OBVIOUS
<1>10. /\ d \in Seq(Byte) /\ Len(d) \in U32 /\ Len(d) >= n
       /\ NumberAt(d, 0) = cue /\ Bytes(d, 2, n - 2) = more /\ Rest(d, n) = y
  <2>1. /\ d \in Seq(Byte)
        /\ Len(d) = (2 + Len(more)) + Len(y)
        /\ Has(d, 0, nb)
        /\ Bytes(d, 2, Len(more)) = more
        /\ Rest(d, 2 + Len(more)) = y
    BY <1>83, <1>85, <1>9, EntryBytesAre
  <2>2. PICK k \in Nat : k = Len(c)
    BY <1>6
  <2>3. n + (k + 1) \in U32
    BY <1>4, <1>7, <2>2, InU32
  <2>4. 2 + Len(more) = n
    BY <1>4, <1>8
  <2>5. Len(d) = n + (k + 1)
    BY <1>85, <2>1, <2>2, <2>4
  <2>6. Len(d) \in U32 /\ Len(d) >= n
    BY <1>4, <2>3, <2>5
  <2>7. NumberAt(d, 0) = cue
    BY <1>82, <2>1, NumberIsReadBack
  <2> QED
    BY <1>8, <2>1, <2>4, <2>6, <2>7
<1>11. d = EntryBytes(e)
  <2>1. <<0>> \in Seq(Byte)
    <3>1. 0 \in Byte
      BY DEF Byte
    <3> QED
      BY <3>1
  <2>2. nb \o more \in Seq(Byte)
    BY <1>83, ConcatProperties
  <2>3. ((nb \o more) \o c) \o <<0>> = (nb \o more) \o (c \o <<0>>)
    BY <1>6, <2>1, <2>2, ConcatLast
  <2> QED
    BY <1>2, <1>5, <1>82, <1>84, <1>9, <2>3 DEF EntryBytes
<1>12. sub = [id |-> id, data |-> d]
  BY <1>2, <1>11
<1>13. sub.id = id /\ sub.data = d
  BY <1>12
<1>14. id \in Id
  BY FormIds DEF FormsAreIds, EntryIds
<1>15. sub \in Sub
  BY <1>10, <1>12, <1>13, <1>14 DEF Sub
<1>16. IsEntry(sub)
  BY <1>3, <1>10, <1>13 DEF IsEntry, EntryIds
<1>17. Entry(sub) = [id |-> id, cue |-> cue, more |-> more, text |-> DecodeText(y)]
  BY <1>3, <1>10, <1>13 DEF Entry
<1> QED
  BY <1>2, <1>5, <1>15, <1>16, <1>17, <1>84

\* What is written of an AdtlList, and read back.
LEMMA AdtlWritten ==
    ASSUME kind = "adtl", NEW v, IsAdtlList(v)
    PROVE  /\ AdtlToBytes(v) \in Seq(Byte)
           /\ AdtlFromBytes(AdtlToBytes(v)) # None
           /\ Readable(kind, AdtlFromBytes(AdtlToBytes(v)))
           /\ ReadBack(kind, v, AdtlFromBytes(AdtlToBytes(v))[1])
<1>1. /\ v \in Seq(Entries)
      /\ \A i \in DOMAIN v : /\ Len(v[i].more) = FixedLen(v[i].id) - 2
                             /\ IsText(v[i].text)
                             /\ FitsSubChunk(v[i].text, FixedLen(v[i].id))
  BY DEF IsAdtlList, Entries, EntryIds
<1>2. PICK n \in Nat : n = Len(v) /\ DOMAIN v = 1 .. n
  BY <1>1
<1>3. \A i \in 1 .. n : v[i] \in Entries
  BY <1>1, <1>2
<1>4. PICK subs : subs = [i \in 1 .. n |-> [id |-> v[i].id, data |-> EntryBytes(v[i])]]
  OBVIOUS
<1>5. ASSUME NEW i \in 1 .. n
      PROVE  /\ subs[i] \in Sub /\ IsEntry(subs[i])
             /\ subs[i].id = v[i].id /\ subs[i].data = EntryBytes(v[i])
             /\ Entry(subs[i]) = [id |-> v[i].id, cue |-> v[i].cue, more |-> v[i].more,
                                  text |-> DecodeText(EncodeAll(v[i].text) \o <<0>>)]
  <2>1. subs[i] = [id |-> v[i].id, data |-> EntryBytes(v[i])]
    BY <1>4
  <2>2. v[i] \in Entries /\ Len(v[i].more) = FixedLen(v[i].id) - 2 /\ IsText(v[i].text)
        /\ FitsSubChunk(v[i].text, FixedLen(v[i].id))
    BY <1>1, <1>2, <1>3
  <2>3. /\ subs[i] \in Sub /\ IsEntry(subs[i])
        /\ Entry(subs[i]) = [id |-> v[i].id, cue |-> v[i].cue, more |-> v[i].more,
                             text |-> DecodeText(EncodeAll(v[i].text) \o <<0>>)]
    BY <2>1, <2>2, EntryIsReadBack
  <2> QED
    BY <2>1, <2>3
<1>6. subs \in Seq(Sub) /\ Len(subs) = n
  <2>1. subs \in [1 .. n -> Sub]
    BY <1>4, <1>5
  <2> QED
    BY <2>1, FunctionToSeq
<1>7. AdtlToBytes(v) = ADTL \o FlattenSeq(PartsOf(subs))
  <2>1. PICK p : p = [i \in DOMAIN v |->
                        SubChunk(v[i].id, NumberBytes(v[i].cue) \o v[i].more
                                                \o EncodeAll(v[i].text) \o <<0>>)]
    OBVIOUS
  <2>2. ASSUME NEW i \in 1 .. n
        PROVE  p[i] = SubChunk(subs[i].id, subs[i].data)
    BY <1>2, <1>5, <2>1 DEF EntryBytes
  <2>3. p = [i \in 1 .. n |-> SubChunk(subs[i].id, subs[i].data)]
    <3>1. p = [i \in 1 .. n |-> p[i]]
      BY <1>2, <2>1
    <3> QED
      BY <2>2, <3>1
  <2>4. p = PartsOf(subs)
    BY <1>6, <2>3 DEF PartsOf
  <2> QED
    BY <2>1, <2>4 DEF AdtlToBytes
<1>8. PICK b \in Seq(Byte) : b = AdtlToBytes(v) /\ HasForm(b, ADTL) /\ SubChunks(b) = subs
  <2>1. ADTL \in Id
    BY FormIds DEF FormsAreIds
  <2> QED
    BY <1>6, <1>7, <2>1, SubChunksAreReadBack
<1>9. EntriesOf(SubChunks(b)) = subs
  <2>1. DOMAIN subs = 1 .. n
    BY <1>6
  <2>2. {i \in DOMAIN subs : IsEntry(subs[i])} = DOMAIN subs
    BY <1>5, <2>1
  <2>3. Kept(subs, DOMAIN subs) = subs
    BY <1>6, KeptAll
  <2> QED
    BY <1>8, <2>2, <2>3 DEF EntriesOf
<1>10. PICK w : w = AdtlFromBytes(b)[1]
  OBVIOUS
<1>11. /\ AdtlFromBytes(b) = Some(w)
       /\ Len(w) = n /\ w \in Seq(Entries)
       /\ \A i \in 1 .. n : w[i] = Entry(subs[i])
  <2>1. /\ AdtlFromBytes(b) = Some(w)
        /\ Len(w) = Len(subs) /\ w \in Seq(Entries)
    BY <1>8, <1>9, <1>10, AdtlFromIs
  <2>2. ASSUME NEW i \in 1 .. Len(w) PROVE w[i] = Entry(subs[i])
    BY <1>8, <1>9, <1>10, AdtlFromIs
  <2> QED
    BY <1>6, <2>1, <2>2
<1>12. DOMAIN w = 1 .. n
  BY <1>11
<1>13. ASSUME NEW i \in 1 .. n
       PROVE  /\ w[i].id = v[i].id /\ w[i].cue = v[i].cue /\ w[i].more = v[i].more
              /\ w[i].text = DecodeText(EncodeAll(v[i].text) \o <<0>>)
  <2>1. w[i] = [id |-> v[i].id, cue |-> v[i].cue, more |-> v[i].more,
                text |-> DecodeText(EncodeAll(v[i].text) \o <<0>>)]
    BY <1>5, <1>11
  <2> QED
    BY <2>1
<1>14. ASSUME NEW i \in 1 .. n PROVE FitsSubChunk(w[i].text, FixedLen(w[i].id))
  <2>1. IsText(v[i].text) /\ FitsSubChunk(v[i].text, FixedLen(v[i].id))
    BY <1>1, <1>2
  <2>2. PICK s, t, k : s = v[i].text /\ t = w[i].text /\ k = FixedLen(v[i].id)
    OBVIOUS
  <2>3. k \in Nat
    BY <2>2, FixedLenIs
  <2>4. PICK e : e = EncodeAll(s)
    OBVIOUS
  <2>5. t = DecodeText(e \o <<0>>)
    BY <1>13, <2>2, <2>4
  <2>6. e \in Seq(Byte) /\ IsText(t) /\ Len(EncodeAll(t)) <= Len(e)
    BY <2>1, <2>2, <2>4, <2>5, TerminatedIs
  <2>7. EncodeAll(t) \in Seq(Byte)
    BY <2>6, EncodeAllIs
  <2>8. k + Len(e) + 1 <= U32Max
    BY <2>1, <2>2, <2>4 DEF FitsSubChunk
  <2>9. PICK m \in Nat : m = U32Max
    BY SMT DEF U32Max
  <2>10. PICK x \in Nat : x = Len(EncodeAll(t))
    BY <2>7
  <2>11. PICK y \in Nat : y = Len(e)
    BY <2>6
  <2>12. k + x + 1 <= m
    BY <2>3, <2>6, <2>8, <2>9, <2>10, <2>11
  <2> QED
    BY <1>13, <2>2, <2>9, <2>10, <2>12 DEF FitsSubChunk
<1>15. Readable(kind, AdtlFromBytes(b)) /\ IsAdtlList(w)
  BY <1>8, <1>10, <1>11, <1>14, AdtlReadable
<1>16. ReadBack(kind, v, w)
  <2>1. Untexted(kind, w) = Untexted(kind, v)
    <3>1. \A i \in 1 .. n : <<w[i].id, w[i].cue, w[i].more>> = <<v[i].id, v[i].cue, v[i].more>>
      BY <1>13
    <3>2. /\ Untexted(kind, w) = [i \in 1 .. n |-> <<w[i].id, w[i].cue, w[i].more>>]
          /\ Untexted(kind, v) = [i \in 1 .. n |-> <<v[i].id, v[i].cue, v[i].more>>]
      BY <1>2, <1>12, AdtlTexts
    <3> QED
      BY <3>1, <3>2
  <2>2. ASSUME NEW i \in DOMAIN TextsOf(kind, v)
        PROVE  \E z \in Nat : TextsOf(kind, w)[i].text =
                    DecodeText(EncodeText(TextsOf(kind, v)[i].text, TextsOf(kind, v)[i].width) \o Zeros(z))
    <3>1. i \in 1 .. n /\ TextsOf(kind, v)[i] = Unlimited(v[i].text)
      BY <1>2, AdtlTexts
    <3>2. TextsOf(kind, w)[i] = Unlimited(w[i].text)
      BY <1>12, <3>1, AdtlTexts
    <3>3. TextsOf(kind, w)[i].text = w[i].text
      BY <3>2 DEF Unlimited
    <3>4. TextsOf(kind, v)[i].text = v[i].text /\ TextsOf(kind, v)[i].width = 4 * Len(v[i].text)
      BY <3>1 DEF Unlimited
    <3>5. IsText(v[i].text)
      BY <1>1, <1>2, <3>1
    <3>6. EncodeAll(v[i].text) \o <<0>> = EncodeText(v[i].text, 4 * Len(v[i].text)) \o Zeros(1)
      BY <3>5, TerminatedIs
    <3>7. w[i].text = DecodeText(EncodeText(v[i].text, 4 * Len(v[i].text)) \o Zeros(1))
      BY <1>13, <3>1, <3>6
    <3>8. 1 \in Nat
      OBVIOUS
    <3> QED
      BY <3>3, <3>4, <3>7, <3>8
  <2> QED
    BY <2>1, <2>2 DEF ReadBack
<1>17. Some(w) # None /\ Some(w)[1] = w
  BY DEF Some, None
<1> QED
  BY <1>8, <1>10, <1>11, <1>15, <1>16, <1>17

\* Its texts fit back.
LEMMA AdtlFits ==
    ASSUME kind = "adtl", chunk.data \in Seq(Byte), AdtlFromBytes(chunk.data) # None,
           NEW i \in DOMAIN RawTexts
    PROVE  LET raw == BeforeNul(RawTexts[i])
               new == EncodeAll(TextsOf(kind, AdtlFromBytes(chunk.data)[1])[i].text)
           IN  Len(new) <= Len(raw) /\ (~IsUtf8(raw) => new = raw)
<1>1. PICK b \in Seq(Byte) : b = chunk.data
  OBVIOUS
<1>2. HasForm(b, ADTL)
  BY <1>1 DEF AdtlFromBytes
<1>3. PICK v : v = AdtlFromBytes(b)[1]
  OBVIOUS
<1>4. PICK subs : subs = EntriesOf(SubChunks(b))
  OBVIOUS
<1>5. /\ Len(v) = Len(subs) /\ subs \in Seq(Sub) /\ v \in Seq(Entries)
      /\ \A j \in 1 .. Len(v) : v[j] = Entry(subs[j]) /\ subs[j] \in Sub /\ IsEntry(subs[j])
  BY <1>2, <1>3, <1>4, AdtlFromIs
<1>6. RawTexts = [j \in DOMAIN subs |-> Rest(subs[j].data, FixedLen(subs[j].id))]
  BY <1>1, <1>4 DEF RawTexts
<1>7. i \in 1 .. Len(v) /\ DOMAIN v = 1 .. Len(v)
      /\ RawTexts[i] = Rest(subs[i].data, FixedLen(subs[i].id))
  BY <1>5, <1>6
<1>8. TextsOf(kind, v)[i].text = v[i].text
  BY <1>7, AdtlTexts DEF Unlimited
<1>9. RawTexts[i] \in Seq(Byte) /\ v[i].text = DecodeText(RawTexts[i])
  BY <1>5, <1>7, EntryIs
<1> QED
  BY <1>1, <1>3, <1>8, <1>9, DecodeTextIs

\* It is its entries.
LEMMA AdtlSame ==
    ASSUME kind = "adtl", NEW v, IsAdtlList(v), NEW w, IsAdtlList(w), Untexted(kind, w) = Untexted(kind, v),
           \A i \in DOMAIN TextsOf(kind, v) : TextsOf(kind, w)[i].text = TextsOf(kind, v)[i].text
    PROVE  w = v
<1>1. v \in Seq(Entries) /\ w \in Seq(Entries)
  BY DEF IsAdtlList, Entries, EntryIds
<1>2. /\ TextsOf(kind, v) = [i \in DOMAIN v |-> Unlimited(v[i].text)]
      /\ TextsOf(kind, w) = [i \in DOMAIN w |-> Unlimited(w[i].text)]
  BY AdtlTexts
<1>3. PICK f, g : /\ f = [i \in DOMAIN w |-> <<w[i].id, w[i].cue, w[i].more>>]
                  /\ g = [i \in DOMAIN v |-> <<v[i].id, v[i].cue, v[i].more>>]
  OBVIOUS
<1>4. f = g
  BY <1>3, AdtlTexts
<1>5. DOMAIN w = DOMAIN v
  <2>1. DOMAIN f = DOMAIN w /\ DOMAIN g = DOMAIN v
    BY <1>3
  <2> QED
    BY <1>4, <2>1
<1>6. ASSUME NEW i \in DOMAIN v PROVE w[i] = v[i]
  <2>1. w[i].id = v[i].id /\ w[i].cue = v[i].cue /\ w[i].more = v[i].more
    <3>1. f[i] = <<w[i].id, w[i].cue, w[i].more>> /\ g[i] = <<v[i].id, v[i].cue, v[i].more>>
      BY <1>3, <1>5
    <3> QED
      BY <1>4, <3>1
  <2>2. w[i].text = v[i].text
    <3>1. TextsOf(kind, w)[i].text = TextsOf(kind, v)[i].text
      BY <1>2
    <3>2. TextsOf(kind, w)[i] = Unlimited(w[i].text) /\ TextsOf(kind, v)[i] = Unlimited(v[i].text)
      BY <1>2, <1>5
    <3> QED
      BY <3>1, <3>2 DEF Unlimited
  <2>3. w[i] \in Entries /\ v[i] \in Entries
    BY <1>1, <1>5
  <2>4. PICK A, B, C : /\ v[i] \in [id : A, cue : U32, more : B, text : C]
                       /\ w[i] \in [id : A, cue : U32, more : B, text : C]
    BY <2>3 DEF Entries
  <2>5. /\ v[i] = [id |-> v[i].id, cue |-> v[i].cue, more |-> v[i].more, text |-> v[i].text]
        /\ w[i] = [id |-> w[i].id, cue |-> w[i].cue, more |-> w[i].more, text |-> w[i].text]
    BY <2>4
  <2> QED
    BY Zenon, <2>1, <2>2, <2>5
<1> QED
  BY <1>1, <1>5, <1>6

-----------------------------------------------------------------------------
(* Records of numbers.                                                   *)

\* What the left side has, a concatenation has.
LEMMA HasLeft ==
    ASSUME NEW E, NEW x \in Seq(E), NEW y \in Seq(E), NEW z \in Seq(E), NEW at, Has(x, at, z)
    PROVE  Has(x \o y, at, z)
<1>1. x \o y \in Seq(E) /\ Has(x \o y, 0, x)
  BY HasSides
<1>2. PICK d \in Seq(E) : d = x \o y
  BY <1>1
<1>3. Len(d) \in Nat /\ Len(x) \in Nat /\ Len(z) \in Nat
  OBVIOUS
<1>4. Has(d, 0 + at, z)
  BY <1>1, <1>2, <1>3, HasWithin
<1>5. at \in Nat
  BY DEF Has
<1>6. 0 + at = at
  BY <1>5
<1> QED
  BY <1>2, <1>4, <1>6

\* Numbers, one after the other.
LEMMA AllBytesAre ==
    ASSUME NEW m \in Nat, NEW x \in [1 .. m -> U32]
    PROVE  /\ AllBytes(x) \in Seq(Byte) /\ Len(AllBytes(x)) = 2 * m
           /\ \A i \in 1 .. m : Has(AllBytes(x), 2 * (i - 1), NumberBytes(x[i]))
<1>1. PICK Y : Y = Seq(Byte)
  OBVIOUS
<1>2. PICK p : p = [i \in 1 .. m |-> NumberBytes(x[i])]
  OBVIOUS
<1>3. \A i \in 1 .. m : NumberBytes(x[i]) \in Y /\ Len(NumberBytes(x[i])) = 2
  <2> TAKE i \in 1 .. m
  <2>1. x[i] \in U32
    OBVIOUS
  <2>2. x[i] \in Nat
    BY <2>1, U32Is
  <2> QED
    BY <1>1, <2>2, NumberBytesAre
<1>4. p \in [1 .. m -> Y]
  BY <1>2, <1>3
<1>5. p \in Seq(Y) /\ Len(p) = m
  BY <1>4, FunctionToSeq
<1>6. p \in Seq(Seq(Byte)) /\ \A k \in 1 .. Len(p) : Len(p[k]) = 2
  BY <1>1, <1>2, <1>3, <1>5
<1>7. \A k \in 0 .. Len(p) : Len(Upto(p, k)) = 2 * k
  <2>1. 2 \in Nat
    OBVIOUS
  <2> QED
    BY <1>6, <2>1, UniformParts
<1>8. FlattenSeq(p) = AllBytes(x)
  <2>1. DOMAIN x = 1 .. m
    OBVIOUS
  <2> QED
    BY <1>2, <2>1 DEF AllBytes
<1>9. FlattenSeq(p) \in Seq(Byte) /\ Upto(p, Len(p)) = FlattenSeq(p)
  BY <1>6, Flattened
<1>10. m \in 0 .. Len(p)
  BY <1>5
<1>11. ASSUME NEW i \in 1 .. m PROVE Has(FlattenSeq(p), 2 * (i - 1), NumberBytes(x[i]))
  <2>1. i \in 1 .. Len(p) /\ i - 1 \in 0 .. Len(p)
    BY <1>5
  <2>2. Has(FlattenSeq(p), Len(Upto(p, i - 1)), p[i])
    BY <1>6, <2>1, HasPart
  <2>3. Len(Upto(p, i - 1)) = 2 * (i - 1) /\ p[i] = NumberBytes(x[i])
    BY <1>2, <1>7, <2>1
  <2> QED
    BY <2>2, <2>3
<1> QED
  BY <1>5, <1>7, <1>8, <1>9, <1>10, <1>11

\* As many numbers as there are pairs of bytes.
LEMMA NumbersAre ==
    ASSUME NEW m \in Nat, NEW b \in Seq(Byte), Len(b) = 2 * m
    PROVE  Numbers(b) = [i \in 1 .. m |-> NumberAt(b, 2 * (i - 1))] /\ Numbers(b) \in [1 .. m -> U32]
<1>1. Len(b) \div 2 = m
  <2>1. (2 * m) \div 2 = m
    BY SMT
  <2> QED
    BY <2>1
<1>2. Numbers(b) = [i \in 1 .. m |-> NumberAt(b, 2 * (i - 1))]
  BY <1>1 DEF Numbers
<1>3. \A i \in 1 .. m : NumberAt(b, 2 * (i - 1)) \in U32
  <2> TAKE i \in 1 .. m
  <2>1. 2 * (i - 1) \in Nat /\ 2 * (i - 1) + 2 <= Len(b)
    OBVIOUS
  <2> QED
    BY <2>1, NumberAtIs
<1> QED
  BY <1>2, <1>3

\* Numbers are read from the bytes they were written as.
LEMMA NumbersAreReadBack ==
    ASSUME NEW m \in Nat, NEW x \in [1 .. m -> U32], NEW b \in Seq(Byte), NEW at,
           Has(b, at, AllBytes(x))
    PROVE  Numbers(Bytes(b, at, 2 * m)) = x
<1>1. PICK y \in Seq(Byte) : y = AllBytes(x) /\ Len(y) = 2 * m
  BY AllBytesAre
<1>2. Bytes(b, at, 2 * m) = y
  BY <1>1, HasBytes
<1>3. Numbers(y) = [i \in 1 .. m |-> NumberAt(y, 2 * (i - 1))]
  BY <1>1, NumbersAre
<1>4. ASSUME NEW i \in 1 .. m PROVE NumberAt(y, 2 * (i - 1)) = x[i]
  <2>1. x[i] \in U32
    OBVIOUS
  <2>2. Has(y, 2 * (i - 1), NumberBytes(x[i]))
    BY <1>1, AllBytesAre
  <2> QED
    BY <2>1, <2>2, NumberIsReadBack
<1> QED
  BY <1>2, <1>3, <1>4

-----------------------------------------------------------------------------
(* Cue points and sample loops.                                            *)

\* Six numbers take twelve bytes.
LEMMA SixAre == SixNumbers = [1 .. 6 -> U32] /\ RecordLen = 12
<1>1. 12 \div 2 = 6
  BY SMT
<1> QED
  BY <1>1 DEF SixNumbers, RecordLen

\* The bytes of records.
LEMMA RecordBytesAre ==
    ASSUME NEW r \in Seq(SixNumbers)
    PROVE  /\ RecordBytes(r) \in Seq(Byte) /\ Len(RecordBytes(r)) = 12 * Len(r)
           /\ \A i \in 1 .. Len(r) : Has(RecordBytes(r), 12 * (i - 1), AllBytes(r[i]))
<1>1. PICK n \in Nat : n = Len(r) /\ DOMAIN r = 1 .. n
  OBVIOUS
<1>2. PICK Y : Y = Seq(Byte)
  OBVIOUS
<1>3. PICK p : p = [i \in 1 .. n |-> AllBytes(r[i])]
  OBVIOUS
<1>4. \A i \in 1 .. n : AllBytes(r[i]) \in Y /\ Len(AllBytes(r[i])) = 12
  <2> TAKE i \in 1 .. n
  <2>1. r[i] \in SixNumbers
    BY <1>1
  <2>2. r[i] \in [1 .. 6 -> U32]
    BY <2>1, SixAre
  <2>3. 6 \in Nat /\ 2 * 6 = 12
    OBVIOUS
  <2> QED
    BY <1>2, <2>2, <2>3, AllBytesAre
<1>5. p \in [1 .. n -> Y]
  BY <1>3, <1>4
<1>6. p \in Seq(Y) /\ Len(p) = n
  BY <1>5, FunctionToSeq
<1>7. p \in Seq(Seq(Byte)) /\ \A k \in 1 .. Len(p) : Len(p[k]) = 12
  BY <1>2, <1>3, <1>4, <1>6
<1>8. \A k \in 0 .. Len(p) : Len(Upto(p, k)) = 12 * k
  <2>1. 12 \in Nat
    OBVIOUS
  <2> QED
    BY <1>7, <2>1, UniformParts
<1>9. FlattenSeq(p) = RecordBytes(r)
  BY <1>1, <1>3 DEF RecordBytes
<1>10. FlattenSeq(p) \in Seq(Byte) /\ Upto(p, Len(p)) = FlattenSeq(p)
  BY <1>7, Flattened
<1>11. n \in 0 .. Len(p)
  BY <1>6
<1>12. ASSUME NEW i \in 1 .. n PROVE Has(FlattenSeq(p), 12 * (i - 1), AllBytes(r[i]))
  <2>1. i \in 1 .. Len(p) /\ i - 1 \in 0 .. Len(p)
    BY <1>6
  <2>2. Has(FlattenSeq(p), Len(Upto(p, i - 1)), p[i])
    BY <1>7, <2>1, HasPart
  <2>3. Len(Upto(p, i - 1)) = 12 * (i - 1) /\ p[i] = AllBytes(r[i])
    BY <1>3, <1>8, <2>1
  <2> QED
    BY <2>2, <2>3
<1> QED
  BY <1>1, <1>6, <1>8, <1>9, <1>10, <1>11, <1>12

\* As many records as there is room for.
LEMMA HowMany ==
    ASSUME NEW room \in Nat
    PROVE  /\ room \div 12 \in Nat /\ 12 * (room \div 12) <= room
           /\ \A k \in Nat : 12 * k <= room => k <= room \div 12
BY SMT

\* As many as are promised and there.
LEMMA RecordsAre ==
    ASSUME NEW b \in Seq(Byte), NEW at \in 0 .. Len(b), NEW promised \in U32,
           NEW r, r = Records(b, at, promised)
    PROVE  /\ r \in Seq(SixNumbers) /\ Len(r) \in U32
           /\ at + 12 * Len(r) <= Len(b)
           /\ at + 12 * promised <= Len(b) => Len(r) = promised
           /\ r = [i \in 1 .. Len(r) |-> Numbers(Bytes(b, at + 12 * (i - 1), 12))]
<1>1. PICK l \in Nat : l = Len(b)
  OBVIOUS
<1>2. promised \in Nat /\ promised <= 65535
  BY U32Is
<1>21. promised \in Nat
  BY <1>2
<1>3. PICK room \in Nat : room = l - at
  <2>1. at \in 0 .. l
    BY <1>1
  <2>2. l - at \in Nat
    BY <2>1
  <2> QED
    BY <2>2
<1>4. PICK n : n = Smaller(promised, room \div 12)
  OBVIOUS
<1>5. n \in Nat /\ n <= promised /\ 12 * n <= room /\ (12 * promised <= room => n = promised)
  <2>1. PICK p \in Nat : p = promised
    BY <1>21
  <2>2. PICK q : q = room \div 12
    OBVIOUS
  <2>3. q \in Nat /\ 12 * q <= room /\ (12 * p <= room => p <= q)
    BY <2>2, HowMany
  <2>4. n = IF p < q THEN p ELSE q
    BY <1>4, <2>1, <2>2 DEF Smaller
  <2>5. n \in Nat /\ n <= p /\ 12 * n <= room /\ (12 * p <= room => n = p)
    BY <2>3, <2>4
  <2> QED
    BY <2>1, <2>5
<1>6. r = [i \in 1 .. n |-> Numbers(Bytes(b, at + 12 * (i - 1), 12))]
  BY <1>1, <1>3, <1>4, SixAre DEF Records
<1>7. ASSUME NEW i \in 1 .. n
      PROVE  Numbers(Bytes(b, at + 12 * (i - 1), 12)) \in SixNumbers
  <2>1. PICK k \in Nat : k = at + 12 * (i - 1)
    OBVIOUS
  <2>2. k + 12 <= Len(b) /\ 12 \in Nat
    BY <1>1, <1>3, <1>5, <2>1
  <2>3. Bytes(b, k, 12) \in Seq(Byte) /\ Len(Bytes(b, k, 12)) = 12
    BY <2>2, BytesAre
  <2>4. 6 \in Nat /\ 2 * 6 = 12
    OBVIOUS
  <2>5. Numbers(Bytes(b, k, 12)) \in [1 .. 6 -> U32]
    BY <2>3, <2>4, NumbersAre
  <2> QED
    BY <2>1, <2>5, SixAre
<1>8. r \in [1 .. n -> SixNumbers]
  BY <1>6, <1>7
<1>9. r \in Seq(SixNumbers) /\ Len(r) = n
  BY <1>5, <1>8, FunctionToSeq
<1>10. n \in U32
  <2>1. n \in Nat /\ n <= 65535
    BY <1>2, <1>5
  <2> QED
    BY <2>1, U32Is
<1>11. at + 12 * n <= l /\ (at + 12 * promised <= l => n = promised)
  BY <1>1, <1>2, <1>3, <1>5
<1> QED
  BY <1>1, <1>6, <1>9, <1>10, <1>11

\* Records are read from the bytes they were written as.
LEMMA RecordsAreReadBack ==
    ASSUME NEW b \in Seq(Byte), NEW r \in Seq(SixNumbers), Len(r) \in U32,
           NEW at, Has(b, at, RecordBytes(r))
    PROVE  Records(b, at, Len(r)) = r
<1>1. PICK n \in Nat : n = Len(r)
  OBVIOUS
<1>2. PICK x \in Seq(Byte) : x = RecordBytes(r) /\ Len(x) = 12 * n
  BY <1>1, RecordBytesAre
<1>3. at \in Nat /\ at + 12 * n <= Len(b)
  BY <1>2 DEF Has
<1>4. at \in 0 .. Len(b)
  BY <1>3
<1>5. PICK q : q = Records(b, at, n)
  OBVIOUS
<1>6. /\ q \in Seq(SixNumbers) /\ Len(q) = n
      /\ \A i \in 1 .. n : q[i] = Numbers(Bytes(b, at + 12 * (i - 1), 12))
  <2>1. n \in U32
    BY <1>1
  <2>2. q \in Seq(SixNumbers) /\ Len(q) = n
    BY <1>3, <1>4, <1>5, <2>1, RecordsAre
  <2>3. q = [i \in 1 .. Len(q) |-> Numbers(Bytes(b, at + 12 * (i - 1), 12))]
    BY <1>4, <1>5, <2>1, RecordsAre
  <2> QED
    BY <2>2, <2>3
<1>7. ASSUME NEW i \in 1 .. n PROVE q[i] = r[i]
  <2>1. r[i] \in [1 .. 6 -> U32]
    <3>1. r[i] \in SixNumbers
      BY <1>1
    <3> QED
      BY <3>1, SixAre
  <2>2. PICK y \in Seq(Byte) : y = AllBytes(r[i])
    <3>1. 6 \in Nat
      OBVIOUS
    <3> QED
      BY <2>1, <3>1, AllBytesAre
  <2>3. Has(x, 12 * (i - 1), y)
    BY <1>1, <1>2, <2>2, RecordBytesAre
  <2>4. Len(b) \in Nat /\ Len(x) \in Nat /\ Len(y) \in Nat
    OBVIOUS
  <2>5. Has(b, at, x)
    BY <1>2
  <2>6. PICK k : k = 12 * (i - 1)
    OBVIOUS
  <2>7. Has(b, at + k, y)
    BY <2>3, <2>4, <2>5, <2>6, HasWithin
  <2>8. Numbers(Bytes(b, at + k, 2 * 6)) = r[i]
    <3>1. 6 \in Nat
      OBVIOUS
    <3> QED
      BY <2>1, <2>2, <2>7, <3>1, NumbersAreReadBack
  <2>9. 2 * 6 = 12
    OBVIOUS
  <2> QED
    BY <1>6, <2>6, <2>8, <2>9
<1>8. q = r
  BY <1>1, <1>6, <1>7, SeqEqual
<1> QED
  BY <1>1, <1>5, <1>8

\* Nothing is at no place.
LEMMA EmptyDomain == DOMAIN << >> = {}
<1>1. PICK s \in Seq(Int) : s = << >> /\ Len(s) = 0
  <2>1. << >> \in Seq(Int) /\ Len(<< >>) = 0
    OBVIOUS
  <2> QED
    BY <2>1
<1>2. DOMAIN s = {}
  BY <1>1
<1> QED
  BY <1>1, <1>2

\* Values without a text.
LEMMA NoTexts ==
    ASSUME kind \in {"cue ", "smpl"}, NEW v
    PROVE  /\ TextsOf(kind, v) = << >> /\ Untexted(kind, v) = v
           /\ Decoded(kind, v) /\ ReadBack(kind, v, v)
           /\ DOMAIN RawTexts = {}
<1>1. kind # "INFO" /\ kind # "adtl" /\ kind # "bext"
  OBVIOUS
<1>2. TextsOf(kind, v) = << >>
  BY <1>1 DEF TextsOf
<1>3. Untexted(kind, v) = v
  BY <1>1 DEF Untexted
<1>4. DOMAIN << >> = {}
  BY EmptyDomain
<1>5. RawTexts = << >>
  BY <1>1 DEF RawTexts
<1> QED
  BY <1>2, <1>3, <1>4, <1>5 DEF Decoded, ReadBack

\* Something is not nothing.
LEMMA SomeIs == \A v : Some(v)[1] = v /\ Some(v) # None
BY DEF Some, None

\* Values of cue points.
LEMMA CueIsValue == \A v : IsValue("cue ", v) <=> IsCue(v)
BY Zenon DEF IsValue

\* Cue points from any bytes.
LEMMA CueFromIs ==
    ASSUME NEW b \in Seq(Byte), NEW v, v = Records(b, 2, NumberAt(b, 0))
    PROVE  /\ CueFromBytes(b) = IF Len(b) < 2 THEN None ELSE Some(v)
           /\ ~(Len(b) < 2) => IsCue(v)
<1>1. CueFromBytes(b) = IF Len(b) < 2 THEN None ELSE Some(v)
  BY DEF CueFromBytes
<1>2. ASSUME ~(Len(b) < 2) PROVE IsCue(v)
  <2>1. 2 \in 0 .. Len(b) /\ 0 \in Nat /\ 0 + 2 <= Len(b)
    BY <1>2
  <2>2. NumberAt(b, 0) \in U32
    BY <2>1, NumberAtIs
  <2>3. v \in Seq(SixNumbers) /\ Len(v) \in U32
    BY <2>1, <2>2, RecordsAre
  <2> QED
    BY <2>3 DEF IsCue
<1> QED
  BY <1>1, <1>2

\* Cue points from any bytes are proper ones.
LEMMA CueFound ==
    ASSUME kind = "cue ", NEW b \in Seq(Byte)
    PROVE  Readable(kind, CueFromBytes(b))
<1>1. PICK v : v = Records(b, 2, NumberAt(b, 0))
  BY Zenon
<1>2. /\ CueFromBytes(b) = IF Len(b) < 2 THEN None ELSE Some(v)
      /\ ~(Len(b) < 2) => IsCue(v)
  BY Zenon, <1>1, CueFromIs
<1>3. Some(v)[1] = v
  BY Zenon, SomeIs
<1>4. IsCue(v) => IsValue(kind, v)
  BY Zenon, CueIsValue
<1>5. Decoded(kind, v)
  BY Zenon, NoTexts
<1> QED
  BY Zenon, <1>2, <1>3, <1>4, <1>5 DEF Readable

\* Cue points that are written are read back.
LEMMA CueWritten ==
    ASSUME NEW v, IsCue(v)
    PROVE  CueToBytes(v) \in Seq(Byte) /\ CueFromBytes(CueToBytes(v)) = Some(v)
<1>1. v \in Seq(SixNumbers) /\ Len(v) \in U32
  BY DEF IsCue
<1>2. PICK n \in U32 : n = Len(v)
  BY <1>1
<1>3. PICK nb \in Seq(Byte) : nb = NumberBytes(n) /\ Len(nb) = 2
  <2>1. n \in Nat
    BY U32Is
  <2> QED
    BY <2>1, NumberBytesAre
<1>4. PICK r \in Seq(Byte) : r = RecordBytes(v)
  BY <1>1, RecordBytesAre
<1>5. PICK b \in Seq(Byte) : /\ b = nb \o r /\ Len(b) = 2 + Len(r)
                             /\ Has(b, 0, nb) /\ Has(b, 2, r)
  <2>1. /\ nb \o r \in Seq(Byte) /\ Len(nb \o r) = Len(nb) + Len(r)
        /\ Has(nb \o r, 0, nb) /\ Has(nb \o r, Len(nb), r)
    BY HasSides
  <2>2. Len(nb \o r) = 2 + Len(r) /\ Has(nb \o r, 2, r)
    BY <1>3, <2>1
  <2> QED
    BY <2>1, <2>2
<1>6. b = CueToBytes(v)
  BY <1>2, <1>3, <1>4, <1>5 DEF CueToBytes
<1>7. NumberAt(b, 0) = n
  BY <1>3, <1>5, NumberIsReadBack
<1>8. Records(b, 2, Len(v)) = v
  BY <1>1, <1>4, <1>5, RecordsAreReadBack
<1>9. ~(Len(b) < 2)
  BY <1>5
<1>10. CueFromBytes(b) = Some(v)
  BY <1>2, <1>7, <1>8, <1>9 DEF CueFromBytes
<1> QED
  BY <1>6, <1>10

-----------------------------------------------------------------------------
(* Samplers.                                                               *)

\* A sampler from any bytes is a proper one.
LEMMA SmplFound ==
    ASSUME kind = "smpl", NEW b \in Seq(Byte)
    PROVE  Readable(kind, SmplFromBytes(b))
<1>1. CASE Len(b) < SmplFixedLen
  BY <1>1 DEF SmplFromBytes, Readable
<1>2. CASE ~(Len(b) < SmplFixedLen)
  <2>1. PICK l \in Nat : l = Len(b)
    OBVIOUS
  <2>2. SmplFixedLen = 18 /\ l >= 18
    BY <1>2, <2>1 DEF SmplFixedLen
  <2>3. PICK p \in U32 : p = NumberAt(b, 14)
    <3>1. 14 \in Nat /\ 14 + 2 <= Len(b)
      BY <2>1, <2>2
    <3> QED
      BY <3>1, NumberAtIs
  <2>4. PICK q \in U32 : q = NumberAt(b, 16)
    <3>1. 16 \in Nat /\ 16 + 2 <= Len(b)
      BY <2>1, <2>2
    <3> QED
      BY <3>1, NumberAtIs
  <2>5. PICK loops : loops = Records(b, 18, p)
    OBVIOUS
  <2>6. loops \in Seq(SixNumbers) /\ Len(loops) \in U32 /\ 18 + 12 * Len(loops) <= Len(b)
    <3>1. 18 \in 0 .. Len(b)
      BY <2>1, <2>2
    <3> QED
      BY <2>5, <3>1, RecordsAre
  <2>7. PICK at \in Nat : at = 18 + 12 * Len(loops)
    BY <2>6
  <2>8. PICK d : d = Smaller(q, l - at)
    OBVIOUS
  <2>9. d \in U32 /\ d \in Nat /\ at + d <= l
    <3>1. q \in Nat
      BY U32Is
    <3>2. l - at \in Nat
      BY <2>1, <2>6, <2>7
    <3>3. d = IF q < l - at THEN q ELSE l - at
      BY <2>8 DEF Smaller
    <3>4. d \in Nat /\ d <= q /\ d <= l - at
      BY <3>1, <3>2, <3>3
    <3>5. q <= 65535
      BY U32Is
    <3>6. d \in Nat /\ d <= 65535
      BY SMT, <3>1, <3>4, <3>5
    <3>7. d \in U32
      BY <3>6, U32Is
    <3>8. at + d <= l
      BY <3>2, <3>4
    <3> QED
      BY <3>4, <3>7, <3>8
  <2>10. PICK data \in Seq(Byte) : data = Bytes(b, at, d) /\ Len(data) = d
    BY <2>1, <2>9, BytesAre
  <2>11. PICK fields \in [1 .. 7 -> U32] : fields = Numbers(Bytes(b, 0, 14))
    <3>1. 0 \in Nat /\ 14 \in Nat /\ 0 + 14 <= Len(b) /\ 7 \in Nat /\ 14 = 2 * 7
      BY <2>1, <2>2
    <3>2. Bytes(b, 0, 14) \in Seq(Byte) /\ Len(Bytes(b, 0, 14)) = 14
      BY <3>1, BytesAre
    <3>3. Numbers(Bytes(b, 0, 14)) \in [1 .. 7 -> U32]
      BY <3>1, <3>2, NumbersAre
    <3> QED
      BY <3>3
  <2>12. PICK v : v = [fields |-> fields, loops |-> loops, data |-> data]
    OBVIOUS
  <2>13. SmplFromBytes(b) = Some(v)
    BY <1>2, <2>1, <2>2, <2>3, <2>4, <2>5, <2>7, <2>8, <2>10, <2>11, <2>12, SixAre DEF SmplFromBytes
  <2>14. v.loops = loops /\ v.data = data
    BY <2>12
  <2>15. IsSmpl(v)
    BY <2>6, <2>9, <2>10, <2>12, <2>14 DEF IsSmpl
  <2>16. IsValue(kind, v) /\ Decoded(kind, v)
    BY <2>15, NoTexts DEF IsValue
  <2>17. Some(v)[1] = v
    BY DEF Some
  <2> QED
    BY <2>13, <2>16, <2>17 DEF Readable
<1> QED
  BY <1>1, <1>2

HasFive(x, a, n, m, r, d) ==
    /\ x \in Seq(Byte) /\ Len(x) = (18 + Len(r)) + Len(d)
    /\ Has(x, 0, a) /\ Has(x, 14, n) /\ Has(x, 16, m) /\ Has(x, 18, r)
    /\ Has(x, 18 + Len(r), d)

\* Five parts, each behind the one before.
LEMMA FiveParts ==
    ASSUME NEW a \in Seq(Byte), Len(a) = 14, NEW n \in Seq(Byte), Len(n) = 2,
           NEW m \in Seq(Byte), Len(m) = 2, NEW r \in Seq(Byte), NEW d \in Seq(Byte)
    PROVE  HasFive((((a \o n) \o m) \o r) \o d, a, n, m, r, d)
<1>1. PICK p \in Seq(Byte) : p = a \o n /\ Len(p) = 16 /\ Has(p, 0, a) /\ Has(p, 14, n)
  <2>1. /\ a \o n \in Seq(Byte) /\ Len(a \o n) = Len(a) + Len(n)
        /\ Has(a \o n, 0, a) /\ Has(a \o n, Len(a), n)
    BY HasSides
  <2>2. Len(a \o n) = 16 /\ Has(a \o n, 14, n)
    BY <2>1
  <2> QED
    BY <2>1, <2>2
<1>2. PICK q \in Seq(Byte) : q = p \o m /\ Len(q) = 18 /\ Has(q, 0, a) /\ Has(q, 14, n) /\ Has(q, 16, m)
  <2>1. /\ p \o m \in Seq(Byte) /\ Len(p \o m) = Len(p) + Len(m)
        /\ Has(p \o m, Len(p), m)
    BY HasSides
  <2>2. Len(p \o m) = 18 /\ Has(p \o m, 16, m)
    BY <1>1, <2>1
  <2>3. Has(p \o m, 0, a) /\ Has(p \o m, 14, n)
    BY <1>1, HasLeft
  <2> QED
    BY <2>1, <2>2, <2>3
<1>3. PICK u \in Seq(Byte) : /\ u = q \o r /\ Len(u) = 18 + Len(r)
                             /\ Has(u, 0, a) /\ Has(u, 14, n) /\ Has(u, 16, m) /\ Has(u, 18, r)
  <2>1. /\ q \o r \in Seq(Byte) /\ Len(q \o r) = Len(q) + Len(r)
        /\ Has(q \o r, Len(q), r)
    BY HasSides
  <2>2. Len(q \o r) = 18 + Len(r) /\ Has(q \o r, 18, r)
    BY <1>2, <2>1
  <2>3. Has(q \o r, 0, a) /\ Has(q \o r, 14, n) /\ Has(q \o r, 16, m)
    BY <1>2, HasLeft
  <2> QED
    BY <2>1, <2>2, <2>3
<1>4. PICK x : x = (((a \o n) \o m) \o r) \o d /\ x = u \o d
  BY <1>1, <1>2, <1>3
<1>5. x \in Seq(Byte) /\ Len(x) = (18 + Len(r)) + Len(d) /\ Has(x, 18 + Len(r), d)
  <2>1. /\ u \o d \in Seq(Byte) /\ Len(u \o d) = Len(u) + Len(d)
        /\ Has(u \o d, Len(u), d)
    BY HasSides
  <2> QED
    BY <1>3, <1>4, <2>1
<1>6. Has(x, 0, a) /\ Has(x, 14, n) /\ Has(x, 16, m) /\ Has(x, 18, r)
  <2>1. Has(u \o d, 0, a) /\ Has(u \o d, 14, n) /\ Has(u \o d, 16, m) /\ Has(u \o d, 18, r)
    BY <1>3, HasLeft
  <2> QED
    BY <1>4, <2>1
<1>7. HasFive(x, a, n, m, r, d)
  BY <1>5, <1>6 DEF HasFive
<1> QED
  BY <1>4, <1>7

\* A sampler that is written is read back.
LEMMA SmplWritten ==
    ASSUME kind = "smpl", NEW v, IsSmpl(v)
    PROVE  SmplToBytes(v) \in Seq(Byte) /\ SmplFromBytes(SmplToBytes(v)) = Some(v)
<1>1. PICK fields \in [1 .. 7 -> U32], loops \in Seq(SixNumbers), data \in Seq(Byte) :
            v = [fields |-> fields, loops |-> loops, data |-> data]
  BY DEF IsSmpl
<1>2. v.fields = fields /\ v.loops = loops /\ v.data = data
  BY <1>1
<1>3. PICK n \in U32, m \in U32 : n = Len(loops) /\ m = Len(data)
  BY <1>2 DEF IsSmpl
<1>4. n \in Nat /\ m \in Nat
  BY <1>3
<1>5. PICK a \in Seq(Byte) : a = AllBytes(fields) /\ Len(a) = 14
  <2>1. 7 \in Nat /\ 2 * 7 = 14
    OBVIOUS
  <2> QED
    BY <2>1, AllBytesAre
<1>6. PICK nb \in Seq(Byte) : nb = NumberBytes(n) /\ Len(nb) = 2
  BY <1>4, NumberBytesAre
<1>7. PICK mb \in Seq(Byte) : mb = NumberBytes(m) /\ Len(mb) = 2
  BY <1>4, NumberBytesAre
<1>8. PICK r \in Seq(Byte) : r = RecordBytes(loops) /\ Len(r) = 12 * n
  BY <1>3, RecordBytesAre
<1>9. PICK b : b = (((a \o nb) \o mb) \o r) \o data
  OBVIOUS
<1>10. /\ b \in Seq(Byte) /\ Len(b) = (18 + Len(r)) + Len(data)
       /\ Has(b, 0, a) /\ Has(b, 14, nb) /\ Has(b, 16, mb) /\ Has(b, 18, r)
       /\ Has(b, 18 + Len(r), data)
  <2>1. Len(a) = 14 /\ Len(nb) = 2 /\ Len(mb) = 2
    BY <1>5, <1>6, <1>7
  <2>2. HasFive(b, a, nb, mb, r, data)
    BY <1>9, <2>1, FiveParts
  <2> QED
    BY <2>2 DEF HasFive
<1>11. b = SmplToBytes(v)
  BY <1>2, <1>3, <1>5, <1>6, <1>7, <1>8, <1>9 DEF SmplToBytes
<1>12. NumberAt(b, 14) = n /\ NumberAt(b, 16) = m
  BY <1>6, <1>7, <1>10, NumberIsReadBack
<1>13. Numbers(Bytes(b, 0, 14)) = fields
  <2>1. Numbers(Bytes(b, 0, 2 * 7)) = fields
    <3>1. 7 \in Nat
      OBVIOUS
    <3> QED
      BY <1>5, <1>10, <3>1, NumbersAreReadBack
  <2>2. 2 * 7 = 14
    OBVIOUS
  <2> QED
    BY <2>1, <2>2
<1>14. Records(b, 18, n) = loops
  <2>1. Len(loops) \in U32
    BY <1>3
  <2>2. Records(b, 18, Len(loops)) = loops
    BY <1>8, <1>10, <2>1, RecordsAreReadBack
  <2> QED
    BY <1>3, <2>2
<1>15. PICK at \in Nat : at = 18 + 12 * n
  BY <1>4
<1>16. Len(b) - at = m /\ ~(Len(b) < 18)
  BY <1>3, <1>4, <1>8, <1>10, <1>15
<1>17. Smaller(m, m) = m
  BY DEF Smaller
<1>18. Bytes(b, at, m) = data
  <2>1. Has(b, at, data)
    BY <1>8, <1>10, <1>15
  <2> QED
    BY <1>3, <1>10, <2>1, HasBytes
<1>19. SmplFromBytes(b) = Some(v)
  <2>1. SmplFixedLen = 18 /\ RecordLen = 12
    BY DEF SmplFixedLen, RecordLen
  <2> QED
    BY <1>1, <1>3, <1>12, <1>13, <1>14, <1>15, <1>16, <1>17, <1>18, <2>1 DEF SmplFromBytes
<1> QED
  BY <1>10, <1>11, <1>19

-----------------------------------------------------------------------------
(* The fields of a bext chunk.                                           *)

\* Widths of the text fields.
LEMMA WidthsAre ==
    /\ Len(Widths) \in Nat /\ DOMAIN Widths = 1 .. Len(Widths)
    /\ \A i \in 1 .. Len(Widths) : Widths[i] \in Nat
<1>1. Widths \in Seq(Nat)
  BY Zenon, BoundsAssumption DEF BoundsAssumption
<1> QED
  BY <1>1

\* Each field begins where the one before ends.
LEMMA FieldAtIs ==
    ASSUME NEW m \in Nat, m = Len(Widths)
    PROVE  /\ FieldAt[1] = 0
           /\ \A i \in 1 .. m : FieldAt[i + 1] = FieldAt[i] + Widths[i]
           /\ \A i \in 1 .. m + 1 : FieldAt[i] \in Nat
<1> DEFINE F(f) == [i \in 1 .. m + 1 |-> IF i = 1 THEN 0 ELSE f[i - 1] + Widths[i - 1]]
<1>1. \A i \in 1 .. m : Widths[i] \in Nat
  BY WidthsAre
<1>2. FieldAt = CHOOSE f : f = F(f)
  BY DEF FieldAt
<1>3. PICK D, stop : D = 1 .. m + 1 /\ stop = {1}
  OBVIOUS
<1>4. PICK base, rank, next, step : /\ base = [i \in D |-> 0]
                                    /\ rank = [i \in D |-> i]
                                    /\ next = [i \in D |-> IF i = 1 THEN 1 ELSE i - 1]
                                    /\ step = [i \in D |-> [x \in Nat |-> x + Widths[next[i]]]]
  <2>1. PICK base, rank, next : /\ base = [i \in D |-> 0]
                                /\ rank = [i \in D |-> i]
                                /\ next = [i \in D |-> IF i = 1 THEN 1 ELSE i - 1]
    OBVIOUS
  <2> QED
    BY <2>1
<1>5. base \in [D -> Nat] /\ rank \in [D -> 0 .. m + 1] /\ next \in [D -> D]
  BY <1>3, <1>4
<1>51. ASSUME m # 0 PROVE \A i \in D : next[i] \in 1 .. m
  BY <1>3, <1>4, <1>51
<1>6. CASE m = 0
  <2>1. PICK f : f = [i \in 1 .. 1 |-> 0]
    OBVIOUS
  <2>2. f = F(f)
    BY <1>6, <2>1
  <2>3. FieldAt = F(FieldAt)
    <3> HIDE DEF F
    <3> QED
      BY <1>2, <2>2
  <2> QED
    BY <1>6, <2>3
<1>7. CASE m # 0
  <2>1. step \in [D -> [Nat -> Nat]]
    <3>1. \A i \in D, x \in Nat : x + Widths[next[i]] \in Nat
      BY <1>1, <1>51, <1>7
    <3> QED
      BY <1>4, <3>1
  <2>2. \A i \in D : i \notin stop => rank[next[i]] < rank[i]
    BY <1>3, <1>4
  <2>3. PICK f \in [D -> Nat] :
            \A i \in D : f[i] = (IF i \in stop THEN base[i] ELSE step[i][f[next[i]]])
    <3>1. m + 1 \in Nat
      OBVIOUS
    <3>2. Recursive(D, Nat, m + 1, rank, stop, base, next, step)
      BY <1>5, <2>1, <2>2, <3>1 DEF Recursive
    <3> QED
      BY <3>2, Recursion
  <2>4. ASSUME NEW i \in 1 .. m + 1
        PROVE  f[i] = (IF i = 1 THEN 0 ELSE f[i - 1] + Widths[i - 1])
    <3>1. CASE i = 1
      BY <1>3, <1>4, <2>3, <3>1
    <3>2. CASE i # 1
      <4>1. i \in D /\ next[i] = i - 1 /\ i - 1 \in D /\ i \notin stop
        BY <1>3, <1>4, <3>2
      <4>2. f[i] = step[i][f[i - 1]] /\ f[i - 1] \in Nat
        BY <2>3, <4>1
      <4>3. step[i] = [x \in Nat |-> x + Widths[i - 1]]
        BY <1>4, <4>1
      <4> QED
        BY <3>2, <4>2, <4>3
    <3> QED
      BY <3>1, <3>2
  <2>5. f = F(f)
    BY <1>3, <2>3, <2>4
  <2>6. FieldAt = F(FieldAt)
    <3> HIDE DEF F
    <3> QED
      BY <1>2, <2>5
  <2>7. \A i \in 1 .. m + 1 : FieldAt[i] = (IF i = 1 THEN 0 ELSE FieldAt[i - 1] + Widths[i - 1])
    BY <2>6
  <2>8. FieldAt[1] = 0
    BY <2>7
  <2>9. ASSUME NEW i \in 1 .. m PROVE FieldAt[i + 1] = FieldAt[i] + Widths[i]
    <3>1. i + 1 \in 1 .. m + 1 /\ i + 1 # 1 /\ (i + 1) - 1 = i
      OBVIOUS
    <3> QED
      BY <2>7, <3>1
  <2>10. \A i \in 1 .. m + 1 : FieldAt[i] \in Nat
    <3>1. PICK S : S = {k \in 0 .. m : FieldAt[k + 1] \in Nat}
      OBVIOUS
    <3>2. 0 \in S
      BY <2>8, <3>1
    <3>3. ASSUME NEW k \in 0 .. m - 1, k \in S PROVE k + 1 \in S
      <4>1. k + 1 \in 1 .. m /\ k + 1 \in 0 .. m
        OBVIOUS
      <4>2. FieldAt[(k + 1) + 1] = FieldAt[k + 1] + Widths[k + 1]
        BY <2>9, <4>1
      <4>3. FieldAt[k + 1] \in Nat /\ Widths[k + 1] \in Nat
        BY <1>1, <3>1, <3>3, <4>1
      <4> QED
        BY <3>1, <4>1, <4>2, <4>3
    <3>4. \A k \in 0 .. m : k \in S
      BY <3>2, <3>3, Induct
    <3>5. ASSUME NEW i \in 1 .. m + 1 PROVE FieldAt[i] \in Nat
      <4>1. i - 1 \in 0 .. m /\ (i - 1) + 1 = i
        OBVIOUS
      <4>2. i - 1 \in S
        BY <3>4, <4>1
      <4> QED
        BY <3>1, <4>1, <4>2
    <3> QED
      BY <3>5
  <2> QED
    BY <2>8, <2>9, <2>10
<1> QED
  BY <1>6, <1>7

\* Fields of that width, one behind the other, are where they should be.
LEMMA FieldsAreThere ==
    ASSUME NEW parts \in Seq(Seq(Byte)), NEW m \in Nat, m = Len(Widths), Len(parts) = m,
           \A i \in 1 .. m : Len(parts[i]) = Widths[i]
    PROVE  /\ \A i \in 1 .. m + 1 : Len(Upto(parts, i - 1)) = FieldAt[i]
           /\ Len(FlattenSeq(parts)) = TimeAt
<1>1. PICK S : S = {k \in 0 .. m : Len(Upto(parts, k)) = FieldAt[k + 1]}
  OBVIOUS
<1>2. 0 \in S
  <2>1. Len(Upto(parts, 0)) = 0
    <3>1. Upto(parts, 0) = << >>
      BY Flattened
    <3> QED
      BY <3>1
  <2>2. FieldAt[1] = 0
    BY Zenon, FieldAtIs
  <2> QED
    BY <1>1, <2>1, <2>2
<1>3. ASSUME NEW k \in 0 .. m - 1, k \in S PROVE k + 1 \in S
  <2>1. k + 1 \in 1 .. m /\ k + 1 \in 0 .. m /\ k \in 0 .. m /\ (k + 1) - 1 = k
    OBVIOUS
  <2>2. Upto(parts, k + 1) = Upto(parts, k) \o parts[k + 1]
    BY <2>1, Flattened
  <2>3. Upto(parts, k) \in Seq(Byte) /\ parts[k + 1] \in Seq(Byte)
    BY <2>1, Flattened
  <2>4. Len(Upto(parts, k + 1)) = Len(Upto(parts, k)) + Len(parts[k + 1])
    BY <2>2, <2>3, HasSides
  <2>5. FieldAt[(k + 1) + 1] = FieldAt[k + 1] + Widths[k + 1]
    BY <2>1, FieldAtIs
  <2>6. Len(Upto(parts, k)) = FieldAt[k + 1]
    BY <1>1, <1>3
  <2>7. Len(parts[k + 1]) = Widths[k + 1]
    BY <2>1
  <2> QED
    BY <1>1, <2>1, <2>4, <2>5, <2>6, <2>7
<1>4. \A k \in 0 .. m : k \in S
  BY <1>2, <1>3, Induct
<1>5. ASSUME NEW i \in 1 .. m + 1 PROVE Len(Upto(parts, i - 1)) = FieldAt[i]
  <2>1. i - 1 \in 0 .. m /\ (i - 1) + 1 = i
    OBVIOUS
  <2>2. i - 1 \in S
    BY <1>4, <2>1
  <2> QED
    BY <1>1, <2>1, <2>2
<1>6. Len(FlattenSeq(parts)) = TimeAt
  <2>1. Upto(parts, m) = FlattenSeq(parts)
    BY Flattened
  <2>2. m \in S
    BY <1>4
  <2>3. TimeAt = FieldAt[m + 1]
    BY DEF TimeAt
  <2> QED
    BY <1>1, <2>1, <2>2, <2>3
<1> QED
  BY <1>5, <1>6

\* They end before the time.
LEMMA FieldsEnd ==
    ASSUME NEW i \in 1 .. Len(Widths)
    PROVE  FieldAt[i] \in Nat /\ Widths[i] \in Nat /\ TimeAt \in Nat /\ FieldAt[i] + Widths[i] <= TimeAt
<1>1. PICK m \in Nat : m = Len(Widths)
  BY WidthsAre
<1>2. PICK S : S = {k \in 0 .. m : i <= k => FieldAt[i] + Widths[i] <= FieldAt[k + 1]}
  OBVIOUS
<1>3. i \in 1 .. m /\ i + 1 \in 1 .. m + 1
  BY <1>1
<1>4. /\ \A j \in 1 .. m + 1 : FieldAt[j] \in Nat
      /\ \A j \in 1 .. m : FieldAt[j + 1] = FieldAt[j] + Widths[j]
  BY <1>1, FieldAtIs
<1>5. Widths[i] \in Nat /\ FieldAt[i] \in Nat
  BY <1>3, <1>4, WidthsAre
<1>6. 0 \in S
  BY <1>2, <1>3
<1>7. ASSUME NEW k \in 0 .. m - 1, k \in S PROVE k + 1 \in S
  <2>1. k + 1 \in 1 .. m /\ k + 1 \in 0 .. m /\ k + 1 \in 1 .. m + 1 /\ (k + 1) + 1 \in 1 .. m + 1
    OBVIOUS
  <2>2. FieldAt[(k + 1) + 1] = FieldAt[k + 1] + Widths[k + 1]
    BY <1>4, <2>1
  <2>3. FieldAt[k + 1] \in Nat /\ FieldAt[(k + 1) + 1] \in Nat /\ Widths[k + 1] \in Nat
    BY <1>1, <1>4, <2>1, WidthsAre
  <2>4. CASE i <= k
    <3>1. FieldAt[i] + Widths[i] <= FieldAt[k + 1]
      BY <1>2, <1>7, <2>4
    <3>2. FieldAt[i] + Widths[i] <= FieldAt[(k + 1) + 1]
      BY <1>5, <2>2, <2>3, <3>1
    <3> QED
      BY <1>2, <2>1, <3>2
  <2>5. CASE i = k + 1
    BY <1>2, <1>5, <2>1, <2>2, <2>5
  <2>6. CASE i > k + 1
    BY <1>2, <1>3, <2>1, <2>6
  <2> QED
    BY <1>3, <2>4, <2>5, <2>6
<1>8. m \in S
  <2>1. \A k \in 0 .. m : k \in S
    BY <1>6, <1>7, Induct
  <2> QED
    BY <2>1
<1>9. TimeAt = FieldAt[m + 1] /\ m + 1 \in 1 .. m + 1
  BY <1>1 DEF TimeAt
<1> QED
  BY <1>1, <1>2, <1>3, <1>4, <1>5, <1>8, <1>9

\* One more at the end.
LEMMA OneMore ==
    ASSUME NEW m \in Nat, NEW f, NEW u
    PROVE  /\ DOMAIN ([i \in 1 .. m |-> f[i]] \o <<u>>) = 1 .. m + 1
           /\ \A i \in 1 .. m : ([j \in 1 .. m |-> f[j]] \o <<u>>)[i] = f[i]
           /\ ([i \in 1 .. m |-> f[i]] \o <<u>>)[m + 1] = u
<1>1. PICK g : g = [i \in 1 .. m |-> f[i]]
  OBVIOUS
<1>2. PICK E : E = {f[i] : i \in 1 .. m} \cup {u}
  OBVIOUS
<1>3. g \in [1 .. m -> E] /\ u \in E
  BY <1>1, <1>2
<1>4. g \in Seq(E) /\ Len(g) = m
  BY <1>3, FunctionToSeq
<1>5. <<u>> \in Seq(E) /\ Len(<<u>>) = 1 /\ <<u>>[1] = u
  BY <1>3
<1>6. PICK h \in Seq(E) : /\ h = g \o <<u>> /\ Len(h) = m + 1
                          /\ \A i \in 1 .. m : h[i] = g[i]
                          /\ h[m + 1] = u
  <2>1. g \o <<u>> \in Seq(E) /\ Len(g \o <<u>>) = Len(g) + Len(<<u>>)
    BY <1>4, <1>5, HasSides
  <2>2. Has(g \o <<u>>, 0, g) /\ Has(g \o <<u>>, Len(g), <<u>>)
    BY <1>4, <1>5, HasSides
  <2>3. \A i \in 1 .. m : (g \o <<u>>)[i] = g[i]
    BY <1>4, <2>2 DEF Has
  <2>4. (g \o <<u>>)[m + 1] = u
    <3>1. \A i \in 1 .. Len(<<u>>) : (g \o <<u>>)[Len(g) + i] = <<u>>[i]
      BY <2>2 DEF Has
    <3>2. 1 \in 1 .. Len(<<u>>)
      BY <1>5
    <3>3. (g \o <<u>>)[Len(g) + 1] = <<u>>[1]
      BY <3>1, <3>2
    <3> QED
      BY <1>4, <1>5, <3>3
  <2> QED
    BY <1>4, <1>5, <2>1, <2>3, <2>4
<1>7. DOMAIN h = 1 .. m + 1
  BY <1>6
<1> QED
  BY <1>1, <1>6, <1>7

\* Values and texts of a bext chunk.
LEMMA BextTexts ==
    ASSUME kind = "bext", NEW v
    PROVE  /\ DOMAIN TextsOf(kind, v) = 1 .. Len(Widths) + 1
           /\ \A i \in 1 .. Len(Widths) :
                TextsOf(kind, v)[i].text = v.texts[i] /\ TextsOf(kind, v)[i].width = Widths[i]
           /\ TextsOf(kind, v)[Len(Widths) + 1] = Unlimited(v.history)
           /\ Untexted(kind, v) = <<v.time, v.copied>>
           /\ IsValue(kind, v) <=> IsBext(v)
<1>1. PICK m \in Nat : m = Len(Widths) /\ DOMAIN Widths = 1 .. m
  BY WidthsAre
<1>2. PICK f : f = [i \in 1 .. m |-> [text |-> v.texts[i], width |-> Widths[i]]]
  OBVIOUS
<1>3. PICK u : u = Unlimited(v.history)
  OBVIOUS
<1>4. TextsOf(kind, v) = [i \in 1 .. m |-> f[i]] \o <<u>>
  <2>1. f = [i \in 1 .. m |-> f[i]]
    BY <1>2
  <2>2. TextsOf(kind, v) = [i \in DOMAIN Widths |-> [text |-> v.texts[i], width |-> Widths[i]]]
                        \o <<Unlimited(v.history)>>
    BY DEF TextsOf
  <2> QED
    BY <1>1, <1>2, <1>3, <2>1, <2>2
<1>5. /\ DOMAIN TextsOf(kind, v) = 1 .. m + 1
      /\ \A i \in 1 .. m : TextsOf(kind, v)[i] = f[i]
      /\ TextsOf(kind, v)[m + 1] = u
  BY <1>4, OneMore
<1>6. \A i \in 1 .. m : TextsOf(kind, v)[i].text = v.texts[i] /\ TextsOf(kind, v)[i].width = Widths[i]
  BY <1>2, <1>5
<1>7. Untexted(kind, v) = <<v.time, v.copied>>
  BY DEF Untexted
<1>8. IsValue(kind, v) <=> IsBext(v)
  BY Zenon DEF IsValue
<1> QED
  BY <1>1, <1>3, <1>5, <1>6, <1>7, <1>8

\* The bytes of the texts in a bext chunk.
LEMMA BextRaw ==
    ASSUME kind = "bext"
    PROVE  /\ DOMAIN RawTexts = 1 .. Len(Widths) + 1
           /\ \A i \in 1 .. Len(Widths) : RawTexts[i] = Bytes(chunk.data, FieldAt[i], Widths[i])
           /\ RawTexts[Len(Widths) + 1] = Rest(chunk.data, BextFixedLen)
<1>1. PICK m \in Nat : m = Len(Widths) /\ DOMAIN Widths = 1 .. m
  BY WidthsAre
<1>2. PICK f : f = [i \in 1 .. m |-> Bytes(chunk.data, FieldAt[i], Widths[i])]
  OBVIOUS
<1>3. PICK u : u = Rest(chunk.data, BextFixedLen)
  OBVIOUS
<1>4. RawTexts = [i \in 1 .. m |-> f[i]] \o <<u>>
  <2>1. f = [i \in 1 .. m |-> f[i]]
    BY <1>2
  <2>2. RawTexts = [i \in DOMAIN Widths |-> Bytes(chunk.data, FieldAt[i], Widths[i])]
                        \o <<Rest(chunk.data, BextFixedLen)>>
    BY DEF RawTexts
  <2> QED
    BY <1>1, <1>2, <1>3, <2>1, <2>2
<1>5. /\ DOMAIN RawTexts = 1 .. m + 1
      /\ \A i \in 1 .. m : RawTexts[i] = f[i]
      /\ RawTexts[m + 1] = u
  BY <1>4, OneMore
<1> QED
  BY <1>1, <1>2, <1>3, <1>5

-----------------------------------------------------------------------------
(* The time is a number of two halves.                                     *)

\* From its halves.
LEMMA TimeFrom ==
    ASSUME NEW x \in U32, NEW y \in U32
    PROVE  /\ x + (U32Max + 1) * y \in Nat
           /\ (x + (U32Max + 1) * y) \div (U32Max + 1) = y
           /\ (x + (U32Max + 1) * y) % (U32Max + 1) = x
<1>1. x \in Nat /\ x <= 65535 /\ y \in Nat /\ y <= 65535
  BY U32Is
<1>2. U32Max + 1 = 65536
  BY SMT DEF U32Max
<1>3. PICK t \in Nat : t = x + 65536 * y
  BY SMT, <1>1
<1>4. t \div 65536 = y /\ t % 65536 = x
  BY SMT, <1>1, <1>3
<1> QED
  BY SMT, <1>2, <1>3, <1>4

\* Into its halves.
LEMMA TimeTo ==
    ASSUME NEW t \in Nat
    PROVE  /\ t % (U32Max + 1) \in U32 /\ t \div (U32Max + 1) \in Nat
           /\ (t % (U32Max + 1)) + (U32Max + 1) * (t \div (U32Max + 1)) = t
<1>1. U32Max + 1 = 65536
  BY SMT DEF U32Max
<1>2. t \div 65536 \in Nat /\ t = 65536 * (t \div 65536) + (t % 65536)
  BY SMT
<1>3. (t % 65536) \in Nat /\ (t % 65536) <= 65535
  BY SMT
<1>4. PICK x, y \in Nat : x = (t % 65536) /\ y = t \div 65536
  BY <1>2, <1>3
<1>5. x \in U32
  <2>1. x \in Nat /\ x <= 65535
    BY SMT, <1>3, <1>4
  <2> QED
    BY <2>1, U32Is
<1>6. x + 65536 * y = t
  BY SMT, <1>2, <1>4
<1> QED
  BY SMT, <1>1, <1>4, <1>5, <1>6

-----------------------------------------------------------------------------

\* Where the parts of a bext chunk are.
LEMMA LayoutIs ==
    /\ TimeAt \in Nat /\ CopiedAt \in Nat /\ BextFixedLen \in Nat
    /\ Copied \in Nat /\ Reserved \in Nat
    /\ CopiedAt = TimeAt + 4 /\ BextFixedLen = CopiedAt + Copied + Reserved
<1>1. PICK m \in Nat : m = Len(Widths)
  BY WidthsAre
<1>2. TimeAt = FieldAt[m + 1] /\ m + 1 \in 1 .. m + 1
  BY <1>1 DEF TimeAt
<1>3. TimeAt \in Nat
  BY <1>1, <1>2, FieldAtIs
<1>4. Copied \in Nat /\ Reserved \in Nat
  BY Zenon, BoundsAssumption DEF BoundsAssumption
<1> QED
  BY <1>3, <1>4 DEF CopiedAt, BextFixedLen

\* A text of n bytes that was decoded.
LEMMA DecodedFits ==
    ASSUME NEW raw \in Seq(Byte), NEW t, t = DecodeText(raw)
    PROVE  /\ IsText(t) /\ t \in Seq(Int) /\ \A i \in 1 .. Len(t) : t[i] # 0
           /\ Len(EncodeAll(t)) <= Len(raw)
<1>1. IsText(t) /\ (\A i \in 1 .. Len(t) : t[i] # 0) /\ Len(EncodeAll(t)) <= Len(BeforeNul(raw))
  BY DecodeTextIs
<1>2. PICK y \in Nat : y = Len(raw)
  OBVIOUS
<1>3. PICK x \in 0 .. y : x = Len(BeforeNul(raw))
  BY <1>2, BeforeNulType
<1>4. PICK e \in Nat : e = Len(EncodeAll(t))
  <2>1. EncodeAll(t) \in Seq(Byte)
    BY <1>1, EncodeAllIs
  <2> QED
    BY <2>1
<1>5. e <= y
  BY <1>1, <1>2, <1>3, <1>4
<1> QED
  BY <1>1, <1>2, <1>4, <1>5 DEF IsText

\* What Bext::from_bytes returns.
LEMMA BextFromIs ==
    ASSUME NEW b \in Seq(Byte), ~(Len(b) < BextFixedLen), NEW v, v = BextFromBytes(b)[1]
    PROVE  /\ BextFromBytes(b) = Some(v) /\ IsBext(v)
           /\ \A i \in 1 .. Len(Widths) :
                /\ Bytes(b, FieldAt[i], Widths[i]) \in Seq(Byte)
                /\ Len(Bytes(b, FieldAt[i], Widths[i])) = Widths[i]
                /\ v.texts[i] = DecodeText(Bytes(b, FieldAt[i], Widths[i]))
           /\ v.time = NumberAt(b, TimeAt) + (U32Max + 1) * NumberAt(b, TimeAt + 2)
           /\ v.copied = Bytes(b, CopiedAt, Copied)
           /\ Rest(b, BextFixedLen) \in Seq(Byte)
           /\ v.history = DecodeText(Rest(b, BextFixedLen))
<1>1. PICK m \in Nat : m = Len(Widths) /\ DOMAIN Widths = 1 .. m
  BY WidthsAre
<1>2. PICK l \in Nat : l = Len(b)
  OBVIOUS
<1>3. /\ TimeAt \in Nat /\ CopiedAt \in Nat /\ BextFixedLen \in Nat
      /\ Copied \in Nat /\ Reserved \in Nat
      /\ CopiedAt = TimeAt + 4 /\ BextFixedLen = CopiedAt + Copied + Reserved
      /\ BextFixedLen <= l
  BY <1>2, LayoutIs
<1>4. PICK texts : texts = [i \in 1 .. m |-> DecodeText(Bytes(b, FieldAt[i], Widths[i]))]
  OBVIOUS
<1>5. ASSUME NEW i \in 1 .. m
      PROVE  /\ Bytes(b, FieldAt[i], Widths[i]) \in Seq(Byte)
             /\ Len(Bytes(b, FieldAt[i], Widths[i])) = Widths[i]
             /\ texts[i] = DecodeText(Bytes(b, FieldAt[i], Widths[i]))
             /\ IsText(texts[i]) /\ texts[i] \in Seq(Int)
  <2>1. PICK a, n \in Nat : a = FieldAt[i] /\ n = Widths[i] /\ a + n <= TimeAt
    BY <1>1, FieldsEnd
  <2>2. a + n <= Len(b)
    BY <1>2, <1>3, <2>1
  <2>3. Bytes(b, a, n) \in Seq(Byte) /\ Len(Bytes(b, a, n)) = n
    BY <2>2, BytesAre
  <2>4. texts[i] = DecodeText(Bytes(b, a, n))
    BY <1>4, <2>1
  <2> QED
    BY <2>1, <2>3, <2>4, DecodedFits
<1>6. PICK time : time = NumberAt(b, TimeAt) + (U32Max + 1) * NumberAt(b, TimeAt + 2)
  OBVIOUS
<1>7. time \in Nat /\ time \div (U32Max + 1) \in U32
  <2>1. PICK p \in Nat : p = TimeAt + 2 /\ p + 2 <= Len(b) /\ TimeAt + 2 <= Len(b)
    BY <1>2, <1>3
  <2>2. NumberAt(b, TimeAt) \in U32 /\ NumberAt(b, p) \in U32
    BY <1>3, <2>1, NumberAtIs
  <2>3. PICK x, y \in U32 : x = NumberAt(b, TimeAt) /\ y = NumberAt(b, TimeAt + 2)
    BY <2>1, <2>2
  <2>4. time = x + (U32Max + 1) * y
    BY <1>6, <2>3
  <2>5. time \in Nat /\ time \div (U32Max + 1) = y
    BY <2>4, TimeFrom
  <2> QED
    BY <2>5
<1>8. PICK copied : copied = Bytes(b, CopiedAt, Copied) /\ copied \in [1 .. Copied -> Byte]
  <2>1. CopiedAt + Copied <= Len(b)
    BY <1>2, <1>3
  <2>2. Bytes(b, CopiedAt, Copied) \in Seq(Byte) /\ Len(Bytes(b, CopiedAt, Copied)) = Copied
    BY <1>3, <2>1, BytesAre
  <2> QED
    BY <2>2
<1>9. Rest(b, BextFixedLen) \in Seq(Byte)
  <2>1. BextFixedLen \in 0 .. Len(b)
    BY <1>2, <1>3
  <2> QED
    BY <2>1, RestIs
<1>10. PICK history : /\ history = DecodeText(Rest(b, BextFixedLen))
                      /\ IsText(history) /\ history \in Seq(Int)
  BY <1>9, DecodedFits
<1>11. PICK x : x = [texts |-> texts, time |-> time, copied |-> copied, history |-> history]
  OBVIOUS
<1>12. BextFromBytes(b) = Some(x)
  BY <1>1, <1>4, <1>6, <1>8, <1>10, <1>11 DEF BextFromBytes
<1>13. v = x
  BY <1>12 DEF Some
<1>14. v.texts = texts /\ v.time = time /\ v.copied = copied /\ v.history = history
  BY <1>11, <1>13
<1>15. texts \in [1 .. m -> Seq(Int)]
  BY <1>4, <1>5
<1>16. IsBext(v)
  <2>1. v \in [texts : [DOMAIN Widths -> Seq(Int)], time : Nat,
               copied : [1 .. Copied -> Byte], history : Seq(Int)]
    BY <1>1, <1>7, <1>8, <1>10, <1>11, <1>13, <1>15
  <2>2. \A i \in DOMAIN Widths : IsText(v.texts[i])
    BY <1>1, <1>5, <1>14
  <2> QED
    BY <1>7, <1>10, <1>14, <2>1, <2>2 DEF IsBext
<1> QED
  BY <1>1, <1>5, <1>6, <1>8, <1>9, <1>10, <1>12, <1>13, <1>14, <1>16

\* A bext chunk from any bytes is a proper one.
LEMMA BextFound ==
    ASSUME kind = "bext", NEW b \in Seq(Byte)
    PROVE  Readable(kind, BextFromBytes(b))
<1>1. CASE Len(b) < BextFixedLen
  BY <1>1 DEF BextFromBytes, Readable
<1>2. CASE ~(Len(b) < BextFixedLen)
  <2>1. PICK v : v = BextFromBytes(b)[1]
    OBVIOUS
  <2>2. BextFromBytes(b) = Some(v) /\ IsBext(v)
    BY <1>2, <2>1, BextFromIs
  <2>3. ASSUME NEW i \in DOMAIN TextsOf(kind, v) PROVE Clean(TextsOf(kind, v)[i])
    <3>1. PICK m \in Nat : m = Len(Widths)
      BY WidthsAre
    <3>2. i \in 1 .. m + 1
      BY <3>1, BextTexts
    <3>3. CASE i \in 1 .. m
      <4>1. PICK raw : raw = Bytes(b, FieldAt[i], Widths[i])
        OBVIOUS
      <4>2. raw \in Seq(Byte) /\ Len(raw) = Widths[i] /\ v.texts[i] = DecodeText(raw)
        BY <1>2, <2>1, <3>1, <3>3, <4>1, BextFromIs
      <4>3. TextsOf(kind, v)[i].text = v.texts[i] /\ TextsOf(kind, v)[i].width = Widths[i]
        BY <3>1, <3>3, BextTexts
      <4>4. /\ \A j \in 1 .. Len(v.texts[i]) : v.texts[i][j] # 0
            /\ Len(EncodeAll(v.texts[i])) <= Len(raw)
        BY <4>2, DecodedFits
      <4> QED
        BY <4>2, <4>3, <4>4 DEF Clean
    <3>4. CASE i = m + 1
      <4>1. TextsOf(kind, v)[i] = Unlimited(v.history)
        BY <3>1, <3>4, BextTexts
      <4>2. PICK raw : raw = Rest(b, BextFixedLen)
        OBVIOUS
      <4>3. raw \in Seq(Byte) /\ v.history = DecodeText(raw)
        BY <1>2, <2>1, <4>2, BextFromIs
      <4>4. IsText(v.history) /\ \A j \in 1 .. Len(v.history) : v.history[j] # 0
        BY <4>3, DecodedFits
      <4> QED
        BY <4>1, <4>4, UnlimitedIs
    <3> QED
      BY <3>2, <3>3, <3>4
  <2>4. Decoded(kind, v)
    BY <2>3 DEF Decoded
  <2>5. IsValue(kind, v)
    BY <2>2, BextTexts
  <2>6. Some(v)[1] = v
    BY DEF Some
  <2> QED
    BY <2>2, <2>4, <2>5, <2>6 DEF Readable
<1> QED
  BY <1>1, <1>2

\* Its texts fit back.
LEMMA BextFits ==
    ASSUME kind = "bext", chunk.data \in Seq(Byte), BextFromBytes(chunk.data) # None,
           NEW i \in DOMAIN RawTexts
    PROVE  LET raw == BeforeNul(RawTexts[i])
               new == EncodeAll(TextsOf(kind, BextFromBytes(chunk.data)[1])[i].text)
           IN  Len(new) <= Len(raw) /\ (~IsUtf8(raw) => new = raw)
<1>1. PICK b \in Seq(Byte) : b = chunk.data
  OBVIOUS
<1>2. ~(Len(b) < BextFixedLen)
  BY <1>1 DEF BextFromBytes
<1>3. PICK v : v = BextFromBytes(b)[1]
  OBVIOUS
<1>4. PICK m \in Nat : m = Len(Widths)
  BY WidthsAre
<1>5. i \in 1 .. m + 1
  BY <1>4, BextRaw
<1>6. RawTexts[i] \in Seq(Byte) /\ TextsOf(kind, v)[i].text = DecodeText(RawTexts[i])
  <2>1. CASE i \in 1 .. m
    <3>1. RawTexts[i] = Bytes(b, FieldAt[i], Widths[i])
      BY <1>1, <1>4, <2>1, BextRaw
    <3>2. TextsOf(kind, v)[i].text = v.texts[i]
      BY <1>4, <2>1, BextTexts
    <3>3. /\ Bytes(b, FieldAt[i], Widths[i]) \in Seq(Byte)
          /\ v.texts[i] = DecodeText(Bytes(b, FieldAt[i], Widths[i]))
      BY <1>2, <1>3, <1>4, <2>1, BextFromIs
    <3> QED
      BY <3>1, <3>2, <3>3
  <2>2. CASE i = m + 1
    <3>1. RawTexts[i] = Rest(b, BextFixedLen)
      BY <1>1, <1>4, <2>2, BextRaw
    <3>2. TextsOf(kind, v)[i] = Unlimited(v.history)
      BY <1>4, <2>2, BextTexts
    <3>3. /\ Rest(b, BextFixedLen) \in Seq(Byte)
          /\ v.history = DecodeText(Rest(b, BextFixedLen))
      BY <1>2, <1>3, BextFromIs
    <3>4. TextsOf(kind, v)[i].text = v.history
      BY <3>2 DEF Unlimited
    <3> QED
      BY <3>1, <3>3, <3>4
  <2> QED
    BY <1>5, <2>1, <2>2
<1> QED
  BY <1>1, <1>3, <1>6, DecodeTextIs

\* It is its fields.
LEMMA BextSame ==
    ASSUME kind = "bext", NEW v, IsBext(v), NEW w, IsBext(w), Untexted(kind, w) = Untexted(kind, v),
           \A i \in DOMAIN TextsOf(kind, v) : TextsOf(kind, w)[i].text = TextsOf(kind, v)[i].text
    PROVE  w = v
<1>1. PICK m \in Nat : m = Len(Widths) /\ DOMAIN Widths = 1 .. m
  BY WidthsAre
<1>2. v.time = w.time /\ v.copied = w.copied
  <2>1. <<w.time, w.copied>> = <<v.time, v.copied>>
    BY BextTexts
  <2> QED
    BY <2>1
<1>3. ASSUME NEW i \in 1 .. m PROVE w.texts[i] = v.texts[i]
  <2>1. i \in 1 .. m + 1
    OBVIOUS
  <2>2. TextsOf(kind, w)[i].text = TextsOf(kind, v)[i].text
    BY <1>1, <2>1, BextTexts
  <2> QED
    BY <1>1, <2>2, BextTexts
<1>4. w.history = v.history
  <2>1. m + 1 \in 1 .. m + 1
    OBVIOUS
  <2>2. TextsOf(kind, w)[m + 1].text = TextsOf(kind, v)[m + 1].text
    BY <1>1, <2>1, BextTexts
  <2>3. TextsOf(kind, w)[m + 1] = Unlimited(w.history) /\ TextsOf(kind, v)[m + 1] = Unlimited(v.history)
    BY <1>1, BextTexts
  <2> QED
    BY <2>2, <2>3 DEF Unlimited
<1>5. PICK R : R = [texts : [1 .. m -> Seq(Int)], time : Nat,
                    copied : [1 .. Copied -> Byte], history : Seq(Int)]
  OBVIOUS
<1>6. v \in R /\ w \in R
  BY <1>1, <1>5 DEF IsBext
<1>7. w.texts = v.texts
  <2>1. w.texts \in [1 .. m -> Seq(Int)] /\ v.texts \in [1 .. m -> Seq(Int)]
    BY <1>5, <1>6
  <2> QED
    BY <1>3, <2>1
<1>8. PICK A, B, C : /\ v \in [texts : A, time : Nat, copied : B, history : C]
                    /\ w \in [texts : A, time : Nat, copied : B, history : C]
  BY <1>5, <1>6
<1>9. /\ v = [texts |-> v.texts, time |-> v.time, copied |-> v.copied, history |-> v.history]
      /\ w = [texts |-> w.texts, time |-> w.time, copied |-> w.copied, history |-> w.history]
  BY <1>8
<1> QED
  BY Zenon, <1>2, <1>4, <1>7, <1>9

\* A text that fills its field.
LEMMA FixedIs ==
    ASSUME NEW s, IsText(s), NEW w \in Nat
    PROVE  /\ EncodeFixed(s, w) \in Seq(Byte) /\ Len(EncodeFixed(s, w)) = w
           /\ \E z \in Nat : EncodeFixed(s, w) = EncodeText(s, w) \o Zeros(z)
<1>1. PICK l \in Nat : l = Len(s)
  BY Utf8PartsAre
<1>2. PICK n \in 0 .. l : EncodeText(s, w) = Encoded(s, n) /\ Len(Encoded(s, n)) <= w
  BY <1>1, EncodeTextIs
<1>3. PICK e \in Seq(Byte) : e = EncodeText(s, w) /\ Len(e) <= w
  BY <1>1, <1>2, EncodedIs
<1>4. PICK z \in Nat : z = w - Len(e)
  BY <1>3
<1>5. Zeros(z) \in Seq(Byte) /\ Len(Zeros(z)) = z
  BY ZerosAre
<1>6. e \o Zeros(z) \in Seq(Byte) /\ Len(e \o Zeros(z)) = Len(e) + Len(Zeros(z))
  BY <1>5, HasSides
<1>7. Len(e \o Zeros(z)) = w
  BY <1>3, <1>4, <1>5, <1>6
<1>8. EncodeFixed(s, w) = e \o Zeros(z)
  BY <1>3, <1>4 DEF EncodeFixed
<1> QED
  BY <1>3, <1>6, <1>7, <1>8

\* The text fields of a bext chunk.
FieldBytes(v) == [i \in 1 .. Len(Widths) |-> EncodeFixed(v.texts[i], Widths[i])]

\* They are as long as their widths say, and where they should be.
LEMMA FieldBytesAre ==
    ASSUME NEW v, IsBext(v)
    PROVE  /\ FieldBytes(v) \in Seq(Seq(Byte))
           /\ FlattenSeq(FieldBytes(v)) \in Seq(Byte) /\ Len(FlattenSeq(FieldBytes(v))) = TimeAt
           /\ \A i \in 1 .. Len(Widths) :
                /\ EncodeFixed(v.texts[i], Widths[i]) \in Seq(Byte)
                /\ Len(EncodeFixed(v.texts[i], Widths[i])) = Widths[i]
                /\ Has(FlattenSeq(FieldBytes(v)), FieldAt[i], EncodeFixed(v.texts[i], Widths[i]))
<1>1. PICK m \in Nat : m = Len(Widths) /\ DOMAIN Widths = 1 .. m
  BY WidthsAre
<1>2. PICK parts : parts = FieldBytes(v)
  OBVIOUS
<1>3. ASSUME NEW i \in 1 .. m
      PROVE  /\ parts[i] = EncodeFixed(v.texts[i], Widths[i])
             /\ parts[i] \in Seq(Byte) /\ Len(parts[i]) = Widths[i]
  <2>1. parts[i] = EncodeFixed(v.texts[i], Widths[i])
    BY <1>1, <1>2 DEF FieldBytes
  <2>2. IsText(v.texts[i]) /\ Widths[i] \in Nat
    BY <1>1, WidthsAre DEF IsBext
  <2> QED
    BY <2>1, <2>2, FixedIs
<1>4. PICK Y : Y = Seq(Byte)
  OBVIOUS
<1>5. parts \in [1 .. m -> Y]
  <2>1. parts = [i \in 1 .. m |-> EncodeFixed(v.texts[i], Widths[i])]
    BY <1>1, <1>2 DEF FieldBytes
  <2> QED
    BY <1>3, <1>4, <2>1
<1>6. parts \in Seq(Y) /\ Len(parts) = m
  BY <1>5, FunctionToSeq
<1>7. parts \in Seq(Seq(Byte))
  BY <1>4, <1>6
<1>8. /\ \A i \in 1 .. m + 1 : Len(Upto(parts, i - 1)) = FieldAt[i]
      /\ Len(FlattenSeq(parts)) = TimeAt
  BY <1>1, <1>3, <1>6, <1>7, FieldsAreThere
<1>9. FlattenSeq(parts) \in Seq(Byte)
  BY <1>7, Flattened
<1>10. ASSUME NEW i \in 1 .. m PROVE Has(FlattenSeq(parts), FieldAt[i], parts[i])
  <2>1. i \in 1 .. Len(parts) /\ i \in 1 .. m + 1
    BY <1>6
  <2>2. Has(FlattenSeq(parts), Len(Upto(parts, i - 1)), parts[i])
    BY <1>7, <2>1, HasPart
  <2> QED
    BY <1>8, <2>1, <2>2
<1> QED
  BY <1>1, <1>2, <1>3, <1>7, <1>8, <1>9, <1>10

\* Where each of six parts is.
HasSix(x, at, f, n, m, c, r, d) ==
    /\ x \in Seq(Byte) /\ Len(x) = ((at + 4) + Len(c) + Len(r)) + Len(d)
    /\ Has(x, 0, f) /\ Has(x, at, n) /\ Has(x, at + 2, m) /\ Has(x, at + 4, c)
    /\ Rest(x, (at + 4) + Len(c) + Len(r)) = d

\* Six parts, each behind the one before.
LEMMA SixParts ==
    ASSUME NEW f \in Seq(Byte), NEW at \in Nat, Len(f) = at,
           NEW n \in Seq(Byte), Len(n) = 2, NEW m \in Seq(Byte), Len(m) = 2,
           NEW c \in Seq(Byte), NEW r \in Seq(Byte), NEW d \in Seq(Byte)
    PROVE  HasSix(((((f \o n) \o m) \o c) \o r) \o d, at, f, n, m, c, r, d)
<1>1. PICK p \in Seq(Byte) : p = f \o n /\ Len(p) = at + 2 /\ Has(p, 0, f) /\ Has(p, at, n)
  <2>1. /\ f \o n \in Seq(Byte) /\ Len(f \o n) = Len(f) + Len(n)
        /\ Has(f \o n, 0, f) /\ Has(f \o n, Len(f), n)
    BY HasSides
  <2>2. Len(f \o n) = at + 2 /\ Has(f \o n, at, n)
    BY <2>1
  <2> QED
    BY <2>1, <2>2
<1>2. PICK q \in Seq(Byte) : /\ q = p \o m /\ Len(q) = at + 4
                             /\ Has(q, 0, f) /\ Has(q, at, n) /\ Has(q, at + 2, m)
  <2>1. p \o m \in Seq(Byte) /\ Len(p \o m) = Len(p) + Len(m) /\ Has(p \o m, Len(p), m)
    BY HasSides
  <2>2. Len(p \o m) = at + 4 /\ Has(p \o m, at + 2, m)
    BY <1>1, <2>1
  <2>3. Has(p \o m, 0, f) /\ Has(p \o m, at, n)
    BY <1>1, HasLeft
  <2> QED
    BY <2>1, <2>2, <2>3
<1>3. PICK u \in Seq(Byte) : /\ u = q \o c /\ Len(u) = (at + 4) + Len(c)
                             /\ Has(u, 0, f) /\ Has(u, at, n) /\ Has(u, at + 2, m)
                             /\ Has(u, at + 4, c)
  <2>1. q \o c \in Seq(Byte) /\ Len(q \o c) = Len(q) + Len(c) /\ Has(q \o c, Len(q), c)
    BY HasSides
  <2>2. Len(q \o c) = (at + 4) + Len(c) /\ Has(q \o c, at + 4, c)
    BY <1>2, <2>1
  <2>3. Has(q \o c, 0, f) /\ Has(q \o c, at, n) /\ Has(q \o c, at + 2, m)
    BY <1>2, HasLeft
  <2> QED
    BY <2>1, <2>2, <2>3
<1>4. PICK v \in Seq(Byte) : /\ v = u \o r /\ Len(v) = (at + 4) + Len(c) + Len(r)
                             /\ Has(v, 0, f) /\ Has(v, at, n) /\ Has(v, at + 2, m)
                             /\ Has(v, at + 4, c)
  <2>1. u \o r \in Seq(Byte) /\ Len(u \o r) = Len(u) + Len(r)
    BY HasSides
  <2>2. Len(u \o r) = (at + 4) + Len(c) + Len(r)
    BY <1>3, <2>1
  <2>3. Has(u \o r, 0, f) /\ Has(u \o r, at, n) /\ Has(u \o r, at + 2, m) /\ Has(u \o r, at + 4, c)
    BY <1>3, HasLeft
  <2> QED
    BY <2>1, <2>2, <2>3
<1>5. PICK x \in Seq(Byte) : /\ x = v \o d /\ Len(x) = ((at + 4) + Len(c) + Len(r)) + Len(d)
                             /\ Has(x, 0, f) /\ Has(x, at, n) /\ Has(x, at + 2, m)
                             /\ Has(x, at + 4, c)
                             /\ Rest(x, (at + 4) + Len(c) + Len(r)) = d
  <2>1. v \o d \in Seq(Byte) /\ Len(v \o d) = Len(v) + Len(d)
    BY HasSides
  <2>2. Len(v \o d) = ((at + 4) + Len(c) + Len(r)) + Len(d)
    BY <1>4, <2>1
  <2>3. Has(v \o d, 0, f) /\ Has(v \o d, at, n) /\ Has(v \o d, at + 2, m) /\ Has(v \o d, at + 4, c)
    BY <1>4, HasLeft
  <2>4. Rest(v \o d, Len(v)) = d
    BY RestOfConcat
  <2> QED
    BY <1>4, <2>1, <2>2, <2>3, <2>4
<1>6. HasSix(x, at, f, n, m, c, r, d)
  BY <1>5 DEF HasSix
<1>7. x = ((((f \o n) \o m) \o c) \o r) \o d
  BY <1>1, <1>2, <1>3, <1>4, <1>5
<1> QED
  BY <1>6, <1>7

\* What is written of a bext chunk, and read back.
LEMMA BextWritten ==
    ASSUME kind = "bext", NEW v, IsBext(v)
    PROVE  /\ BextToBytes(v) \in Seq(Byte)
           /\ BextFromBytes(BextToBytes(v)) # None
           /\ ReadBack(kind, v, BextFromBytes(BextToBytes(v))[1])
<1>1. PICK m \in Nat : m = Len(Widths) /\ DOMAIN Widths = 1 .. m
  BY WidthsAre
<1>2. /\ v.time \in Nat /\ v.time \div (U32Max + 1) \in U32
      /\ v.copied \in [1 .. Copied -> Byte] /\ IsText(v.history)
      /\ \A i \in 1 .. m : IsText(v.texts[i])
  BY <1>1 DEF IsBext
<1>3. /\ TimeAt \in Nat /\ CopiedAt \in Nat /\ BextFixedLen \in Nat
      /\ Copied \in Nat /\ Reserved \in Nat
      /\ CopiedAt = TimeAt + 4 /\ BextFixedLen = CopiedAt + Copied + Reserved
  BY LayoutIs
<1>4. PICK f \in Seq(Byte) : f = FlattenSeq(FieldBytes(v)) /\ Len(f) = TimeAt
  BY FieldBytesAre
<1>5. PICK x, y \in U32 : x = v.time % (U32Max + 1) /\ y = v.time \div (U32Max + 1)
                          /\ x + (U32Max + 1) * y = v.time
  BY <1>2, TimeTo
<1>6. PICK n \in Seq(Byte) : n = NumberBytes(x) /\ Len(n) = 2
  <2>1. x \in Nat
    BY U32Is
  <2> QED
    BY <2>1, NumberBytesAre
<1>7. PICK k \in Seq(Byte) : k = NumberBytes(y) /\ Len(k) = 2
  <2>1. y \in Nat
    BY U32Is
  <2> QED
    BY <2>1, NumberBytesAre
<1>8. PICK c \in Seq(Byte) : c = v.copied /\ Len(c) = Copied
  BY <1>2, <1>3, FunctionToSeq
<1>9. PICK r \in Seq(Byte) : r = Zeros(Reserved) /\ Len(r) = Reserved
  BY <1>3, ZerosAre
<1>10. PICK d \in Seq(Byte) : d = EncodeAll(v.history)
  BY <1>2, EncodeAllIs
<1>11. PICK b : b = ((((f \o n) \o k) \o c) \o r) \o d
  OBVIOUS
<1>12. HasSix(b, TimeAt, f, n, k, c, r, d)
  BY <1>3, <1>4, <1>6, <1>7, <1>11, SixParts
<1>13. b = BextToBytes(v)
  <2>1. f = FlattenSeq([i \in DOMAIN Widths |-> EncodeFixed(v.texts[i], Widths[i])])
    BY <1>1, <1>4 DEF FieldBytes
  <2>2. n = NumberBytes(v.time % (U32Max + 1)) /\ k = NumberBytes(v.time \div (U32Max + 1))
    BY <1>5, <1>6, <1>7
  <2> QED
    BY <1>8, <1>9, <1>10, <1>11, <2>1, <2>2 DEF BextToBytes
<1>14. /\ b \in Seq(Byte) /\ Len(b) = BextFixedLen + Len(d)
       /\ Has(b, 0, f) /\ Has(b, TimeAt, n) /\ Has(b, TimeAt + 2, k) /\ Has(b, CopiedAt, c)
       /\ Rest(b, BextFixedLen) = d
  BY <1>3, <1>8, <1>9, <1>12 DEF HasSix
<1>15. ~(Len(b) < BextFixedLen)
  BY <1>3, <1>14
<1>16. PICK w : w = BextFromBytes(b)[1]
  OBVIOUS
<1>17. /\ BextFromBytes(b) = Some(w)
       /\ \A i \in 1 .. m : w.texts[i] = DecodeText(Bytes(b, FieldAt[i], Widths[i]))
       /\ w.time = NumberAt(b, TimeAt) + (U32Max + 1) * NumberAt(b, TimeAt + 2)
       /\ w.copied = Bytes(b, CopiedAt, Copied)
       /\ w.history = DecodeText(Rest(b, BextFixedLen))
  BY <1>1, <1>14, <1>15, <1>16, BextFromIs
<1>18. w.time = v.time
  <2>1. NumberAt(b, TimeAt) = x
    BY <1>6, <1>14, NumberIsReadBack
  <2>2. NumberAt(b, TimeAt + 2) = y
    BY <1>7, <1>14, NumberIsReadBack
  <2> QED
    BY Zenon, <1>5, <1>17, <2>1, <2>2
<1>19. w.copied = v.copied
  BY <1>8, <1>14, <1>17, HasBytes
<1>20. ASSUME NEW i \in 1 .. m
       PROVE  \E z \in Nat : w.texts[i] = DecodeText(EncodeText(v.texts[i], Widths[i]) \o Zeros(z))
  <2>1. PICK p \in Seq(Byte) : /\ p = EncodeFixed(v.texts[i], Widths[i]) /\ Len(p) = Widths[i]
                               /\ Has(f, FieldAt[i], p)
    BY <1>1, <1>4, FieldBytesAre
  <2>2. FieldAt[i] \in Nat /\ Widths[i] \in Nat
    BY <1>1, FieldsEnd
  <2>3. Has(b, 0 + FieldAt[i], p)
    <3>1. Len(b) \in Nat /\ Len(f) \in Nat /\ Len(p) \in Nat
      BY <1>14
    <3> QED
      BY <1>14, <2>1, <3>1, HasWithin
  <2>4. Has(b, FieldAt[i], p)
    BY <2>2, <2>3
  <2>5. Bytes(b, FieldAt[i], Widths[i]) = p
    BY <1>14, <2>1, <2>4, HasBytes
  <2>6. PICK z \in Nat : p = EncodeText(v.texts[i], Widths[i]) \o Zeros(z)
    BY <1>2, <2>1, <2>2, FixedIs
  <2> QED
    BY <1>17, <2>5, <2>6
<1>21. w.history = DecodeText(EncodeText(v.history, 4 * Len(v.history)) \o Zeros(0))
  <2>1. d = EncodeText(v.history, 4 * Len(v.history))
    BY <1>10 DEF EncodeAll
  <2>2. Zeros(0) \in Seq(Byte) /\ Len(Zeros(0)) = 0
    BY ZerosAre
  <2>3. Zeros(0) = << >>
    BY <2>2
  <2>4. d \o << >> = d
    BY ConcatEmptySeq
  <2>5. d \o Zeros(0) = d
    BY <2>3, <2>4
  <2>6. w.history = DecodeText(d)
    BY <1>14, <1>17
  <2> QED
    BY <2>1, <2>5, <2>6
<1>22. Untexted(kind, w) = Untexted(kind, v)
  <2>1. Untexted(kind, w) = <<w.time, w.copied>> /\ Untexted(kind, v) = <<v.time, v.copied>>
    BY BextTexts
  <2> QED
    BY <1>18, <1>19, <2>1
<1>23. ASSUME NEW i \in DOMAIN TextsOf(kind, v)
       PROVE  \E z \in Nat : TextsOf(kind, w)[i].text =
                   DecodeText(EncodeText(TextsOf(kind, v)[i].text, TextsOf(kind, v)[i].width) \o Zeros(z))
  <2>1. i \in 1 .. m + 1
    BY <1>1, BextTexts
  <2>2. CASE i \in 1 .. m
    <3>1. /\ TextsOf(kind, w)[i].text = w.texts[i]
          /\ TextsOf(kind, v)[i].text = v.texts[i] /\ TextsOf(kind, v)[i].width = Widths[i]
      BY <1>1, <2>2, BextTexts
    <3> QED
      BY <1>20, <2>2, <3>1
  <2>3. CASE i = m + 1
    <3>1. TextsOf(kind, w)[i] = Unlimited(w.history) /\ TextsOf(kind, v)[i] = Unlimited(v.history)
      BY <1>1, <2>3, BextTexts
    <3>2. /\ TextsOf(kind, w)[i].text = w.history
          /\ TextsOf(kind, v)[i].text = v.history /\ TextsOf(kind, v)[i].width = 4 * Len(v.history)
      BY <3>1 DEF Unlimited
    <3>3. 0 \in Nat
      OBVIOUS
    <3> QED
      BY <1>21, <3>2, <3>3
  <2> QED
    BY <2>1, <2>2, <2>3
<1>24. ReadBack(kind, v, w)
  BY <1>22, <1>23 DEF ReadBack
<1>25. Some(w) # None
  BY SomeIs
<1> QED
  BY <1>13, <1>14, <1>16, <1>17, <1>24, <1>25

-----------------------------------------------------------------------------
(* Chunks of every kind.                                                 *)

\* The decoder of each kind.
LEMMA FromChunkIs ==
    ASSUME NEW c
    PROVE  /\ c.id # ChunkId(kind) => FromChunk(kind, c) = None
           /\ c.id = ChunkId(kind) =>
                /\ kind = "INFO" => FromChunk(kind, c) = InfoFromBytes(c.data)
                /\ kind = "adtl" => FromChunk(kind, c) = AdtlFromBytes(c.data)
                /\ kind = "bext" => FromChunk(kind, c) = BextFromBytes(c.data)
                /\ kind = "cue " => FromChunk(kind, c) = CueFromBytes(c.data)
                /\ kind = "smpl" => FromChunk(kind, c) = SmplFromBytes(c.data)
<1>1. ASSUME c.id # ChunkId(kind) PROVE FromChunk(kind, c) = None
  BY Zenon, <1>1 DEF FromChunk
<1>2. ASSUME c.id = ChunkId(kind), kind = "INFO" PROVE FromChunk(kind, c) = InfoFromBytes(c.data)
  BY Zenon, <1>2 DEF FromChunk
<1>3. ASSUME c.id = ChunkId(kind), kind = "adtl" PROVE FromChunk(kind, c) = AdtlFromBytes(c.data)
  BY Zenon, <1>3 DEF FromChunk
<1>4. ASSUME c.id = ChunkId(kind), kind = "bext" PROVE FromChunk(kind, c) = BextFromBytes(c.data)
  BY Zenon, <1>4 DEF FromChunk
<1>5. ASSUME c.id = ChunkId(kind), kind = "cue " PROVE FromChunk(kind, c) = CueFromBytes(c.data)
  BY Zenon, <1>5 DEF FromChunk
<1>6. ASSUME c.id = ChunkId(kind), kind = "smpl" PROVE FromChunk(kind, c) = SmplFromBytes(c.data)
  BY Zenon, <1>6 DEF FromChunk
<1> QED
  BY Zenon, <1>1, <1>2, <1>3, <1>4, <1>5, <1>6

\* The encoder of each kind.
LEMMA ToChunkIs ==
    ASSUME NEW v
    PROVE  /\ ToChunk(kind, v).id = ChunkId(kind)
           /\ kind = "INFO" => ToChunk(kind, v).data = InfoToBytes(v)
           /\ kind = "adtl" => ToChunk(kind, v).data = AdtlToBytes(v)
           /\ kind = "bext" => ToChunk(kind, v).data = BextToBytes(v)
           /\ kind = "cue " => ToChunk(kind, v).data = CueToBytes(v)
           /\ kind = "smpl" => ToChunk(kind, v).data = SmplToBytes(v)
<1>1. \A x, y : [id |-> x, data |-> y].id = x /\ [id |-> x, data |-> y].data = y
  OBVIOUS
<1>2. ToChunk(kind, v).id = ChunkId(kind)
  BY Zenon, <1>1 DEF ToChunk
<1>3. ASSUME kind = "INFO" PROVE ToChunk(kind, v).data = InfoToBytes(v)
  BY Zenon, <1>1, <1>3 DEF ToChunk
<1>4. ASSUME kind = "adtl" PROVE ToChunk(kind, v).data = AdtlToBytes(v)
  BY Zenon, <1>1, <1>4 DEF ToChunk
<1>5. ASSUME kind = "bext" PROVE ToChunk(kind, v).data = BextToBytes(v)
  BY Zenon, <1>1, <1>5 DEF ToChunk
<1>6. ASSUME kind = "cue " PROVE ToChunk(kind, v).data = CueToBytes(v)
  BY Zenon, <1>1, <1>6 DEF ToChunk
<1>7. ASSUME kind = "smpl" PROVE ToChunk(kind, v).data = SmplToBytes(v)
  BY Zenon, <1>1, <1>7 DEF ToChunk
<1> QED
  BY Zenon, <1>2, <1>3, <1>4, <1>5, <1>6, <1>7

\* The kind is one of five.
LEMMA KindsAre ==
    ASSUME kind \in Kinds
    PROVE  kind = "INFO" \/ kind = "adtl" \/ kind = "bext" \/ kind = "cue " \/ kind = "smpl"
BY Zenon, BoundsAssumption DEF BoundsAssumption

\* What values of each kind are.
LEMMA ValuesAre ==
    ASSUME NEW v
    PROVE  /\ kind = "INFO" => (IsValue(kind, v) <=> IsInfoList(v))
           /\ kind = "adtl" => (IsValue(kind, v) <=> IsAdtlList(v))
           /\ kind = "bext" => (IsValue(kind, v) <=> IsBext(v))
           /\ kind = "cue " => (IsValue(kind, v) <=> IsCue(v))
           /\ kind = "smpl" => (IsValue(kind, v) <=> IsSmpl(v))
BY Zenon DEF IsValue

\* Whatever is found is read as a proper value, or not at all.
LEMMA FoundIsReadable ==
    ASSUME kind \in Kinds, NEW c, c.data \in Seq(Byte), Len(c.data) \in U32
    PROVE  Readable(kind, FromChunk(kind, c))
<1>1. CASE c.id # ChunkId(kind)
  <2>1. FromChunk(kind, c) = None
    BY Zenon, <1>1, FromChunkIs
  <2> QED
    BY Zenon, <2>1 DEF Readable
<1>2. CASE c.id = ChunkId(kind)
  <2>1. CASE kind = "INFO"
    BY Zenon, <1>2, <2>1, FromChunkIs, InfoFound
  <2>2. CASE kind = "adtl"
    BY Zenon, <1>2, <2>2, FromChunkIs, AdtlFound
  <2>3. CASE kind = "bext"
    BY Zenon, <1>2, <2>3, FromChunkIs, BextFound
  <2>4. CASE kind = "cue "
    BY Zenon, <1>2, <2>4, FromChunkIs, CueFound
  <2>5. CASE kind = "smpl"
    BY Zenon, <1>2, <2>5, FromChunkIs, SmplFound
  <2> QED
    BY Zenon, <2>1, <2>2, <2>3, <2>4, <2>5, KindsAre
<1> QED
  BY <1>1, <1>2

\* What is written is read, as a proper value with the same contents.
LEMMA WrittenIsReadable ==
    ASSUME kind \in Kinds, NEW v, IsValue(kind, v)
    PROVE  /\ ToChunk(kind, v).data \in Seq(Byte)
           /\ FromChunk(kind, ToChunk(kind, v)) # None
           /\ Readable(kind, FromChunk(kind, ToChunk(kind, v)))
           /\ ReadBack(kind, v, FromChunk(kind, ToChunk(kind, v))[1])
<1>1. PICK c : c = ToChunk(kind, v)
  BY Zenon
<1>2. c.id = ChunkId(kind)
  BY Zenon, <1>1, ToChunkIs
<1>3. CASE kind = "INFO"
  <2>1. IsInfoList(v)
    BY Zenon, <1>3, ValuesAre
  <2>2. c.data = InfoToBytes(v) /\ FromChunk(kind, c) = InfoFromBytes(c.data)
    BY Zenon, <1>1, <1>2, <1>3, ToChunkIs, FromChunkIs
  <2> QED
    BY Zenon, <1>1, <1>3, <2>1, <2>2, InfoWritten
<1>4. CASE kind = "adtl"
  <2>1. IsAdtlList(v)
    BY Zenon, <1>4, ValuesAre
  <2>2. c.data = AdtlToBytes(v) /\ FromChunk(kind, c) = AdtlFromBytes(c.data)
    BY Zenon, <1>1, <1>2, <1>4, ToChunkIs, FromChunkIs
  <2> QED
    BY Zenon, <1>1, <1>4, <2>1, <2>2, AdtlWritten
<1>5. CASE kind = "bext"
  <2>1. IsBext(v)
    BY Zenon, <1>5, ValuesAre
  <2>2. c.data = BextToBytes(v) /\ FromChunk(kind, c) = BextFromBytes(c.data)
    BY Zenon, <1>1, <1>2, <1>5, ToChunkIs, FromChunkIs
  <2>3. BextToBytes(v) \in Seq(Byte)
    BY Zenon, <1>5, <2>1, BextWritten
  <2>4. Readable(kind, BextFromBytes(BextToBytes(v)))
    BY Zenon, <1>5, <2>3, BextFound
  <2> QED
    BY Zenon, <1>1, <1>5, <2>1, <2>2, <2>4, BextWritten
<1>6. CASE kind = "cue "
  <2>1. IsCue(v)
    BY Zenon, <1>6, ValuesAre
  <2>2. c.data = CueToBytes(v) /\ FromChunk(kind, c) = CueFromBytes(c.data)
    BY Zenon, <1>1, <1>2, <1>6, ToChunkIs, FromChunkIs
  <2>3. CueToBytes(v) \in Seq(Byte) /\ CueFromBytes(CueToBytes(v)) = Some(v)
    BY Zenon, <2>1, CueWritten
  <2>4. Some(v)[1] = v /\ Some(v) # None
    BY Zenon, SomeIs
  <2>5. Readable(kind, CueFromBytes(CueToBytes(v)))
    BY Zenon, <1>6, <2>3, CueFound
  <2>6. ReadBack(kind, v, v)
    BY Zenon, <1>6, NoTexts
  <2> QED
    BY Zenon, <1>1, <2>2, <2>3, <2>4, <2>5, <2>6
<1>7. CASE kind = "smpl"
  <2>1. IsSmpl(v)
    BY Zenon, <1>7, ValuesAre
  <2>2. c.data = SmplToBytes(v) /\ FromChunk(kind, c) = SmplFromBytes(c.data)
    BY Zenon, <1>1, <1>2, <1>7, ToChunkIs, FromChunkIs
  <2>3. SmplToBytes(v) \in Seq(Byte) /\ SmplFromBytes(SmplToBytes(v)) = Some(v)
    BY Zenon, <1>7, <2>1, SmplWritten
  <2>4. Some(v)[1] = v /\ Some(v) # None
    BY Zenon, SomeIs
  <2>5. Readable(kind, SmplFromBytes(SmplToBytes(v)))
    BY Zenon, <1>7, <2>3, SmplFound
  <2>6. ReadBack(kind, v, v)
    BY Zenon, <1>7, NoTexts
  <2> QED
    BY Zenon, <1>1, <2>2, <2>3, <2>4, <2>5, <2>6
<1> QED
  BY Zenon, <1>3, <1>4, <1>5, <1>6, <1>7, KindsAre

-----------------------------------------------------------------------------
(* The invariant.                                                        *)

\* The inductive invariant.  What a chunk holds can be decoded into a proper
\* value, if at all; what was read and not edited is what the chunk holds; what
\* was last written is what the chunk was made from, and if that had been read,
\* its texts fit.
Inv ==
    /\ TypeOK
    /\ Readable(kind, FromChunk(kind, chunk))
    /\ stage = "read" /\ edits = 0 => value = FromChunk(kind, chunk)
    /\ written # None => chunk = ToChunk(kind, written[1])
    /\ written # None /\ reread => Decoded(kind, written[1])

\* Chunks are in some file to begin with.
LEMMA InitInv == Init => Inv
<1> SUFFICES ASSUME Init PROVE Inv
  OBVIOUS
<1>1. /\ kind \in Kinds /\ chunk \in Found[kind] /\ stage = "found"
      /\ value = None /\ written = None /\ reread = FALSE /\ edits = 0 /\ writes = 0
  BY Zenon DEF Init
<1>2. chunk \in [id : ChunkIds, data : Seq(Byte)] /\ Len(chunk.data) \in U32
  BY Zenon, <1>1, MetadataAssumption DEF MetadataAssumption
<1>3. chunk.data \in Seq(Byte)
  BY <1>2
<1>4. Readable(kind, FromChunk(kind, chunk))
  BY Zenon, <1>1, <1>2, <1>3, FoundIsReadable
<1>5. MaxEdits \in Nat /\ MaxWrites \in Nat
  BY Zenon, BoundsAssumption DEF BoundsAssumption
<1>6. 0 \in 0 .. MaxEdits /\ 0 \in 0 .. MaxWrites
  BY <1>5
<1>7. TypeOK
  BY Zenon, <1>1, <1>2, <1>6 DEF TypeOK
<1> QED
  BY <1>1, <1>4, <1>7 DEF Inv

\* Reading a chunk.
LEMMA ReadInv ==
    ASSUME Inv, Read
    PROVE  Inv'
<1>1. /\ value' = FromChunk(kind, chunk) /\ stage' = "read" /\ edits' = 0
      /\ kind' = kind /\ chunk' = chunk /\ written' = written /\ reread' = reread
      /\ writes' = writes
  BY Zenon DEF Read
<1>2. MaxEdits \in Nat
  BY Zenon, BoundsAssumption DEF BoundsAssumption
<1>3. 0 \in 0 .. MaxEdits
  BY <1>2
<1>4. TypeOK /\ Readable(kind, FromChunk(kind, chunk))
  BY Zenon DEF Inv
<1>5. value' = None \/ (value' = Some(value'[1]) /\ IsValue(kind, value'[1]))
  BY Zenon, <1>1, <1>4 DEF Readable
<1>6. TypeOK'
  BY <1>1, <1>3, <1>4, <1>5 DEF TypeOK
<1> QED
  BY <1>1, <1>4, <1>6 DEF Inv

\* Writing a value.
LEMMA WriteInv ==
    ASSUME Inv, Write
    PROVE  Inv'
<1>1. /\ stage = "read" /\ value # None /\ writes < MaxWrites
      /\ chunk' = ToChunk(kind, value[1]) /\ stage' = "written"
      /\ written' = value /\ reread' = (edits = 0) /\ writes' = writes + 1
      /\ kind' = kind /\ value' = value /\ edits' = edits
  BY Zenon DEF Write
<1>2. TypeOK /\ Readable(kind, FromChunk(kind, chunk))
      /\ (edits = 0 => value = FromChunk(kind, chunk))
  BY Zenon, <1>1 DEF Inv
<1>3. kind \in Kinds /\ value = Some(value[1]) /\ IsValue(kind, value[1])
  BY Zenon, <1>1, <1>2 DEF TypeOK
<1>4. PICK v : v = value[1]
  BY Zenon
<1>5. PICK c : c = ToChunk(kind, v)
  BY Zenon
<1>6. c.data \in Seq(Byte) /\ Readable(kind, FromChunk(kind, c))
  BY Zenon, <1>3, <1>4, <1>5, WrittenIsReadable
<1>7. c \in [id : ChunkIds, data : Seq(Byte)]
  <2>1. ChunkId(kind) \in ChunkIds
    BY <1>3 DEF ChunkIds
  <2>2. PICK x, d : c = [id |-> x, data |-> d] /\ x = ChunkId(kind)
    BY Zenon, <1>5 DEF ToChunk
  <2>3. d \in Seq(Byte)
    BY <1>6, <2>2
  <2> QED
    BY <2>1, <2>2, <2>3
<1>8. writes' \in 0 .. MaxWrites
  <2>1. writes \in 0 .. MaxWrites
    BY Zenon, <1>2 DEF TypeOK
  <2>2. MaxWrites \in Nat
    BY Zenon, BoundsAssumption DEF BoundsAssumption
  <2> QED
    BY <1>1, <2>1, <2>2
<1>9. TypeOK'
  <2>1. edits \in 0 .. MaxEdits
    BY Zenon, <1>2 DEF TypeOK
  <2> QED
    BY <1>1, <1>3, <1>4, <1>5, <1>7, <1>8, <2>1 DEF TypeOK
<1>10. ASSUME edits = 0 PROVE Decoded(kind, v)
  BY Zenon, <1>1, <1>2, <1>4, <1>10 DEF Readable
<1> QED
  BY <1>1, <1>4, <1>5, <1>6, <1>9, <1>10 DEF Inv

\* Editing a value into another.
LEMMA EditInv ==
    ASSUME Inv, NEW v, IsValue(kind, v), Edit(v)
    PROVE  Inv'
<1>1. /\ edits < MaxEdits
      /\ value' = Some(v) /\ edits' = edits + 1
      /\ kind' = kind /\ chunk' = chunk /\ stage' = stage /\ written' = written
      /\ reread' = reread /\ writes' = writes
  BY Zenon DEF Edit
<1>2. TypeOK
  BY Zenon DEF Inv
<1>3. edits' \in 0 .. MaxEdits /\ edits' # 0
  <2>1. edits \in 0 .. MaxEdits
    BY Zenon, <1>2 DEF TypeOK
  <2>2. MaxEdits \in Nat
    BY Zenon, BoundsAssumption DEF BoundsAssumption
  <2> QED
    BY <1>1, <2>1, <2>2
<1>4. value'[1] = v
  BY Zenon, <1>1, SomeIs
<1>5. TypeOK'
  BY <1>1, <1>2, <1>3, <1>4 DEF TypeOK
<1> QED
  BY <1>1, <1>3, <1>5 DEF Inv

-----------------------------------------------------------------------------
(* The edits of an InfoList.                                               *)

\* A tag more.
LEMMA PushedTag ==
    ASSUME NEW v, IsInfoList(v), NEW id \in Id, NEW text, IsText(text), FitsSubChunk(text, 0)
    PROVE  IsInfoList(Append(v, [id |-> id, text |-> text]))
<1>1. PICK R : R = [id : Id, text : Seq(Int)]
  OBVIOUS
<1>2. v \in Seq(R) /\ \A i \in DOMAIN v : IsText(v[i].text) /\ FitsSubChunk(v[i].text, 0)
  BY <1>1 DEF IsInfoList
<1>3. PICK tag : tag = [id |-> id, text |-> text]
  OBVIOUS
<1>4. tag \in R /\ tag.text = text
  BY <1>1, <1>3 DEF IsText
<1>5. PICK n \in Nat : n = Len(v) /\ DOMAIN v = 1 .. n
  BY <1>2
<1>6. PICK w \in Seq(R) : /\ w = Append(v, tag) /\ DOMAIN w = 1 .. n + 1
                          /\ w[n + 1] = tag /\ \A i \in 1 .. n : w[i] = v[i]
  <2>1. Append(v, tag) \in Seq(R) /\ Len(Append(v, tag)) = Len(v) + 1
    BY <1>2, <1>4, AppendProperties
  <2>2. \A i \in 1 .. Len(v) : Append(v, tag)[i] = v[i]
    BY <1>2, <1>4, AppendProperties
  <2>3. Append(v, tag)[Len(v) + 1] = tag
    BY <1>2, <1>4, AppendProperties
  <2>4. DOMAIN Append(v, tag) = 1 .. n + 1
    BY <1>5, <2>1
  <2> QED
    BY <1>5, <2>1, <2>2, <2>3, <2>4
<1>7. ASSUME NEW i \in DOMAIN w PROVE IsText(w[i].text) /\ FitsSubChunk(w[i].text, 0)
  <2>1. CASE i \in 1 .. n
    BY <1>2, <1>5, <1>6, <2>1
  <2>2. CASE i = n + 1
    BY <1>4, <1>6, <2>2
  <2> QED
    BY <1>6, <2>1, <2>2
<1>8. IsInfoList(w)
  BY <1>1, <1>7 DEF IsInfoList
<1> QED
  BY <1>3, <1>6, <1>8

\* A tag's text replaced.
LEMMA ReplacedTag ==
    ASSUME NEW v, IsInfoList(v), NEW i \in DOMAIN v, NEW text, IsText(text), FitsSubChunk(text, 0)
    PROVE  IsInfoList([v EXCEPT ![i].text = text])
<1>1. v \in Seq([id : Id, text : Seq(Int)])
      /\ \A j \in DOMAIN v : IsText(v[j].text) /\ FitsSubChunk(v[j].text, 0)
  BY DEF IsInfoList
<1>2. PICK n \in Nat : n = Len(v) /\ DOMAIN v = 1 .. n
  BY <1>1
<1>3. PICK w : w = [v EXCEPT ![i].text = text]
  OBVIOUS
<1>4. text \in Seq(Int)
  BY DEF IsText
<1>5. \A j \in 1 .. n : v[j] \in [id : Id, text : Seq(Int)]
  <2>1. PICK R : R = [id : Id, text : Seq(Int)]
    OBVIOUS
  <2>2. v \in Seq(R)
    BY <1>1, <2>1
  <2>3. \A j \in 1 .. n : v[j] \in R
    BY <1>2, <2>2
  <2> QED
    BY <2>1, <2>3
<1>6. PICK tag : tag = [v[i] EXCEPT !.text = text]
  OBVIOUS
<1>7. tag \in [id : Id, text : Seq(Int)] /\ tag.text = text
  BY <1>2, <1>4, <1>5, <1>6
<1>8. DOMAIN w = 1 .. n /\ w = [j \in 1 .. n |-> IF j = i THEN tag ELSE v[j]]
  BY <1>1, <1>2, <1>3, <1>6
<1>9. w \in [1 .. n -> [id : Id, text : Seq(Int)]]
  BY <1>5, <1>7, <1>8
<1>10. w \in Seq([id : Id, text : Seq(Int)])
  BY <1>9, FunctionToSeq
<1>11. \A j \in DOMAIN w : IsText(w[j].text) /\ FitsSubChunk(w[j].text, 0)
  BY <1>1, <1>2, <1>7, <1>8
<1>12. IsInfoList(w)
  BY <1>10, <1>11 DEF IsInfoList
<1> QED
  BY <1>3, <1>12

\* Some of the tags.
LEMMA KeptTags ==
    ASSUME NEW v, IsInfoList(v), NEW S
    PROVE  IsInfoList(Kept(v, S))
<1>1. PICK R : R = [id : Id, text : Seq(Int)]
  OBVIOUS
<1>2. v \in Seq(R) /\ \A i \in DOMAIN v : IsText(v[i].text) /\ FitsSubChunk(v[i].text, 0)
  BY <1>1 DEF IsInfoList
<1>3. /\ Kept(v, S) \in Seq(R)
      /\ \A j \in DOMAIN Kept(v, S) : \E i \in DOMAIN v : i \in S /\ Kept(v, S)[j] = v[i]
  BY <1>2, KeptFrom
<1>4. ASSUME NEW j \in DOMAIN Kept(v, S)
      PROVE  IsText(Kept(v, S)[j].text) /\ FitsSubChunk(Kept(v, S)[j].text, 0)
  <2>1. PICK i \in DOMAIN v : Kept(v, S)[j] = v[i]
    BY <1>3
  <2> QED
    BY <1>2, <2>1
<1> QED
  BY <1>1, <1>3, <1>4 DEF IsInfoList

-----------------------------------------------------------------------------

\* Every step keeps the invariant.
LEMMA NextInv == Inv /\ [Next]_vars => Inv'
<1> SUFFICES ASSUME Inv, [Next]_vars PROVE Inv'
  OBVIOUS
<1>1. TypeOK
  BY Zenon DEF Inv
<1>2. kind \in Kinds
  BY Zenon, <1>1 DEF TypeOK
<1>3. ASSUME EditingTags PROVE kind = "INFO" /\ IsInfoList(value[1])
  <2>1. kind = "INFO" /\ value # None
    BY Zenon, <1>3 DEF EditingTags
  <2>2. IsValue(kind, value[1])
    BY Zenon, <1>1, <2>1 DEF TypeOK
  <2> QED
    BY Zenon, <2>1, <2>2, ValuesAre
<1>4. /\ \A text \in Texts : IsText(text) /\ FitsSubChunk(text, 0)
      /\ TagIds \subseteq Id
      /\ \A k \in Kinds : \A v \in Supplied[k] : IsValue(k, v)
  BY Zenon, MetadataAssumption DEF MetadataAssumption
<1>5. CASE Read
  BY Zenon, <1>5, ReadInv
<1>6. CASE Write
  BY Zenon, <1>6, WriteInv
<1>7. ASSUME NEW id \in TagIds, NEW text \in Texts, SetTag(id, text) PROVE Inv'
  <2>1. EditingTags
    BY Zenon, <1>7 DEF SetTag
  <2>2. kind = "INFO" /\ IsInfoList(value[1]) /\ id \in Id /\ IsText(text) /\ FitsSubChunk(text, 0)
    BY Zenon, <1>3, <1>4, <2>1
  <2>3. CASE Tags(id) = {}
    <3>1. Edit(Append(value[1], [id |-> id, text |-> text]))
      BY Zenon, <1>7, <2>3 DEF SetTag
    <3>2. IsInfoList(Append(value[1], [id |-> id, text |-> text]))
      BY Zenon, <2>2, PushedTag
    <3> QED
      BY Zenon, <2>2, <3>1, <3>2, ValuesAre, EditInv
  <2>4. CASE Tags(id) # {}
    <3>1. PICK i : i = CHOOSE k \in Tags(id) : \A j \in Tags(id) : k <= j
      BY Zenon
    <3>2. Edit([value[1] EXCEPT ![i].text = text])
      BY Zenon, <1>7, <2>4, <3>1 DEF SetTag
    <3>3. Tags(id) \subseteq DOMAIN value[1]
      BY Zenon DEF Tags
    <3>4. \E k \in Tags(id) : \A j \in Tags(id) : k <= j
      <4>1. DOMAIN value[1] \subseteq Nat
        <5>1. value[1] \in Seq([id : Id, text : Seq(Int)])
          BY Zenon, <2>2 DEF IsInfoList
        <5> QED
          BY <5>1
      <4>2. Tags(id) \subseteq Nat
        BY Zenon, <3>3, <4>1
      <4> QED
        BY Zenon, <2>4, <4>2, Least
    <3>5. i \in DOMAIN value[1]
      BY Zenon, <3>1, <3>3, <3>4
    <3>6. IsInfoList([value[1] EXCEPT ![i].text = text])
      BY Zenon, <2>2, <3>5, ReplacedTag
    <3> QED
      BY Zenon, <2>2, <3>2, <3>6, ValuesAre, EditInv
  <2> QED
    BY Zenon, <2>3, <2>4
<1>8. ASSUME NEW id \in TagIds, NEW text \in Texts, PushTag(id, text) PROVE Inv'
  <2>1. EditingTags /\ Edit(Append(value[1], [id |-> id, text |-> text]))
    BY Zenon, <1>8 DEF PushTag
  <2>2. kind = "INFO" /\ IsInfoList(value[1]) /\ id \in Id /\ IsText(text) /\ FitsSubChunk(text, 0)
    BY Zenon, <1>3, <1>4, <2>1
  <2>3. IsInfoList(Append(value[1], [id |-> id, text |-> text]))
    BY Zenon, <2>2, PushedTag
  <2> QED
    BY Zenon, <2>1, <2>2, <2>3, ValuesAre, EditInv
<1>9. ASSUME NEW id \in TagIds, RemoveTag(id) PROVE Inv'
  <2>1. EditingTags /\ Edit(Kept(value[1], DOMAIN value[1] \ Tags(id)))
    BY Zenon, <1>9 DEF RemoveTag
  <2>2. kind = "INFO" /\ IsInfoList(value[1])
    BY Zenon, <1>3, <2>1
  <2>3. IsInfoList(Kept(value[1], DOMAIN value[1] \ Tags(id)))
    BY Zenon, <2>2, KeptTags
  <2> QED
    BY Zenon, <2>1, <2>2, <2>3, ValuesAre, EditInv
<1>10. ASSUME NEW v \in Supplied[kind], Fill(v) PROVE Inv'
  <2>1. Edit(v) /\ IsValue(kind, v)
    BY Zenon, <1>2, <1>4, <1>10 DEF Fill
  <2> QED
    BY Zenon, <2>1, EditInv
<1>11. CASE UNCHANGED vars
  BY Zenon, <1>11 DEF vars, Inv, TypeOK
<1> QED
  BY Zenon, <1>5, <1>6, <1>7, <1>8, <1>9, <1>10, <1>11 DEF Next

-----------------------------------------------------------------------------
(* The properties.                                                       *)

\* The texts of a value are texts.
LEMMA TextsAre ==
    ASSUME kind \in Kinds, NEW v, IsValue(kind, v), NEW i \in DOMAIN TextsOf(kind, v)
    PROVE  IsText(TextsOf(kind, v)[i].text) /\ TextsOf(kind, v)[i].width \in Nat
<1>1. CASE kind = "INFO"
  <2>1. IsInfoList(v)
    BY Zenon, <1>1, ValuesAre
  <2>2. i \in DOMAIN v /\ TextsOf(kind, v)[i] = Unlimited(v[i].text)
    BY <1>1, InfoTexts
  <2>3. IsText(v[i].text)
    BY <2>1, <2>2 DEF IsInfoList
  <2> QED
    BY <2>2, <2>3, UnlimitedIs DEF Unlimited
<1>2. CASE kind = "adtl"
  <2>1. IsAdtlList(v)
    BY Zenon, <1>2, ValuesAre
  <2>2. i \in DOMAIN v /\ TextsOf(kind, v)[i] = Unlimited(v[i].text)
    BY <1>2, AdtlTexts
  <2>3. IsText(v[i].text)
    BY <2>1, <2>2 DEF IsAdtlList
  <2> QED
    BY <2>2, <2>3, UnlimitedIs DEF Unlimited
<1>3. CASE kind = "bext"
  <2>1. PICK m \in Nat : m = Len(Widths) /\ DOMAIN Widths = 1 .. m
    BY WidthsAre
  <2>2. IsBext(v)
    BY Zenon, <1>3, ValuesAre
  <2>3. IsText(v.history) /\ \A j \in 1 .. m : IsText(v.texts[j])
    BY <2>1, <2>2 DEF IsBext
  <2>4. i \in 1 .. m + 1
    BY <1>3, <2>1, BextTexts
  <2>5. CASE i \in 1 .. m
    <3>1. TextsOf(kind, v)[i].text = v.texts[i] /\ TextsOf(kind, v)[i].width = Widths[i]
      BY <1>3, <2>1, <2>5, BextTexts
    <3> QED
      BY <2>1, <2>3, <2>5, <3>1, WidthsAre
  <2>6. CASE i = m + 1
    <3>1. TextsOf(kind, v)[i] = Unlimited(v.history)
      BY <1>3, <2>1, <2>6, BextTexts
    <3> QED
      BY <2>3, <3>1, UnlimitedIs DEF Unlimited
  <2> QED
    BY <2>4, <2>5, <2>6
<1>4. CASE kind = "cue " \/ kind = "smpl"
  <2>1. TextsOf(kind, v) = << >>
    BY Zenon, <1>4, NoTexts
  <2>2. DOMAIN TextsOf(kind, v) = {}
    BY Zenon, <2>1, EmptyDomain
  <2> QED
    BY Zenon, <2>2
<1> QED
  BY Zenon, <1>1, <1>2, <1>3, <1>4, KindsAre

\* A value is its texts and the rest of it.
LEMMA SameValue ==
    ASSUME kind \in Kinds, NEW v, IsValue(kind, v), NEW w, IsValue(kind, w),
           Untexted(kind, w) = Untexted(kind, v),
           \A i \in DOMAIN TextsOf(kind, v) : TextsOf(kind, w)[i].text = TextsOf(kind, v)[i].text
    PROVE  w = v
<1>1. CASE kind = "INFO"
  BY Zenon, <1>1, ValuesAre, InfoSame
<1>2. CASE kind = "adtl"
  BY Zenon, <1>2, ValuesAre, AdtlSame
<1>3. CASE kind = "bext"
  BY Zenon, <1>3, ValuesAre, BextSame
<1>4. CASE kind = "cue " \/ kind = "smpl"
  <2>1. Untexted(kind, v) = v /\ Untexted(kind, w) = w
    BY Zenon, <1>4, NoTexts
  <2> QED
    BY Zenon, <2>1
<1> QED
  BY Zenon, <1>1, <1>2, <1>3, <1>4, KindsAre

\* What was written and read again, and not edited since.
LEMMA AgainIs ==
    ASSUME Inv, Again, edits = 0
    PROVE  /\ kind \in Kinds
           /\ IsValue(kind, written[1]) /\ written = Some(written[1])
           /\ value # None
           /\ IsValue(kind, value[1]) /\ value = Some(value[1])
           /\ ReadBack(kind, written[1], value[1])
<1>1. stage = "read" /\ written # None
  BY Zenon DEF Again
<1>2. /\ TypeOK
      /\ value = FromChunk(kind, chunk)
      /\ chunk = ToChunk(kind, written[1])
  BY Zenon, <1>1 DEF Inv
<1>3. kind \in Kinds /\ IsValue(kind, written[1]) /\ written = Some(written[1])
  BY Zenon, <1>1, <1>2 DEF TypeOK
<1>4. PICK v : v = written[1]
  BY Zenon
<1>5. /\ FromChunk(kind, ToChunk(kind, v)) # None
      /\ ReadBack(kind, v, FromChunk(kind, ToChunk(kind, v))[1])
  BY Zenon, <1>3, <1>4, WrittenIsReadable
<1>6. value # None /\ ReadBack(kind, v, value[1])
  BY Zenon, <1>2, <1>4, <1>5
<1>7. IsValue(kind, value[1]) /\ value = Some(value[1])
  BY Zenon, <1>2, <1>6 DEF TypeOK
<1> QED
  BY Zenon, <1>3, <1>4, <1>6, <1>7

\* What is written is read back, in every state.
LEMMA InvWrittenIsReadBack == Inv => WrittenIsReadBack
<1> SUFFICES ASSUME Inv, Again, edits = 0
             PROVE  /\ value # None
                    /\ Untexted(kind, value[1]) = Untexted(kind, written[1])
                    /\ \A i \in DOMAIN TextsOf(kind, written[1]) :
                            LET s == TextsOf(kind, written[1])[i]
                                t == TextsOf(kind, value[1])[i].text
                            IN  CutOf(t, s.text, s.width)
                                    \/ (IsLatin1(s.text)
                                        /\ Ambiguous(BeforeNul(EncodeText(s.text, s.width))))
  BY Zenon DEF WrittenIsReadBack
<1>1. PICK v, w : v = written[1] /\ w = value[1]
  BY Zenon
<1>2. kind \in Kinds /\ IsValue(kind, v) /\ value # None /\ ReadBack(kind, v, w)
  BY Zenon, <1>1, AgainIs
<1>3. Untexted(kind, w) = Untexted(kind, v)
  BY Zenon, <1>2 DEF ReadBack
<1>4. ASSUME NEW i \in DOMAIN TextsOf(kind, v), NEW s, s = TextsOf(kind, v)[i],
             NEW t, t = TextsOf(kind, w)[i].text
      PROVE  \/ CutOf(t, s.text, s.width)
             \/ IsLatin1(s.text) /\ Ambiguous(BeforeNul(EncodeText(s.text, s.width)))
  <2>1. IsText(s.text) /\ s.width \in Nat
    BY Zenon, <1>2, <1>4, TextsAre
  <2>2. PICK z \in Nat : t = DecodeText(EncodeText(s.text, s.width) \o Zeros(z))
    BY Zenon, <1>2, <1>4 DEF ReadBack
  <2> QED
    BY Zenon, <2>1, <2>2, TextIsReadBack
<1> QED
  BY Zenon, <1>1, <1>2, <1>3, <1>4

\* What was read is stable, in every state.
LEMMA InvLossesHappenOnce == Inv => LossesHappenOnce
<1> SUFFICES ASSUME Inv, Again, edits = 0, reread,
                    ~ \E i \in DOMAIN TextsOf(kind, written[1]) :
                            Ambiguous(TextsOf(kind, written[1])[i].text)
             PROVE  value = written
  BY Zenon DEF LossesHappenOnce
<1>1. PICK v, w : v = written[1] /\ w = value[1]
  BY Zenon
<1>2. /\ kind \in Kinds /\ IsValue(kind, v) /\ IsValue(kind, w) /\ ReadBack(kind, v, w)
      /\ written = Some(v) /\ value = Some(w)
  BY Zenon, <1>1, AgainIs
<1>3. Decoded(kind, v)
  BY Zenon, <1>1 DEF Inv, Again
<1>4. ASSUME NEW i \in DOMAIN TextsOf(kind, v)
      PROVE  TextsOf(kind, w)[i].text = TextsOf(kind, v)[i].text
  <2>1. PICK s : s = TextsOf(kind, v)[i]
    BY Zenon
  <2>2. IsText(s.text) /\ s.width \in Nat
    BY Zenon, <1>2, <2>1, TextsAre
  <2>3. PICK z \in Nat : TextsOf(kind, w)[i].text = DecodeText(EncodeText(s.text, s.width) \o Zeros(z))
    BY Zenon, <1>2, <2>1 DEF ReadBack
  <2>4. (\A j \in 1 .. Len(s.text) : s.text[j] # 0) /\ Len(EncodeAll(s.text)) <= s.width
    BY Zenon, <1>3, <2>1 DEF Decoded, Clean
  <2>5. Len(Encoded(s.text, Len(s.text))) <= s.width
    BY Zenon, <2>2, <2>4, EncodeAllIs
  <2>6. ~Ambiguous(s.text)
    BY Zenon, <1>1, <2>1
  <2>7. DecodeText(EncodeText(s.text, s.width) \o Zeros(z)) = s.text
    BY Zenon, <2>2, <2>4, <2>5, <2>6, TextIsStable
  <2> QED
    BY Zenon, <2>1, <2>3, <2>7
<1>5. Untexted(kind, w) = Untexted(kind, v)
  BY Zenon, <1>2 DEF ReadBack
<1>6. w = v
  BY Zenon, <1>2, <1>4, <1>5, SameValue
<1> QED
  BY Zenon, <1>2, <1>6

\* What was read fits back, in every state.
LEMMA InvFieldsFitBack == Inv => FieldsFitBack
<1> SUFFICES ASSUME Inv, stage = "read", edits = 0, value # None, NEW i \in DOMAIN RawTexts
             PROVE  LET raw == BeforeNul(RawTexts[i])
                        new == EncodeAll(TextsOf(kind, value[1])[i].text)
                    IN  Len(new) <= Len(raw) /\ (~IsUtf8(raw) => new = raw)
  BY Zenon DEF FieldsFitBack
<1>1. TypeOK /\ value = FromChunk(kind, chunk)
  BY Zenon DEF Inv
<1>2. kind \in Kinds /\ chunk \in [id : ChunkIds, data : Seq(Byte)]
  BY Zenon, <1>1 DEF TypeOK
<1>3. chunk.data \in Seq(Byte)
  BY <1>2
<1>4. chunk.id = ChunkId(kind)
  BY Zenon, <1>1, FromChunkIs
<1>5. CASE kind = "INFO"
  <2>1. value = InfoFromBytes(chunk.data)
    BY Zenon, <1>1, <1>4, <1>5, FromChunkIs
  <2> QED
    BY Zenon, <1>3, <1>5, <2>1, InfoFits
<1>6. CASE kind = "adtl"
  <2>1. value = AdtlFromBytes(chunk.data)
    BY Zenon, <1>1, <1>4, <1>6, FromChunkIs
  <2> QED
    BY Zenon, <1>3, <1>6, <2>1, AdtlFits
<1>7. CASE kind = "bext"
  <2>1. value = BextFromBytes(chunk.data)
    BY Zenon, <1>1, <1>4, <1>7, FromChunkIs
  <2> QED
    BY Zenon, <1>3, <1>7, <2>1, BextFits
<1>8. CASE kind = "cue " \/ kind = "smpl"
  <2>1. DOMAIN RawTexts = {}
    BY Zenon, <1>8, NoTexts
  <2> QED
    BY Zenon, <2>1
<1> QED
  BY Zenon, <1>2, <1>5, <1>6, <1>7, <1>8, KindsAre

-----------------------------------------------------------------------------

\* Inv holds in every state a chunk gets into.
THEOREM InvIsInvariant == Spec => []Inv
<1>1. Init => Inv
  BY InitInv
<1>2. Inv /\ [Next]_vars => Inv'
  BY NextInv
<1> QED
  BY <1>1, <1>2, PTL DEF Spec

\* Whatever bytes are found, what is decoded from them is text that fits its
\* length fields, and what is encoded again is bytes.
THEOREM TypeCorrect == Spec => []TypeOK
<1>1. Inv => TypeOK
  BY Zenon DEF Inv
<1> QED
  BY <1>1, InvIsInvariant, PTL

\* What is written of any value is read back, but for ambiguous text.
THEOREM NothingElseIsLost == Spec => []WrittenIsReadBack
<1>1. Inv => WrittenIsReadBack
  BY InvWrittenIsReadBack
<1> QED
  BY <1>1, InvIsInvariant, PTL

\* A value that was read is the same when written and read again.
THEOREM SecondPassIsStable == Spec => []LossesHappenOnce
<1>1. Inv => LossesHappenOnce
  BY InvLossesHappenOnce
<1> QED
  BY <1>1, InvIsInvariant, PTL

\* A text that was read fits back into its field, and keeps its bytes.
THEOREM ReadTextFits == Spec => []FieldsFitBack
<1>1. Inv => FieldsFitBack
  BY InvFieldsFitBack
<1> QED
  BY <1>1, InvIsInvariant, PTL
=============================================================================
