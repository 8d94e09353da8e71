---------------------------- MODULE Codec_proofs ----------------------------
(***************************************************************************)
(* What goes through the codec comes out as it went in, or not at all; and *)
(* the walks over the bytes of a text see its characters.                  *)
(***************************************************************************)
EXTENDS Codec, Utf8, Ops_proofs

-----------------------------------------------------------------------------
(***************************************************************************)
(* FlattenSeq is a recursive function of the prefixes, too.                *)
(***************************************************************************)
Appends(f, seqs, n) ==
  /\ f[0] = <<>>
  /\ \A k \in 1..n : f[k] = f[k - 1] \o seqs[k]

LEMMA AppendsExist ==
  ASSUME NEW X, NEW seqs \in Seq(Seq(X))
  PROVE  \E f \in [0..Len(seqs) -> Seq(X)] : Appends(f, seqs, Len(seqs))
<1> DEFINE N == Len(seqs)
           T == {n \in Nat : n <= N => \E f \in [0..n -> Seq(X)] : Appends(f, seqs, n)}
<1>1. N \in Nat /\ \A k \in 1..N : seqs[k] \in Seq(X)
  OBVIOUS
<1>2. 0 \in T
  <2> DEFINE f == [k \in 0..0 |-> <<>>]
  <2>1. f \in [0..0 -> Seq(X)] /\ Appends(f, seqs, 0)
    BY DEF Appends
  <2> QED
    BY <2>1
<1>3. ASSUME NEW n \in Nat, n \in T PROVE n + 1 \in T
  <2> SUFFICES ASSUME n + 1 <= N
               PROVE  \E f \in [0..(n + 1) -> Seq(X)] : Appends(f, seqs, n + 1)
    OBVIOUS
  <2>1. PICK f \in [0..n -> Seq(X)] : Appends(f, seqs, n)
    BY <1>1, <1>3
  <2>2. n + 1 \in 1..N /\ n \in 0..n /\ n + 1 \notin 0..n /\ (n + 1) - 1 = n
    BY <1>1
  <2> DEFINE x == f[n] \o seqs[n + 1]
             g == [k \in 0..(n + 1) |-> IF k = n + 1 THEN x ELSE f[k]]
  <2>3. x \in Seq(X)
    BY <1>1, <2>2
  <2> HIDE DEF x
  <2>4. \A k \in 0..(n + 1) : k \in 0..n \/ k = n + 1
    OBVIOUS
  <2>5. g \in [0..(n + 1) -> Seq(X)]
    BY <2>3, <2>4
  <2>6. \A k \in 1..n : g[k] = f[k] /\ g[k - 1] = f[k - 1]
    OBVIOUS
  <2>7. g[n + 1] = x /\ g[n] = f[n] /\ g[0] = f[0]
    BY <2>2
  <2> HIDE DEF g
  <2>8. \A k \in 1..(n + 1) : g[k] = g[k - 1] \o seqs[k]
    <3>1. \A k \in 1..(n + 1) : k \in 1..n \/ k = n + 1
      OBVIOUS
    <3>2. \A k \in 1..n : g[k] = g[k - 1] \o seqs[k]
      BY <2>1, <2>6 DEF Appends
    <3>3. g[n + 1] = g[(n + 1) - 1] \o seqs[n + 1]
      BY <2>2, <2>7 DEF x
    <3> QED
      <4> TAKE k \in 1..(n + 1)
      <4>1. CASE k \in 1..n
        BY <3>2, <4>1
      <4>2. CASE k = n + 1
        BY <3>3, <4>2, Zenon
      <4> QED
        BY <3>1, <4>1, <4>2
  <2>9. Appends(g, seqs, n + 1)
    BY <2>1, <2>7, <2>8 DEF Appends
  <2> QED
    BY <2>5, <2>9
<1>4. Nat \subseteq T
  <2> HIDE DEF T
  <2> QED
    BY <1>2, <1>3, SetInduction
<1> QED
  BY <1>1, <1>4

LEMMA FlattenAppends ==
  ASSUME NEW X, NEW seqs \in Seq(Seq(X))
  PROVE  \E f \in [0..Len(seqs) -> Seq(X)] :
           Appends(f, seqs, Len(seqs)) /\ FlattenSeq(seqs) = f[Len(seqs)]
<1> DEFINE N == Len(seqs)
<1>1. N \in Nat /\ DOMAIN seqs = 1..N /\ \A k \in 1..N : seqs[k] \in Seq(X)
  OBVIOUS
<1>2. PICK f \in [0..N -> Seq(X)] : Appends(f, seqs, N)
  BY AppendsExist
<1>3. CASE N = 0
  <2>1. FlattenSeq(seqs) = seqs /\ seqs = <<>>
    BY <1>3 DEF FlattenSeq
  <2> QED
    BY <1>2, <1>3, <2>1 DEF Appends
<1>4. CASE N # 0
  <2> DEFINE Is(h) == h = [k \in 1..N |-> IF k = 1 THEN seqs[k] ELSE h[k - 1] \o seqs[k]]
             flatten == CHOOSE h : Is(h)
             g == [k \in 1..N |-> f[k]]
  <2>1. FlattenSeq(seqs) = flatten[N]
    BY <1>4 DEF FlattenSeq
  <2>2. Is(g)
    <3>1. ASSUME NEW k \in 1..N
          PROVE  f[k] = IF k = 1 THEN seqs[k] ELSE g[k - 1] \o seqs[k]
      <4>1. f[k] = f[k - 1] \o seqs[k]
        BY <1>2 DEF Appends
      <4>2. CASE k = 1
        <5>1. k - 1 = 0 /\ f[0] = <<>> /\ seqs[k] \in Seq(X)
          BY <1>1, <1>2, <4>2 DEF Appends
        <5>2. f[k] = <<>> \o seqs[k]
          BY <4>1, <5>1
        <5>3. <<>> \o seqs[k] = seqs[k]
          BY <5>1
        <5> QED
          BY <4>2, <5>2, <5>3
      <4>3. CASE k # 1
        <5>1. k - 1 \in 1..N
          BY <1>1, <4>3
        <5> QED
          BY <4>1, <4>3, <5>1
      <4> QED
        BY <4>2, <4>3
    <3> QED
      BY <3>1
  <2>3. Is(flatten)
    <3> HIDE DEF Is
    <3> QED
      BY <2>2
  <2>4. \A k \in 1..N : flatten[k] = IF k = 1 THEN seqs[k] ELSE flatten[k - 1] \o seqs[k]
    <3> HIDE DEF flatten
    <3> QED
      BY <2>3
  <2>5. \A k \in 1..N : f[k] = IF k = 1 THEN seqs[k] ELSE f[k - 1] \o seqs[k]
    <3>1. \A k \in 1..N : k # 1 => k - 1 \in 1..N
      BY <1>1
    <3>2. \A k \in 1..N : g[k] = IF k = 1 THEN seqs[k] ELSE g[k - 1] \o seqs[k]
      <4> HIDE DEF g
      <4> QED
        BY <2>2
    <3>3. \A k \in 1..N : g[k] = f[k]
      OBVIOUS
    <3> HIDE DEF g
    <3> QED
      BY <3>1, <3>2, <3>3
  <2> HIDE DEF flatten
  <2> DEFINE T == {k \in Nat : k \in 1..N => flatten[k] = f[k]}
  <2>6. 0 \in T
    OBVIOUS
  <2>7. ASSUME NEW k \in Nat, k \in T PROVE k + 1 \in T
    <3> SUFFICES ASSUME k + 1 \in 1..N PROVE flatten[k + 1] = f[k + 1]
      OBVIOUS
    <3>1. k + 1 = 1 \/ (k \in 1..N /\ (k + 1) - 1 = k)
      BY <1>1
    <3>2. k \in 1..N => flatten[k] = f[k]
      BY <2>7
    <3> QED
      BY <2>4, <2>5, <3>1, <3>2
  <2>8. Nat \subseteq T
    <3> HIDE DEF T
    <3> QED
      BY <2>6, <2>7, SetInduction
  <2>9. flatten[N] = f[N]
    BY <1>1, <1>4, <2>8
  <2> QED
    BY <1>2, <2>1, <2>9
<1> QED
  BY <1>3, <1>4

-----------------------------------------------------------------------------
(***************************************************************************)
(* Hex digits there and back.  Zeros(a, z): a begins with z zeros, its     *)
(* last byte not among them, and with no more.                             *)
(***************************************************************************)
Bytes256 == 0..255
Nibbles == 0..15

Zeros(a, z) ==
  /\ z \in 0..(HashLen - 1)
  /\ \A m \in 1..z : a[m] = 0
  /\ z + 1 = HashLen \/ a[z + 1] # 0

LEMMA Halves ==
  ASSUME NEW x \in Bytes256
  PROVE  /\ x \div 16 \in Nibbles /\ x % 16 \in Nibbles
         /\ x = 16 * (x \div 16) + (x % 16)
<1>1. x \in Nat /\ x < 256
  BY DEF Bytes256
<1>2. x \div 16 \in Int /\ x % 16 \in 0..15 /\ x = 16 * (x \div 16) + (x % 16)
  BY <1>1
<1>3. x \div 16 \in 0..15
  BY <1>1, <1>2
<1> QED
  BY <1>2, <1>3 DEF Nibbles

LEMMA ZerosExist ==
  ASSUME HashLen \in Nat \ {0}, NEW a \in [1..HashLen -> Bytes256]
  PROVE  \E z : Zeros(a, z)
<1> SUFFICES ASSUME \A z : ~Zeros(a, z) PROVE FALSE
  OBVIOUS
<1> DEFINE T == {n \in Nat : n <= HashLen - 1 => \A m \in 1..n : a[m] = 0}
<1>1. 0 \in T
  OBVIOUS
<1>2. ASSUME NEW n \in Nat, n \in T PROVE n + 1 \in T
  <2> SUFFICES ASSUME n + 1 <= HashLen - 1 PROVE \A m \in 1..(n + 1) : a[m] = 0
    OBVIOUS
  <2>1. n \in 0..(HashLen - 1) /\ n + 1 # HashLen /\ \A m \in 1..n : a[m] = 0
    BY <1>2
  <2>2. a[n + 1] = 0
    BY <2>1 DEF Zeros
  <2>3. \A m \in 1..(n + 1) : m \in 1..n \/ m = n + 1
    OBVIOUS
  <2> QED
    BY <2>1, <2>2, <2>3
<1>3. Nat \subseteq T
  <2> HIDE DEF T
  <2> QED
    BY <1>1, <1>2, SetInduction
<1>4. HashLen - 1 \in Nat
  OBVIOUS
<1>5. Zeros(a, HashLen - 1)
  BY <1>3, <1>4 DEF Zeros
<1> QED
  BY <1>5

Pieces(a) ==
  [k \in 1..Len(a) |-> IF k # Len(a) /\ \A m \in 1..k : a[m] = 0 THEN <<>>
                       ELSE <<a[k] \div 16, a[k] % 16>>]

LEMMA PieceOfByte ==
  ASSUME HashLen \in Nat \ {0}, NEW a \in [1..HashLen -> Bytes256], NEW z, Zeros(a, z)
  PROVE  /\ Len(a) = HashLen
         /\ Pieces(a) \in Seq(Seq(Nibbles)) /\ Len(Pieces(a)) = HashLen
         /\ \A k \in 1..z : Pieces(a)[k] = <<>>
         /\ \A k \in (z + 1)..HashLen : Pieces(a)[k] = <<a[k] \div 16, a[k] % 16>>
<1>1. Len(a) = HashLen
  <2>1. a \in Seq(Bytes256) /\ DOMAIN a = 1..HashLen
    OBVIOUS
  <2>2. DOMAIN a = 1..Len(a) /\ Len(a) \in Nat
    BY <2>1
  <2> QED
    BY <2>1, <2>2
<1>2. z \in Nat /\ z < HashLen /\ (\A m \in 1..z : a[m] = 0) /\ (z + 1 = HashLen \/ a[z + 1] # 0)
  BY DEF Zeros
<1>3. \A k \in 1..HashLen : a[k] \in Bytes256
  OBVIOUS
<1>4. \A k \in 1..HashLen : a[k] \div 16 \in Nibbles /\ a[k] % 16 \in Nibbles
  BY <1>3, Halves
<1> DEFINE p(k) == <<a[k] \div 16, a[k] % 16>>
<1>5. \A k \in 1..HashLen : p(k) \in Seq(Nibbles)
  <2> TAKE k \in 1..HashLen
  <2> DEFINE x == a[k] \div 16
             y == a[k] % 16
  <2>1. x \in Nibbles /\ y \in Nibbles
    BY <1>4
  <2> HIDE DEF x, y
  <2>2. <<x, y>> \in Seq(Nibbles)
    BY <2>1
  <2> QED
    BY <2>2 DEF x, y
<1>6. <<>> \in Seq(Nibbles)
  OBVIOUS
<1>7. Pieces(a) = [k \in 1..HashLen |-> IF k # HashLen /\ \A m \in 1..k : a[m] = 0 THEN <<>> ELSE p(k)]
  BY <1>1 DEF Pieces
<1> HIDE DEF p
<1>8. Pieces(a) \in [1..HashLen -> Seq(Nibbles)]
  BY <1>5, <1>6, <1>7
<1>9. \A k \in 1..z : k # HashLen /\ k \in 1..HashLen /\ \A m \in 1..k : a[m] = 0
  BY <1>2
<1>10. \A k \in (z + 1)..HashLen : k \in 1..HashLen /\ ~(k # HashLen /\ \A m \in 1..k : a[m] = 0)
  <2> TAKE k \in (z + 1)..HashLen
  <2>1. k \in 1..HashLen /\ (k # HashLen => z + 1 # HashLen /\ z + 1 \in 1..k)
    BY <1>2
  <2> QED
    BY <1>2, <2>1
<1>11. \A k \in 1..z : Pieces(a)[k] = <<>>
  BY <1>7, <1>9
<1>12. \A k \in (z + 1)..HashLen : Pieces(a)[k] = p(k)
  BY <1>7, <1>10
<1>13. Pieces(a) \in Seq(Seq(Nibbles)) /\ Len(Pieces(a)) = HashLen
  <2> DEFINE S == Seq(Nibbles)
  <2> HIDE DEF S
  <2>1. Pieces(a) \in [1..HashLen -> S]
    BY <1>8 DEF S
  <2>2. Pieces(a) \in Seq(S) /\ Len(Pieces(a)) = HashLen
    BY <2>1
  <2> QED
    BY <2>2 DEF S
<1> QED
  BY <1>1, <1>11, <1>12, <1>13 DEF p

\* What the first k bytes of a, z of them zeros left out, have been written as.
Written(a, z, k, hex) ==
  IF k <= z THEN hex = <<>>
  ELSE /\ Len(hex) = 2 * (k - z)
       /\ \A j \in (z + 1)..k :
            hex[2 * (j - z) - 1] = a[j] \div 16 /\ hex[2 * (j - z)] = a[j] % 16

LEMMA WrittenTwo ==
  ASSUME NEW a, NEW z \in Nat, NEW k \in Nat, k >= z, NEW hex \in Seq(Nibbles),
         k = z => hex = <<>>, k > z => Written(a, z, k, hex),
         NEW x \in Nibbles, NEW y \in Nibbles,
         x = a[k + 1] \div 16, y = a[k + 1] % 16
  PROVE  Written(a, z, k + 1, hex \o <<x, y>>)
<1> DEFINE new == hex \o <<x, y>>
<1>1. Len(hex) = 2 * (k - z)
  BY DEF Written
<1>2. <<x, y>> \in Seq(Nibbles) /\ Len(<<x, y>>) = 2 /\ <<x, y>>[1] = x /\ <<x, y>>[2] = y
  OBVIOUS
<1> DEFINE two == <<x, y>>
<1> HIDE DEF two
<1>3. Len(hex \o two) = Len(hex) + 2
  BY <1>2 DEF two
<1>4. \A m \in 1..Len(hex) : (hex \o two)[m] = hex[m]
  BY <1>2 DEF two
<1>5. (hex \o two)[Len(hex) + 1] = x /\ (hex \o two)[Len(hex) + 2] = y
  <2>1. two \in Seq(Nibbles) /\ Len(two) = 2 /\ two[1] = x /\ two[2] = y
    BY <1>2 DEF two
  <2>2. \A m \in 1..(Len(hex) + Len(two)) :
          (hex \o two)[m] = IF m <= Len(hex) THEN hex[m] ELSE two[m - Len(hex)]
    <3> HIDE DEF Nibbles
    <3> DEFINE S == Nibbles
    <3>1. hex \in Seq(S) /\ two \in Seq(S)
      BY <2>1
    <3> HIDE DEF S
    <3> QED
      BY <3>1, ConcatProperties
  <2>3. \A m \in {1, 2} : /\ Len(hex) + m \in 1..(Len(hex) + Len(two))
                           /\ ~(Len(hex) + m <= Len(hex)) /\ (Len(hex) + m) - Len(hex) = m
    BY <1>1, <2>1
  <2>4. \A m \in {1, 2} : (hex \o two)[Len(hex) + m] = two[m]
    BY <2>2, <2>3, Zenon
  <2> QED
    BY <2>1, <2>4
<1> DEFINE longer == hex \o two
<1> HIDE DEF longer
<1>6. \A j \in (z + 1)..k : /\ longer[2 * (j - z) - 1] = a[j] \div 16
                            /\ longer[2 * (j - z)] = a[j] % 16
  <2> TAKE j \in (z + 1)..k
  <2>1. 2 * (j - z) - 1 \in 1..Len(hex) /\ 2 * (j - z) \in 1..Len(hex) /\ k > z
    BY <1>1
  <2>2. hex[2 * (j - z) - 1] = a[j] \div 16 /\ hex[2 * (j - z)] = a[j] % 16
    BY <2>1 DEF Written
  <2> QED
    BY <1>4, <2>1, <2>2 DEF longer
<1>7. 2 * ((k + 1) - z) - 1 = Len(hex) + 1 /\ 2 * ((k + 1) - z) = Len(hex) + 2
  BY <1>1
<1>8. /\ longer[2 * ((k + 1) - z) - 1] = a[k + 1] \div 16
      /\ longer[2 * ((k + 1) - z)] = a[k + 1] % 16
  BY <1>5, <1>7 DEF longer
<1>9. ~(k + 1 <= z) /\ Len(longer) = 2 * ((k + 1) - z)
  BY <1>1, <1>3 DEF longer
<1>10. \A j \in (z + 1)..(k + 1) : j \in (z + 1)..k \/ j = k + 1
  OBVIOUS
<1>11. \A j \in (z + 1)..(k + 1) : /\ longer[2 * (j - z) - 1] = a[j] \div 16
                                   /\ longer[2 * (j - z)] = a[j] % 16
  <2> TAKE j \in (z + 1)..(k + 1)
  <2>1. CASE j \in (z + 1)..k
    BY <1>6, <2>1
  <2>2. CASE j = k + 1
    BY <1>8, <2>2
  <2> QED
    BY <1>10, <2>1, <2>2
<1>12. Written(a, z, k + 1, longer)
  BY <1>9, <1>11 DEF Written
<1> QED
  BY <1>12 DEF longer, two

LEMMA HexIsWritten ==
  ASSUME HashLen \in Nat \ {0}, NEW a \in [1..HashLen -> Bytes256], NEW z, Zeros(a, z)
  PROVE  Written(a, z, HashLen, atohex(a))
<1> DEFINE N == HashLen
           seqs == Pieces(a)
<1>1. /\ seqs \in Seq(Seq(Nibbles)) /\ Len(seqs) = N
      /\ \A k \in 1..z : seqs[k] = <<>>
      /\ \A k \in (z + 1)..N : seqs[k] = <<a[k] \div 16, a[k] % 16>>
  BY PieceOfByte
<1>2. z \in Nat /\ z < N /\ N \in Nat
  BY DEF Zeros
<1>3. atohex(a) = FlattenSeq(seqs)
  BY DEF atohex, Pieces
<1> HIDE DEF seqs
<1>4. PICK f \in [0..N -> Seq(Nibbles)] : Appends(f, seqs, N) /\ FlattenSeq(seqs) = f[N]
  BY <1>1, FlattenAppends
<1>5. f[0] = <<>> /\ \A k \in 1..N : f[k] = f[k - 1] \o seqs[k]
  BY <1>4 DEF Appends
<1> DEFINE T == {k \in Nat : k <= N => Written(a, z, k, f[k])}
<1>6. 0 \in T
  BY <1>2, <1>5 DEF Written
<1>7. ASSUME NEW k \in Nat, k \in T PROVE k + 1 \in T
  <2> SUFFICES ASSUME k + 1 <= N PROVE Written(a, z, k + 1, f[k + 1])
    OBVIOUS
  <2>1. k \in 0..N /\ k + 1 \in 1..N /\ (k + 1) - 1 = k /\ Written(a, z, k, f[k])
    BY <1>2, <1>7
  <2>2. f[k + 1] = f[k] \o seqs[k + 1] /\ f[k] \in Seq(Nibbles)
    <3>1. f[k + 1] = f[(k + 1) - 1] \o seqs[k + 1]
      BY <1>5, <2>1, Zenon
    <3> QED
      BY <2>1, <3>1
  <2>3. CASE k + 1 <= z
    <3>1. f[k] = <<>>
      BY <1>2, <2>1, <2>3 DEF Written
    <3>2. seqs[k + 1] = <<>>
      BY <1>1, <2>1, <2>3
    <3>3. f[k + 1] = <<>>
      BY <2>2, <3>1, <3>2
    <3> QED
      BY <2>3, <3>3 DEF Written
  <2>4. CASE ~(k + 1 <= z)
    <3> DEFINE x == a[k + 1] \div 16
               y == a[k + 1] % 16
    <3>1. k + 1 \in (z + 1)..N /\ k >= z
      BY <1>2, <2>1, <2>4
    <3>2. a[k + 1] \in Bytes256
      BY <2>1
    <3>3. x \in Nibbles /\ y \in Nibbles
      BY <3>2, Halves
    <3>4. seqs[k + 1] = <<x, y>>
      BY <1>1, <3>1
    <3>5. k = z => f[k] = <<>>
      BY <1>2, <2>1 DEF Written
    <3> HIDE DEF x, y
    <3>6. Written(a, z, k + 1, f[k] \o <<x, y>>)
      BY <1>2, <2>1, <2>2, <3>1, <3>3, <3>5, WrittenTwo DEF x, y
    <3> QED
      BY <2>2, <3>4, <3>6
  <2> QED
    BY <2>3, <2>4
<1>8. Nat \subseteq T
  <2> HIDE DEF T
  <2> QED
    BY <1>6, <1>7, SetInduction
<1> QED
  BY <1>2, <1>3, <1>4, <1>8

\* Every hash comes back as it was, leading zeros included.
LEMMA HexThereAndBack ==
  ASSUME HashLen \in Nat \ {0}, NEW a \in [1..HashLen -> Bytes256]
  PROVE  hextoa(HashLen, atohex(a)) = a
<1>1. PICK z : Zeros(a, z)
  BY ZerosExist
<1>2. z \in Nat /\ z < HashLen /\ \A m \in 1..z : a[m] = 0
  BY <1>1 DEF Zeros
<1> DEFINE hex == atohex(a)
<1>3. Written(a, z, HashLen, hex)
  BY <1>1, HexIsWritten
<1> HIDE DEF hex
<1>4. /\ Len(hex) = 2 * (HashLen - z)
      /\ \A j \in (z + 1)..HashLen :
            hex[2 * (j - z) - 1] = a[j] \div 16 /\ hex[2 * (j - z)] = a[j] % 16
  BY <1>2, <1>3 DEF Written
<1> DEFINE pad == HashLen - (Len(hex) \div 2)
<1>5. pad = z
  BY <1>2, <1>4
<1> HIDE DEF pad
<1>6. ASSUME NEW k \in 1..HashLen
      PROVE  a[k] = IF k <= z THEN 0 ELSE 16 * hex[2 * (k - z) - 1] + hex[2 * (k - z)]
  <2>1. CASE k <= z
    BY <1>2, <2>1
  <2>2. CASE ~(k <= z)
    <3>1. hex[2 * (k - z) - 1] = a[k] \div 16 /\ hex[2 * (k - z)] = a[k] % 16
      BY <1>2, <1>4, <2>2
    <3>2. a[k] \in Bytes256
      OBVIOUS
    <3>3. a[k] = 16 * (a[k] \div 16) + (a[k] % 16)
      BY <3>2, Halves
    <3> QED
      BY <2>2, <3>1, <3>3
  <2> QED
    BY <2>1, <2>2
<1> DEFINE back == [k \in 1..HashLen |->
                      IF k <= z THEN 0 ELSE 16 * hex[2 * (k - z) - 1] + hex[2 * (k - z)]]
<1>7. hextoa(HashLen, hex) = back
  BY <1>5 DEF hextoa, pad
<1>8. a = back
  BY <1>6
<1> QED
  BY <1>7, <1>8 DEF hex

-----------------------------------------------------------------------------
(***************************************************************************)
(* Numbers.                                                                *)
(***************************************************************************)
LEMMA SmallNumber ==
  ASSUME NEW n \in 0..IntMax
  PROVE  AsInt(n) = {n} /\ AsUint(n) = n
<1>1. n \in Nat /\ n <= IntMax /\ IntMax \in Nat
  BY WidthAssumption
<1>2. Uints \in Nat /\ n < Uints /\ Uints > 0
  BY <1>1 DEF Uints
<1>3. n % Uints = n
  <2> HIDE DEF Uints
  <2> QED
    BY <1>1, <1>2
<1>4. AsInt(n) = {n}
  BY <1>1 DEF AsInt
<1> QED
  BY <1>3, <1>4 DEF AsUint

LEMMA NegativeRemainder ==
  ASSUME NEW v \in Int, NEW m \in Nat \ {0}, v < 0, v >= -m
  PROVE  v % m = v + m
OBVIOUS

LEMMA LargeNumber ==
  ASSUME NEW n \in Nat, n > IntMax, NEW v \in AsInt(n)
  PROVE  AsUint(v) \in {IntMax, IntMax + 1}
<1>1. IntMax \in Nat
  BY WidthAssumption
<1>2. v = IntMax \/ v = -IntMax - 1
  BY <1>1 DEF AsInt
<1>3. CASE v = IntMax
  <2>1. IntMax \in 0..IntMax
    BY <1>1
  <2> QED
    BY <1>3, <2>1, SmallNumber
<1>4. CASE v = -IntMax - 1
  <2> DEFINE w == IntMax + 1
  <2>1. Uints = 2 * w /\ w \in Nat /\ w > 0 /\ v = -w
    BY <1>1, <1>4 DEF Uints
  <2>2. Uints \in Nat \ {0} /\ v \in Int /\ v < 0 /\ v >= -Uints /\ v + Uints = w
    BY <2>1
  <2>3. v % Uints = w
    <3> HIDE DEF w, Uints
    <3> QED
      BY <2>2, NegativeRemainder
  <2> QED
    BY <2>3 DEF AsUint
<1> QED
  BY <1>2, <1>3, <1>4

\* A number within the range comes back, and one that is well beyond does not.
LEMMA NumberThereAndBack ==
  ASSUME NEW n \in Nat, NEW v \in AsInt(n)
  PROVE  /\ AsUint(v) \in Nat
         /\ n \in 0..IntMax => AsUint(v) = n
         /\ n \notin 0..(IntMax + 1) => AsUint(v) # n
<1>1. IntMax \in Nat
  BY WidthAssumption
<1>2. CASE n \in 0..IntMax
  <2>1. AsInt(n) = {n} /\ AsUint(n) = n
    BY <1>2, SmallNumber
  <2>2. AsUint(v) = n
    BY <2>1
  <2>3. n \in 0..(IntMax + 1)
    BY <1>1, <1>2
  <2> QED
    BY <2>2, <2>3
<1>3. CASE n \notin 0..IntMax
  <2>1. n > IntMax
    BY <1>1, <1>3
  <2>2. AsUint(v) \in {IntMax, IntMax + 1}
    BY <2>1, LargeNumber
  <2>3. n \notin 0..(IntMax + 1) => n > IntMax + 1
    BY <1>1
  <2> QED
    BY <1>1, <1>3, <2>2, <2>3
<1> QED
  BY <1>2, <1>3

-----------------------------------------------------------------------------
(***************************************************************************)
(* Items.  A broken one is where decoding ends.                            *)
(***************************************************************************)
Sound(item) == Readable(item) /\ IsKnown(item)

LEMMA AllDecodable ==
  ASSUME NEW items, Len(items) \in Nat, \A k \in 1..Len(items) : Sound(items[k])
  PROVE  Cardinality(Decodable(items)) = Len(items)
<1>1. Decodable(items) = 1..Len(items)
  BY DEF Decodable, Sound
<1>2. Cardinality(1..Len(items)) = IF 1 > Len(items) THEN 0 ELSE Len(items) - 1 + 1
  BY FS_Interval
<1> QED
  BY <1>1, <1>2

LEMMA NotAllDecodable ==
  ASSUME NEW items, Len(items) \in Nat, NEW k \in 1..Len(items), ~Sound(items[k])
  PROVE  /\ Cardinality(Decodable(items)) \in 0..(Len(items) - 1)
<1> DEFINE N == Len(items)
           D == Decodable(items)
           I == 1..N
<1>1. D \in SUBSET I /\ k \notin D /\ k \in I
  BY DEF Decodable, Sound
<1>2. IsFiniteSet(I) /\ Cardinality(I) = N
  <2>1. IsFiniteSet(1..N) /\ Cardinality(1..N) = IF 1 > N THEN 0 ELSE N - 1 + 1
    BY FS_Interval
  <2> QED
    BY <2>1
<1> HIDE DEF D, I, N
<1>3. IsFiniteSet(D) /\ Cardinality(D) <= N /\ (N = Cardinality(D) => I = D)
  BY <1>1, <1>2, FS_Subset
<1>4. Cardinality(D) \in Nat /\ Cardinality(D) # N
  BY <1>1, <1>3, FS_CardinalityType
<1>5. Cardinality(D) \in 0..(N - 1)
  <2>1. N \in Nat
    BY DEF N
  <2> QED
    BY <1>3, <1>4, <2>1
<1> QED
  BY <1>5 DEF D, N

\* What an item is before and after it has lost a field: a sound one has the
\* fields that are asked for and no others.
Exact(item) == Sound(item) => DOMAIN item = {"type"} \cup Needs(item.type)

LEMMA LessIsUnsound ==
  ASSUME NEW item, Exact(item), NEW name \in DOMAIN item
  PROVE  ~Sound(Without(item, name))
<1> DEFINE less == Without(item, name)
<1>1. DOMAIN less = DOMAIN item \ {name} /\ \A field \in DOMAIN less : less[field] = item[field]
  BY DEF Without
<1> HIDE DEF less
<1> SUFFICES ASSUME Sound(less) PROVE FALSE
  BY DEF less
<1>2. "type" \in DOMAIN less /\ Needs(less.type) \subseteq DOMAIN less /\ IsKnown(less)
  BY DEF Sound, Readable
<1>3. less.type = item.type
  BY <1>1, <1>2
<1>4. Sound(item)
  BY <1>1, <1>2, <1>3 DEF Sound, Readable, IsKnown
<1>5. name \in {"type"} \cup Needs(item.type)
  BY <1>4 DEF Exact
<1> QED
  BY <1>1, <1>2, <1>3, <1>5

LEMMA UnknownIsUnsound == ~Sound([type |-> "unknown"])
<1> DEFINE item == [type |-> "unknown"]
<1>1. item.type = "unknown"
  OBVIOUS
<1> HIDE DEF item
<1>2. ~IsKnown(item)
  BY <1>1 DEF IsKnown, Stubs
<1> QED
  BY <1>2 DEF Sound, item

\* The items cjson_op writes.
LEMMA WrittenItem ==
  ASSUME NEW c, IsComponent(c)
  PROVE  /\ Exact(CompJson(c))
         /\ Sound(CompJson(c)) <=> c.type # "formattingBoundary"
<1> DEFINE item == CompJson(c)
<1>1. CASE c.type \in {"skip", "delete"}
  <2>1. item = [type |-> c.type, count |-> c.count]
    BY <1>1 DEF CompJson
  <2>2. DOMAIN item = {"type", "count"} /\ item.type = c.type
    BY <2>1
  <2> HIDE DEF item
  <2>3. Needs(item.type) = {"count"}
    BY <1>1, <2>2 DEF Needs
  <2> QED
    BY <1>1, <2>2, <2>3 DEF Exact, Sound, Readable, IsKnown, item
<1>2. CASE c.type = "insert"
  <2>1. item = [type |-> "insert", text |-> c.text]
    BY <1>2 DEF CompJson
  <2>2. DOMAIN item = {"type", "text"} /\ item.type = "insert"
    BY <2>1
  <2> HIDE DEF item
  <2>3. Needs(item.type) = {"text"}
    BY <2>2 DEF Needs
  <2> QED
    BY <1>2, <2>2, <2>3 DEF Exact, Sound, Readable, IsKnown, item
<1>3. CASE c.type = "openElement"
  <2>1. item = [type |-> "openElement", element |-> c.elem]
    BY <1>3 DEF CompJson
  <2>2. DOMAIN item = {"type", "element"} /\ item.type = "openElement"
    BY <2>1
  <2> HIDE DEF item
  <2>3. Needs(item.type) = {"element"}
    BY <2>2 DEF Needs
  <2> QED
    BY <1>3, <2>2, <2>3 DEF Exact, Sound, Readable, IsKnown, Stubs, item
<1>4. CASE c.type = "closeElement"
  <2>1. item = [type |-> "closeElement"]
    BY <1>4 DEF CompJson
  <2>2. DOMAIN item = {"type"} /\ item.type = "closeElement"
    BY <2>1
  <2> HIDE DEF item
  <2>3. Needs(item.type) = {}
    BY <2>2 DEF Needs
  <2> QED
    BY <1>4, <2>2, <2>3 DEF Exact, Sound, Readable, IsKnown, Stubs, item
<1>5. CASE c.type = "formattingBoundary"
  <2>1. item = <<>>
    BY <1>5 DEF CompJson
  <2>2. "type" \notin DOMAIN item
    BY <2>1
  <2> HIDE DEF item
  <2> QED
    BY <1>5, <2>2 DEF Exact, Sound, Readable, item
<1> QED
  BY <1>1, <1>2, <1>3, <1>4, <1>5 DEF IsComponent

\* What becomes of a component on its way there and back.
LEMMA ItemThereAndBack ==
  ASSUME NEW c, IsComponent(c), NEW d \in CompsOf(CompJson(c))
  PROVE  /\ /\ c.type \notin {"openElement", "formattingBoundary"}
            /\ c.type \in {"skip", "delete"} => c.count \in 0..IntMax
            => d = c
         /\ c.type = "openElement" /\ c.elem # Freed => d # c
         /\ c.type \in {"skip", "delete"} /\ c.count \notin 0..(IntMax + 1) => d # c
<1> DEFINE item == CompJson(c)
<1>1. CASE c.type \in {"skip", "delete"}
  <2>1. c \in [type : {c.type}, count : Nat]
    BY <1>1 DEF IsComponent
  <2>2. c = [type |-> c.type, count |-> c.count] /\ c.count \in Nat
    BY <2>1
  <2>3. item = [type |-> c.type, count |-> c.count]
    BY <1>1 DEF CompJson
  <2>4. item.type = c.type /\ item.count = c.count
    BY <2>3
  <2> HIDE DEF item
  <2>5. CompsOf(item) = {[type |-> item.type, count |-> AsUint(v)] : v \in AsInt(item.count)}
    BY <1>1, <2>4 DEF CompsOf
  <2>6. PICK v \in AsInt(c.count) : d = [type |-> c.type, count |-> AsUint(v)]
    BY <2>4, <2>5 DEF item
  <2>7. /\ c.count \in 0..IntMax => AsUint(v) = c.count
        /\ c.count \notin 0..(IntMax + 1) => AsUint(v) # c.count
    BY <2>2, NumberThereAndBack
  <2>8. d.count = AsUint(v)
    BY <2>6
  <2> QED
    BY <1>1, <2>2, <2>6, <2>7, <2>8
<1>2. CASE c.type = "insert"
  <2>1. c = InsertComp(c.text)
    BY <1>2 DEF IsComponent
  <2>2. item = [type |-> "insert", text |-> c.text]
    BY <1>2 DEF CompJson
  <2>3. item.type = "insert" /\ item.text = c.text
    BY <2>2
  <2> HIDE DEF item
  <2>4. CompsOf(item) = {InsertComp(item.text)}
    BY <2>3 DEF CompsOf
  <2> QED
    BY <1>2, <2>1, <2>3, <2>4 DEF item
<1>3. CASE c.type = "openElement"
  <2>1. item = [type |-> "openElement", element |-> c.elem]
    BY <1>3 DEF CompJson
  <2>2. item.type = "openElement"
    BY <2>1
  <2> HIDE DEF item
  <2>3. CompsOf(item) = {OpenComp(Freed)}
    BY <2>2 DEF CompsOf
  <2>4. d.elem = Freed
    BY <2>3 DEF OpenComp, item
  <2> QED
    BY <1>3, <2>4
<1>4. CASE c.type = "closeElement"
  <2>1. item = [type |-> "closeElement"] /\ c = CloseComp
    BY <1>4 DEF CompJson, IsComponent
  <2>2. item.type = "closeElement"
    BY <2>1
  <2> HIDE DEF item
  <2>3. CompsOf(item) = {CloseComp}
    BY <2>2 DEF CompsOf
  <2> QED
    BY <1>4, <2>1, <2>3 DEF item
<1>5. CASE c.type = "formattingBoundary"
  BY <1>5
<1> QED
  BY <1>1, <1>2, <1>3, <1>4, <1>5 DEF IsComponent

-----------------------------------------------------------------------------
(***************************************************************************)
(* The message.                                                            *)
(***************************************************************************)
Fields == {"clientId", "parent", "hash", "components"}

\* The items of a message are never more or fewer than the operation has, and
\* an operation's message never has a field of an error's.
Itemised(items) ==
  /\ Len(items) \in Nat /\ DOMAIN items = 1..Len(items)
  /\ \A k \in 1..Len(items) : Exact(items[k])

OpMessage ==
  /\ DOMAIN json \subseteq Fields
  /\ "components" \in DOMAIN json => Itemised(json.components)
  /\ damage > 0 /\ DOMAIN json = Fields =>
       \E k \in 1..Len(json.components) : ~Sound(json.components[k])

ErrorMessage ==
  /\ DOMAIN json \subseteq {"errorCode"}
  /\ "errorCode" \in DOMAIN json => json.errorCode = sent.errorCode

MessageInv ==
  /\ sent \in Sent \cup Errors
  /\ damage \in Nat
  /\ json = NULL => damage = 0 /\ got = NULL
  /\ json # NULL =>
       /\ IsOp(sent) => OpMessage /\ (damage = 0 => json = ot_encode(sent))
       /\ ~IsOp(sent) => ErrorMessage /\ (damage = 0 => json = ot_encode_err(sent))

LEMMA WhatIsSent ==
  ASSUME sent \in Sent \cup Errors
  PROVE  /\ IsOp(sent) => IsSendable(sent)
         /\ ~IsOp(sent) => \E err \in 1..11 : sent = [errorCode |-> err]
<1>1. CASE sent \in Sent
  <2>1. IsSendable(sent)
    BY <1>1, SentAssumption
  <2>2. sent = Op(sent.client_id, sent.parent, sent.hash, sent.comps)
    BY <2>1 DEF IsSendable
  <2>3. DOMAIN sent = {"client_id", "parent", "hash", "comps"}
    BY <2>2 DEF Op
  <2> QED
    BY <2>1, <2>3 DEF IsOp
<1>2. CASE sent \in Errors
  <2>1. PICK err \in 1..11 : sent = [errorCode |-> err]
    BY <1>2 DEF Errors
  <2>2. DOMAIN sent = {"errorCode"}
    BY <2>1
  <2> QED
    BY <2>1, <2>2 DEF IsOp
<1> QED
  BY <1>1, <1>2

LEMMA SequenceOfComponents ==
  ASSUME NEW op, IsSendable(op)
  PROVE  /\ Len(op.comps) \in Nat /\ DOMAIN op.comps = 1..Len(op.comps)
         /\ \A k \in 1..Len(op.comps) : IsComponent(op.comps[k])
         /\ ToSet(op.comps) = {op.comps[k] : k \in 1..Len(op.comps)}
<1> DEFINE s == op.comps
           S == {s[m] : m \in DOMAIN s}
<1>1. s \in Seq(S) /\ \A k \in 1..Len(s) : IsComponent(s[k])
  BY DEF IsSendable, IsOperation, IsSequence
<1>2. Len(s) \in Nat /\ DOMAIN s = 1..Len(s)
  <2> HIDE DEF S
  <2> QED
    BY <1>1
<1>3. ToSet(s) = {s[k] : k \in 1..Len(s)}
  BY <1>2 DEF ToSet
<1> QED
  BY <1>1, <1>2, <1>3

LEMMA EncodedOperation ==
  ASSUME NEW op, IsSendable(op)
  PROVE  LET message == ot_encode(op)
             items == message.components
         IN  /\ DOMAIN message = Fields
             /\ message.clientId = op.client_id
             /\ message.parent = atohex(op.parent) /\ message.hash = atohex(op.hash)
             /\ Len(items) = Len(op.comps) /\ Itemised(items)
             /\ \A k \in 1..Len(items) : items[k] = CompJson(op.comps[k])
<1> DEFINE message == ot_encode(op)
           items == [k \in DOMAIN op.comps |-> CompJson(op.comps[k])]
           N == Len(op.comps)
<1>1. /\ DOMAIN message = Fields /\ message.clientId = op.client_id
      /\ message.parent = atohex(op.parent) /\ message.hash = atohex(op.hash)
      /\ message.components = items
  BY DEF ot_encode, Fields
<1>2. /\ N \in Nat /\ DOMAIN op.comps = 1..N
      /\ \A k \in 1..N : IsComponent(op.comps[k])
  BY SequenceOfComponents
<1>3. items = [k \in 1..N |-> CompJson(op.comps[k])]
  BY <1>2
<1>4. DOMAIN items = 1..N /\ \A k \in 1..N : items[k] = CompJson(op.comps[k])
  BY <1>3
<1>5. Len(items) = N
  <2> DEFINE X == {CompJson(op.comps[k]) : k \in 1..N}
  <2>1. items \in [1..N -> X]
    BY <1>3
  <2> HIDE DEF items, X, N
  <2>2. items \in Seq(X) /\ Len(items) = N
    BY <1>2, <2>1
  <2> QED
    BY <2>2
<1> HIDE DEF items, message
<1>6. \A k \in 1..N : Exact(items[k])
  BY <1>2, <1>4, WrittenItem
<1>7. Itemised(items)
  BY <1>2, <1>4, <1>5, <1>6 DEF Itemised
<1> HIDE DEF N
<1>8. /\ DOMAIN message = Fields /\ message.clientId = op.client_id
      /\ message.parent = atohex(op.parent) /\ message.hash = atohex(op.hash)
      /\ Len(message.components) = N /\ Itemised(message.components)
      /\ \A k \in 1..Len(message.components) : message.components[k] = CompJson(op.comps[k])
  BY <1>1, <1>4, <1>5, <1>7
<1> QED
  BY <1>8 DEF message, N

LEMMA NothingIsNoMessage ==
  /\ \A op : ot_encode(op) # NULL
  /\ \A error : ot_encode_err(error) # NULL
  /\ \A err, op : [err |-> err, op |-> op] # NULL
<1>1. DOMAIN NULL = {"null"}
  BY DEF NULL
<1>2. \A op : "hash" \in DOMAIN ot_encode(op)
  BY DEF ot_encode
<1>3. \A error : "errorCode" \in DOMAIN ot_encode_err(error)
  BY DEF ot_encode_err
<1>4. \A err, op : "err" \in DOMAIN [err |-> err, op |-> op]
  OBVIOUS
<1> QED
  BY <1>1, <1>2, <1>3, <1>4

-----------------------------------------------------------------------------
(***************************************************************************)
(* One lemma per action: it keeps MessageInv.                              *)
(***************************************************************************)
LEMMA MessageInvInit == Init => MessageInv
BY DEF Init, MessageInv

LEMMA EncodeKeeps ==
  ASSUME MessageInv, Encode
  PROVE  MessageInv'
<1>1. sent' = sent /\ damage' = damage /\ got' = got /\ damage = 0 /\ got = NULL
      /\ sent \in Sent \cup Errors
  BY DEF MessageInv, Encode
<1>2. CASE IsOp(sent)
  <2>1. json' = ot_encode(sent)
    BY <1>2 DEF Encode
  <2>2. IsSendable(sent)
    BY <1>1, <1>2, WhatIsSent
  <2>3. DOMAIN json' = Fields /\ Itemised(json'.components)
    BY <2>1, <2>2, EncodedOperation
  <2>4. OpMessage' /\ json' # NULL
    <3>1. json' # NULL
      BY <2>1, NothingIsNoMessage
    <3> QED
      BY <1>1, <2>3, <3>1 DEF OpMessage, Itemised, Exact, Sound, Readable, IsKnown, Needs
  <2> QED
    BY <1>1, <1>2, <2>1, <2>4 DEF MessageInv, IsOp, ot_encode, CompJson, atohex
<1>3. CASE ~IsOp(sent)
  <2>1. json' = [errorCode |-> sent.errorCode]
    BY <1>3 DEF Encode, ot_encode_err
  <2>2. DOMAIN json' = {"errorCode"} /\ json'.errorCode = sent.errorCode /\ json' # NULL
    BY <2>1 DEF NULL
  <2>3. ErrorMessage'
    BY <1>1, <2>2 DEF ErrorMessage
  <2> QED
    BY <1>1, <1>3, <2>1, <2>2, <2>3 DEF MessageInv, IsOp, ot_encode_err
<1> QED
  BY <1>2, <1>3

\* The three ways of damage: what they share is in this lemma.
LEMMA DamageKeeps ==
  ASSUME MessageInv, NEW damaged, Damage(damaged), damaged # NULL,
         IsOp(sent) => OpMessage', ~IsOp(sent) => ErrorMessage'
  PROVE  MessageInv'
<1>1. sent' = sent /\ got' = got /\ damage' = damage + 1 /\ json' = damaged
      /\ sent \in Sent \cup Errors /\ damage \in Nat
  BY DEF MessageInv, Damage
<1>2. damage' # 0 /\ damage' \in Nat
  BY <1>1
<1>3. IsOp(sent)' = IsOp(sent)
  BY <1>1 DEF IsOp
<1> QED
  BY <1>1, <1>2, <1>3 DEF MessageInv

\* No message is NULL: NULL has a field that no message has.
LEMMA IsAMessage ==
  ASSUME NEW message, "null" \notin DOMAIN message
  PROVE  message # NULL
BY DEF NULL

LEMMA LoseFieldKeeps ==
  ASSUME MessageInv, LoseField
  PROVE  MessageInv'
<1>1. PICK name \in DOMAIN json : Damage(Without(json, name))
  BY DEF LoseField
<1> DEFINE less == Without(json, name)
<1>2. DOMAIN less = DOMAIN json \ {name} /\ \A field \in DOMAIN less : less[field] = json[field]
  BY DEF Without
<1> HIDE DEF less
<1>3. json' = less /\ json # NULL /\ sent' = sent
  BY <1>1 DEF Damage, less
<1>4. ASSUME IsOp(sent) PROVE OpMessage' /\ "null" \notin DOMAIN less
  <2>1. OpMessage
    BY <1>3, <1>4 DEF MessageInv
  <2>2. DOMAIN less \subseteq Fields /\ name \in Fields
    BY <1>2, <2>1 DEF OpMessage
  <2>3. "components" \in DOMAIN less => Itemised(less.components)
    BY <1>2, <2>1 DEF OpMessage
  <2>4. DOMAIN less # Fields
    BY <1>2, <2>2
  <2>5. OpMessage'
    BY <1>3, <2>2, <2>3, <2>4 DEF OpMessage, Itemised, Exact, Sound, Readable, IsKnown, Needs
  <2> QED
    BY <2>2, <2>5 DEF Fields
<1>5. ASSUME ~IsOp(sent) PROVE ErrorMessage' /\ "null" \notin DOMAIN less
  <2>1. ErrorMessage
    BY <1>3, <1>5 DEF MessageInv
  <2> QED
    BY <1>2, <1>3, <2>1 DEF ErrorMessage
<1>6. less # NULL
  BY <1>4, <1>5, IsAMessage
<1>7. Damage(less)
  BY <1>1 DEF less
<1> QED
  BY <1>4, <1>5, <1>6, <1>7, DamageKeeps

\* A message in which one item has become an unsound one.
LEMMA UnsoundItemKeeps ==
  ASSUME MessageInv, Has("components"), NEW k \in DOMAIN json.components,
         NEW item, ~Sound(item),
         Damage([json EXCEPT !.components[k] = item])
  PROVE  MessageInv'
<1> DEFINE items == json.components
           changed == [items EXCEPT ![k] = item]
           damaged == [json EXCEPT !.components[k] = item]
<1>1. json # NULL /\ sent' = sent /\ json' = damaged /\ "components" \in DOMAIN json
  BY DEF Damage, Has
<1>2. DOMAIN damaged = DOMAIN json /\ damaged.components = changed
  BY <1>1
<1> HIDE DEF damaged
<1>3. IsOp(sent)
  <2> SUFFICES ASSUME ~IsOp(sent) PROVE FALSE
    OBVIOUS
  <2>1. ErrorMessage
    BY <1>1 DEF MessageInv
  <2> QED
    BY <1>1, <2>1 DEF ErrorMessage
<1>4. OpMessage
  BY <1>1, <1>3 DEF MessageInv
<1>5. Itemised(items) /\ DOMAIN json \subseteq Fields
  BY <1>1, <1>4 DEF OpMessage
<1> DEFINE N == Len(items)
<1>6. N \in Nat /\ DOMAIN items = 1..N /\ k \in 1..N /\ \A m \in 1..N : Exact(items[m])
  BY <1>5 DEF Itemised
<1> HIDE DEF items
<1>7. /\ DOMAIN changed = 1..N /\ changed[k] = item
      /\ \A m \in 1..N : m # k => changed[m] = items[m]
  BY <1>6
<1>8. Len(changed) = N
  <2> DEFINE X == {changed[m] : m \in 1..N}
  <2>1. changed \in [1..N -> X]
    BY <1>6
  <2> HIDE DEF X, changed, N
  <2>2. changed \in Seq(X) /\ Len(changed) = N
    BY <1>6, <2>1
  <2> QED
    BY <2>2
<1> HIDE DEF changed, N
<1>9. \A m \in 1..N : Exact(changed[m])
  <2> TAKE m \in 1..N
  <2>1. CASE m = k
    BY <1>7, <2>1 DEF Exact
  <2>2. CASE m # k
    BY <1>6, <1>7, <2>2
  <2> QED
    BY <2>1, <2>2
<1>10. Itemised(changed)
  BY <1>6, <1>7, <1>8, <1>9 DEF Itemised
<1>11. \E m \in 1..Len(changed) : ~Sound(changed[m])
  BY <1>6, <1>7, <1>8
<1>12. OpMessage'
  <2>1. json' = damaged /\ DOMAIN json' \subseteq Fields /\ json'.components = changed
    BY <1>1, <1>2, <1>5
  <2> QED
    BY <1>10, <1>11, <2>1 DEF OpMessage, Itemised, Exact, Sound, Readable, IsKnown, Needs
<1>13. damaged # NULL
  BY <1>2, <1>5, IsAMessage DEF Fields
<1>14. Damage(damaged)
  BY DEF damaged
<1> QED
  BY <1>3, <1>12, <1>13, <1>14, DamageKeeps

LEMMA LoseInComponentKeeps ==
  ASSUME MessageInv, LoseInComponent
  PROVE  MessageInv'
<1>1. Has("components")
  BY DEF LoseInComponent
<1>2. PICK k \in DOMAIN json.components :
        \E name \in DOMAIN json.components[k] :
          Damage([json EXCEPT !.components[k] = Without(@, name)])
  BY DEF LoseInComponent
<1>3. PICK name \in DOMAIN json.components[k] :
        Damage([json EXCEPT !.components[k] = Without(@, name)])
  BY <1>2
<1> DEFINE item == Without(json.components[k], name)
<1>4. [json EXCEPT !.components[k] = Without(@, name)] = [json EXCEPT !.components[k] = item]
  OBVIOUS
<1>5. Damage([json EXCEPT !.components[k] = item])
  BY <1>3, <1>4
<1>6. Exact(json.components[k])
  <2>1. json # NULL /\ "components" \in DOMAIN json
    BY <1>1, <1>5 DEF Damage, Has
  <2>2. IsOp(sent)
    BY <2>1 DEF MessageInv, ErrorMessage
  <2>3. Itemised(json.components)
    BY <2>1, <2>2 DEF MessageInv, OpMessage
  <2> QED
    BY <2>3 DEF Itemised
<1>7. ~Sound(item)
  BY <1>6, LessIsUnsound
<1> HIDE DEF item
<1> QED
  BY <1>1, <1>5, <1>7, UnsoundItemKeeps

LEMMA NameUnknownKeeps ==
  ASSUME MessageInv, NameUnknown
  PROVE  MessageInv'
<1> DEFINE item == [type |-> "unknown"]
<1>1. ~Sound(item)
  BY UnknownIsUnsound
<1> HIDE DEF item
<1>2. Has("components")
  BY DEF NameUnknown
<1>3. PICK k \in DOMAIN json.components : Damage([json EXCEPT !.components[k] = item])
  BY DEF NameUnknown, item
<1> QED
  BY <1>1, <1>2, <1>3, UnsoundItemKeeps

LEMMA DecodeKeeps ==
  ASSUME MessageInv, Decode
  PROVE  MessageInv'
<1>1. sent' = sent /\ json' = json /\ damage' = damage /\ json # NULL
  BY DEF Decode
<1> QED
  BY <1>1 DEF MessageInv, IsOp, OpMessage, ErrorMessage, Itemised, Exact, Sound, Readable,
             IsKnown, Needs

-----------------------------------------------------------------------------
(***************************************************************************)
(* What ot_decode makes of a message.                                      *)
(***************************************************************************)
Complete == ~Has("errorCode") /\ \A k \in 1..4 : Has(Order[k])

FieldMissing ==
  \E err \in {1, 2, 3, 5} : got' = [err |-> err, op |-> NULL]

LEMMA Decodings ==
  ASSUME ot_decode
  PROVE  \/ Has("errorCode") /\ got' = [err |-> json.errorCode, op |-> NULL]
         \/ ~Has("errorCode") /\ ~Complete /\ FieldMissing
         \/ Complete /\ DecodeOp(json.components)
<1>1. CASE Has("errorCode") /\ got' = [err |-> json.errorCode, op |-> NULL]
  BY <1>1
<1>2. CASE /\ ~Has("errorCode")
           /\ \E k \in 1..4 :
                /\ ~Has(Order[k])
                /\ \A m \in 1..(k - 1) : Has(Order[m])
                /\ got' = [err |-> MissingErr[Order[k]], op |-> NULL]
  <2>1. PICK k \in 1..4 : ~Has(Order[k]) /\ got' = [err |-> MissingErr[Order[k]], op |-> NULL]
    BY <1>2
  <2>2. MissingErr[Order[k]] \in {1, 2, 3, 5}
    <3>1. Order[k] \in {"clientId", "parent", "hash", "components"}
      BY DEF Order
    <3> QED
      BY <3>1 DEF MissingErr
  <2>3. ~Complete
    BY <2>1 DEF Complete
  <2> QED
    BY <1>2, <2>1, <2>2, <2>3 DEF FieldMissing
<1>3. CASE ~Has("errorCode") /\ (\A k \in 1..4 : Has(Order[k])) /\ DecodeOp(json.components)
  BY <1>3 DEF Complete
<1> QED
  BY <1>1, <1>2, <1>3 DEF ot_decode

LEMMA CompleteHasAll ==
  Complete <=> "errorCode" \notin DOMAIN json /\ Fields \subseteq DOMAIN json
<1>1. /\ Order[1] = "clientId" /\ Order[2] = "parent"
      /\ Order[3] = "hash" /\ Order[4] = "components"
  BY DEF Order
<1>2. \A k \in 1..4 : k = 1 \/ k = 2 \/ k = 3 \/ k = 4
  OBVIOUS
<1>3. (\A k \in 1..4 : Has(Order[k])) <=>
        Has("clientId") /\ Has("parent") /\ Has("hash") /\ Has("components")
  <2> HIDE DEF Has, Order
  <2>1. 1 \in 1..4 /\ 2 \in 1..4 /\ 3 \in 1..4 /\ 4 \in 1..4
    OBVIOUS
  <2> QED
    BY <1>1, <1>2, <2>1
<1> QED
  BY <1>3 DEF Complete, Has, Fields

\* Items of which one is unsound are not taken for an operation.
LEMMA UnsoundIsRefused ==
  ASSUME NEW items, Len(items) \in Nat, NEW k \in 1..Len(items), ~Sound(items[k]),
         DecodeOp(items)
  PROVE  \E err \in {InvalidComponent, Crash} : got' = [err |-> err, op |-> NULL]
<1> DEFINE n == Cardinality(Decodable(items))
<1>1. n \in 0..(Len(items) - 1)
  BY NotAllDecodable
<1>2. n # Len(items)
  BY <1>1
<1>3. got' = [err |-> Outcome(items, n),
              op |-> IF Outcome(items, n) # NoErr THEN NULL ELSE got'.op]
  <2>1. \E op : got' = [err |-> Outcome(items, n),
                        op |-> IF Outcome(items, n) # NoErr THEN NULL ELSE op]
    BY DEF DecodeOp
  <2> QED
    BY <2>1
<1> HIDE DEF n
<1>4. Outcome(items, n) \in {InvalidComponent, Crash}
  BY <1>2 DEF Outcome
<1>5. Outcome(items, n) # NoErr
  BY <1>4 DEF InvalidComponent, Crash, NoErr
<1> QED
  BY <1>3, <1>4, <1>5

\* Sound items are decoded one by one.
LEMMA SoundIsDecoded ==
  ASSUME NEW items, Len(items) \in Nat, \A k \in 1..Len(items) : Sound(items[k]),
         DecodeOp(items)
  PROVE  \E id \in AsInt(json.clientId) : \E comps :
           /\ \E X : comps \in [1..Len(items) -> X]
           /\ \A k \in 1..Len(items) : comps[k] \in CompsOf(items[k])
           /\ got' = [err |-> NoErr,
                      op |-> Op(AsUint(id), hextoa(HashLen, json.parent),
                                hextoa(HashLen, json.hash), comps)]
<1> DEFINE n == Cardinality(Decodable(items))
<1>1. n = Len(items)
  BY AllDecodable
<1>2. PICK id \in AsInt(json.clientId) :
        \E comps \in {list \in [1..n -> UNION {CompsOf(items[k]) : k \in 1..n}] :
                        \A k \in 1..n : list[k] \in CompsOf(items[k])} :
          got' = [err |-> Outcome(items, n),
                  op |-> IF Outcome(items, n) # NoErr THEN NULL
                         ELSE Op(AsUint(id), hextoa(HashLen, json.parent),
                                 hextoa(HashLen, json.hash), comps)]
  BY DEF DecodeOp
<1>3. PICK comps \in {list \in [1..n -> UNION {CompsOf(items[k]) : k \in 1..n}] :
                        \A k \in 1..n : list[k] \in CompsOf(items[k])} :
          got' = [err |-> Outcome(items, n),
                  op |-> IF Outcome(items, n) # NoErr THEN NULL
                         ELSE Op(AsUint(id), hextoa(HashLen, json.parent),
                                 hextoa(HashLen, json.hash), comps)]
  BY <1>2
<1> HIDE DEF n
<1>4. Outcome(items, n) = NoErr
  BY <1>1 DEF Outcome
<1>5. comps \in [1..n -> UNION {CompsOf(items[k]) : k \in 1..n}]
      /\ \A k \in 1..n : comps[k] \in CompsOf(items[k])
  OBVIOUS
<1> QED
  BY <1>1, <1>3, <1>4, <1>5

\* An operation that was encoded and not damaged.
LEMMA UndamagedComesBack ==
  ASSUME IsSendable(sent), json = ot_encode(sent), DecodeOp(json.components)
  PROVE  /\ Whole(sent) /\ Numbers(sent) \subseteq 0..IntMax =>
              got' = [err |-> NoErr, op |-> sent]
         /\ ~Whole(sent) \/ ~(Numbers(sent) \subseteq 0..(IntMax + 1)) => got'.op # sent
<1> DEFINE items == json.components
           N == Len(sent.comps)
<1>1. /\ json.clientId = sent.client_id
      /\ json.parent = atohex(sent.parent) /\ json.hash = atohex(sent.hash)
      /\ Len(items) = N /\ \A k \in 1..N : items[k] = CompJson(sent.comps[k])
  BY EncodedOperation
<1>2. /\ N \in Nat /\ DOMAIN sent.comps = 1..N
      /\ \A k \in 1..N : IsComponent(sent.comps[k])
      /\ ToSet(sent.comps) = {sent.comps[k] : k \in 1..N}
  BY SequenceOfComponents
<1>3. /\ sent = Op(sent.client_id, sent.parent, sent.hash, sent.comps)
      /\ sent.client_id \in Nat
      /\ sent.parent \in [1..HashLen -> Bytes256] /\ sent.hash \in [1..HashLen -> Bytes256]
      /\ HashLen \in Nat \ {0}
      /\ \A k \in 1..N : sent.comps[k].type = "openElement" => sent.comps[k].elem # Freed
  <2>1. sent.client_id \in 0..(Uints - 1)
    BY DEF IsSendable
  <2>2. Uints \in Nat
    BY WidthAssumption DEF Uints
  <2>3. sent.client_id \in Nat
    <3> HIDE DEF Uints
    <3> QED
      BY <2>1, <2>2
  <2>4. \A k \in 1..N : sent.comps[k].type = "openElement" => sent.comps[k].elem # Freed
    <3>1. \A c \in ToSet(sent.comps) : c.type = "openElement" => c.elem # Freed
      BY DEF IsSendable
    <3> QED
      BY <1>2, <3>1
  <2>5. sent = Op(sent.client_id, sent.parent, sent.hash, sent.comps)
    BY DEF IsSendable
  <2>6. {sent.parent, sent.hash} \subseteq [1..HashLen -> Bytes256]
    BY DEF IsSendable, Bytes256
  <2> QED
    BY <2>3, <2>4, <2>5, <2>6, SentAssumption
<1> HIDE DEF items, N
<1>4. CASE \E k \in 1..N : sent.comps[k].type = "formattingBoundary"
  <2>1. PICK k \in 1..N : sent.comps[k].type = "formattingBoundary"
    BY <1>4
  <2>2. ~Sound(items[k])
    BY <1>1, <1>2, <2>1, WrittenItem
  <2>3. DecodeOp(items)
    BY DEF items
  <2>4. \E err \in {InvalidComponent, Crash} : got' = [err |-> err, op |-> NULL]
    BY <1>1, <1>2, <2>2, <2>3, UnsoundIsRefused
  <2>5. got'.op = NULL
    BY <2>4
  <2>6. sent # NULL
    BY <1>3, OpIsNotNull
  <2>7. ~Whole(sent)
    BY <1>2, <2>1 DEF Whole
  <2> QED
    BY <2>5, <2>6, <2>7
<1>5. CASE \A k \in 1..N : sent.comps[k].type # "formattingBoundary"
  <2>1. \A k \in 1..N : Sound(items[k])
    BY <1>1, <1>2, <1>5, WrittenItem
  <2>2. DecodeOp(items)
    BY DEF items
  <2>3. \E id \in AsInt(json.clientId) : \E comps :
           /\ \E X : comps \in [1..Len(items) -> X]
           /\ \A k \in 1..Len(items) : comps[k] \in CompsOf(items[k])
           /\ got' = [err |-> NoErr,
                      op |-> Op(AsUint(id), hextoa(HashLen, json.parent),
                                hextoa(HashLen, json.hash), comps)]
    BY <1>1, <1>2, <2>1, <2>2, SoundIsDecoded
  <2>0. PICK id \in AsInt(json.clientId) : \E comps :
           /\ \E X : comps \in [1..Len(items) -> X]
           /\ \A k \in 1..Len(items) : comps[k] \in CompsOf(items[k])
           /\ got' = [err |-> NoErr,
                      op |-> Op(AsUint(id), hextoa(HashLen, json.parent),
                                hextoa(HashLen, json.hash), comps)]
    BY <2>3
  <2>4. PICK comps :
           /\ \E X : comps \in [1..Len(items) -> X]
           /\ \A k \in 1..Len(items) : comps[k] \in CompsOf(items[k])
           /\ got' = [err |-> NoErr,
                      op |-> Op(AsUint(id), hextoa(HashLen, json.parent),
                                hextoa(HashLen, json.hash), comps)]
    BY <2>0
  <2>5. hextoa(HashLen, json.parent) = sent.parent /\ hextoa(HashLen, json.hash) = sent.hash
    BY <1>1, <1>3, HexThereAndBack
  <2>6. /\ sent.client_id \in 0..IntMax => AsUint(id) = sent.client_id
        /\ sent.client_id \notin 0..(IntMax + 1) => AsUint(id) # sent.client_id
    BY <1>1, <1>3, <2>4, NumberThereAndBack
  <2>7. \A k \in 1..N : comps[k] \in CompsOf(CompJson(sent.comps[k]))
    BY <1>1, <2>4
  <2>8. got'.err = NoErr /\ got'.op = Op(AsUint(id), sent.parent, sent.hash, comps)
        /\ got' = [err |-> NoErr, op |-> Op(AsUint(id), sent.parent, sent.hash, comps)]
    BY <2>4, <2>5
  <2>9. got'.op.client_id = AsUint(id) /\ got'.op.comps = comps
    BY <2>8 DEF Op
  <2>10. ASSUME Whole(sent), Numbers(sent) \subseteq 0..IntMax
         PROVE  got' = [err |-> NoErr, op |-> sent]
    <3>1. \A k \in 1..N : sent.comps[k].type \notin {"openElement", "formattingBoundary"}
      BY <1>2, <2>10 DEF Whole
    <3>2. \A k \in 1..N : sent.comps[k].type \in {"skip", "delete"} =>
                            sent.comps[k].count \in 0..IntMax
      BY <1>2, <2>10 DEF Numbers
    <3>3. \A k \in 1..N : comps[k] = sent.comps[k]
      BY <1>2, <2>7, <3>1, <3>2, ItemThereAndBack
    <3>4. sent.client_id \in 0..IntMax
      BY <2>10 DEF Numbers
    <3>5. comps = sent.comps
      <4>1. PICK X : comps \in [1..N -> X]
        BY <1>1, <2>4
      <4>2. comps = [k \in 1..N |-> comps[k]]
        BY <4>1
      <4>3. sent.comps = [k \in 1..N |-> sent.comps[k]]
        <5>1. sent.comps \in Seq({sent.comps[m] : m \in DOMAIN sent.comps})
          BY DEF IsSendable, IsOperation, IsSequence
        <5> QED
          BY <1>2, <5>1
      <4> QED
        BY <3>3, <4>2, <4>3
    <3> QED
      BY <1>3, <2>6, <2>8, <3>4, <3>5
  <2>11. ASSUME ~Whole(sent) PROVE got'.op # sent
    <3>1. PICK k \in 1..N : sent.comps[k].type \in {"openElement", "formattingBoundary"}
      BY <1>2, <2>11 DEF Whole
    <3>2. sent.comps[k].type = "openElement" /\ sent.comps[k].elem # Freed
      BY <1>3, <1>5, <3>1
    <3>3. comps[k] # sent.comps[k]
      BY <1>2, <2>7, <3>2, ItemThereAndBack
    <3> QED
      BY <2>9, <3>3
  <2>12. ASSUME ~(Numbers(sent) \subseteq 0..(IntMax + 1)) PROVE got'.op # sent
    <3>1. \/ sent.client_id \notin 0..(IntMax + 1)
          \/ \E k \in 1..N : /\ sent.comps[k].type \in {"skip", "delete"}
                             /\ sent.comps[k].count \notin 0..(IntMax + 1)
      BY <1>2, <2>12 DEF Numbers
    <3>2. CASE sent.client_id \notin 0..(IntMax + 1)
      BY <2>6, <2>9, <3>2
    <3>3. CASE \E k \in 1..N : /\ sent.comps[k].type \in {"skip", "delete"}
                               /\ sent.comps[k].count \notin 0..(IntMax + 1)
      <4>1. PICK k \in 1..N : /\ sent.comps[k].type \in {"skip", "delete"}
                              /\ sent.comps[k].count \notin 0..(IntMax + 1)
        BY <3>3
      <4>2. comps[k] # sent.comps[k]
        BY <1>2, <2>7, <4>1, ItemThereAndBack
      <4> QED
        BY <2>9, <4>2
    <3> QED
      BY <3>1, <3>2, <3>3
  <2> QED
    BY <2>10, <2>11, <2>12
<1> QED
  BY <1>4, <1>5

-----------------------------------------------------------------------------
(***************************************************************************)
(* The two properties.                                                     *)
(***************************************************************************)
LEMMA SameAsBefore ==
  ASSUME sent' = sent
  PROVE  /\ IsOp(sent)' = IsOp(sent) /\ Whole(sent)' = Whole(sent)
         /\ Numbers(sent)' = Numbers(sent) /\ ot_encode(sent)' = ot_encode(sent)
<1>1. IsOp(sent)' = IsOp(sent)
  BY DEF IsOp
<1>2. Whole(sent)' = Whole(sent)
  BY DEF Whole
<1>3. Numbers(sent)' = Numbers(sent)
  BY DEF Numbers
<1>4. ot_encode(sent)' = ot_encode(sent)
  BY DEF ot_encode
<1> QED
  BY <1>1, <1>2, <1>3, <1>4

LEMMA DecodedMessage ==
  ASSUME MessageInv, Decode
  PROVE  RoundTrip' /\ NeverPassesForOp'
<1>1. sent' = sent /\ json' = json /\ damage' = damage /\ json # NULL /\ ot_decode
      /\ sent \in Sent \cup Errors /\ damage \in Nat
  BY DEF Decode, MessageInv
<1>2. \/ Has("errorCode") /\ got' = [err |-> json.errorCode, op |-> NULL]
      \/ ~Has("errorCode") /\ ~Complete /\ FieldMissing
      \/ Complete /\ DecodeOp(json.components)
  BY <1>1, Decodings
<1> SUFFICES
      /\ damage = 0 =>
           IF IsOp(sent)
             THEN /\ Whole(sent) /\ Numbers(sent) \subseteq 0..IntMax =>
                       got' = [err |-> NoErr, op |-> sent]
                  /\ ~Whole(sent) \/ ~(Numbers(sent) \subseteq 0..(IntMax + 1)) =>
                       got'.op # sent
             ELSE got' = [err |-> sent.errorCode, op |-> NULL]
      /\ damage > 0 \/ ~IsOp(sent) =>
           /\ got'.err # NoErr /\ got'.op = NULL
           /\ got'.err = Crash =>
                ~Whole(sent) \/ json.components # ot_encode(sent).components
  BY <1>1, SameAsBefore DEF RoundTrip, NeverPassesForOp
<1>3. CASE ~IsOp(sent)
  <2>1. PICK err \in 1..11 : sent = [errorCode |-> err]
    BY <1>1, <1>3, WhatIsSent
  <2>2. ErrorMessage /\ (damage = 0 => json = ot_encode_err(sent))
    BY <1>1, <1>3 DEF MessageInv
  <2>3. sent.errorCode \in 1..11
    BY <2>1
  <2>4. ~Complete
    BY <2>2, CompleteHasAll DEF ErrorMessage, Fields
  <2>5. CASE Has("errorCode") /\ got' = [err |-> json.errorCode, op |-> NULL]
    <3>1. json.errorCode = sent.errorCode
      BY <2>2, <2>5 DEF ErrorMessage, Has
    <3>2. got' = [err |-> sent.errorCode, op |-> NULL]
      BY <2>5, <3>1
    <3>3. got'.err \in 1..11 /\ got'.op = NULL
      BY <2>3, <3>2
    <3> QED
      BY <1>3, <3>2, <3>3 DEF NoErr, Crash
  <2>6. CASE ~Has("errorCode") /\ FieldMissing
    <3>1. got'.err \in {1, 2, 3, 5} /\ got'.op = NULL
      BY <2>6 DEF FieldMissing
    <3>2. damage # 0
      <4>1. "errorCode" \in DOMAIN ot_encode_err(sent)
        BY DEF ot_encode_err
      <4> QED
        BY <2>2, <2>6, <4>1 DEF Has
    <3> QED
      BY <1>3, <3>1, <3>2 DEF NoErr, Crash
  <2> QED
    BY <1>2, <2>4, <2>5, <2>6
<1>4. CASE IsOp(sent)
  <2>1. IsSendable(sent)
    BY <1>1, <1>4, WhatIsSent
  <2>2. OpMessage /\ (damage = 0 => json = ot_encode(sent))
    BY <1>1, <1>4 DEF MessageInv
  <2>3. ~Has("errorCode")
    BY <2>2 DEF OpMessage, Fields, Has
  <2>4. CASE ~Complete /\ FieldMissing
    <3>1. got'.err \in {1, 2, 3, 5} /\ got'.op = NULL
      BY <2>4 DEF FieldMissing
    <3>2. damage # 0
      <4>1. DOMAIN ot_encode(sent) = Fields
        BY <2>1, EncodedOperation
      <4> QED
        BY <2>2, <2>3, <2>4, <4>1, CompleteHasAll DEF Has
    <3> QED
      BY <1>4, <3>1, <3>2 DEF NoErr, Crash
  <2>5. CASE Complete /\ DecodeOp(json.components)
    <3>1. DOMAIN json = Fields
      BY <2>2, <2>5, CompleteHasAll DEF OpMessage
    <3>2. CASE damage = 0
      <4>1. json = ot_encode(sent)
        BY <2>2, <3>2
      <4>2. /\ Whole(sent) /\ Numbers(sent) \subseteq 0..IntMax =>
                  got' = [err |-> NoErr, op |-> sent]
            /\ ~Whole(sent) \/ ~(Numbers(sent) \subseteq 0..(IntMax + 1)) => got'.op # sent
        BY <2>1, <2>5, <4>1, UndamagedComesBack
      <4>3. ~(damage > 0)
        BY <3>2
      <4> QED
        BY <1>4, <3>2, <4>2, <4>3
    <3>3. CASE damage > 0
      <4> DEFINE items == json.components
      <4>1. Itemised(items) /\ \E k \in 1..Len(items) : ~Sound(items[k])
        BY <2>2, <3>1, <3>3 DEF OpMessage, Fields
      <4>2. PICK k \in 1..Len(items) : ~Sound(items[k])
        BY <4>1
      <4>3. Len(items) \in Nat /\ DecodeOp(items)
        BY <2>5, <4>1 DEF Itemised
      <4> HIDE DEF items
      <4>4. PICK err \in {InvalidComponent, Crash} : got' = [err |-> err, op |-> NULL]
        BY <4>2, <4>3, UnsoundIsRefused
      <4>5. got'.err # NoErr /\ got'.op = NULL
        BY <4>4 DEF InvalidComponent, Crash, NoErr
      <4>6. ASSUME Whole(sent), items = ot_encode(sent).components PROVE FALSE
        <5>1. Len(items) = Len(sent.comps) /\ items[k] = CompJson(sent.comps[k])
          BY <2>1, <4>2, <4>6, EncodedOperation
        <5>2. /\ IsComponent(sent.comps[k])
              /\ sent.comps[k] \in ToSet(sent.comps)
          BY <2>1, <5>1, SequenceOfComponents
        <5>3. sent.comps[k].type # "formattingBoundary"
          BY <4>6, <5>2 DEF Whole
        <5> QED
          BY <4>2, <5>1, <5>2, <5>3, WrittenItem
      <4>7. damage # 0
        BY <3>3
      <4> QED
        BY <4>5, <4>6, <4>7 DEF items
    <3> QED
      BY <1>1, <3>2, <3>3
  <2> QED
    BY <1>2, <2>3, <2>4, <2>5
<1> QED
  BY <1>3, <1>4

CodecInv == MessageInv /\ RoundTrip /\ NeverPassesForOp

LEMMA CodecStep ==
  ASSUME CodecInv, [Next]_vars
  PROVE  CodecInv'
<1>1. MessageInv
  BY DEF CodecInv
<1>2. CASE Encode
  <2>1. got' = NULL
    BY <1>1, <1>2 DEF Encode, MessageInv
  <2> QED
    BY <1>1, <1>2, <2>1, EncodeKeeps DEF CodecInv, RoundTrip, NeverPassesForOp
<1>3. ASSUME LoseField \/ LoseInComponent \/ NameUnknown PROVE got' = NULL
  BY <1>3 DEF LoseField, LoseInComponent, NameUnknown, Damage
<1>4. CASE LoseField
  BY <1>1, <1>3, <1>4, LoseFieldKeeps DEF CodecInv, RoundTrip, NeverPassesForOp
<1>5. CASE LoseInComponent
  BY <1>1, <1>3, <1>5, LoseInComponentKeeps DEF CodecInv, RoundTrip, NeverPassesForOp
<1>6. CASE NameUnknown
  BY <1>1, <1>3, <1>6, NameUnknownKeeps DEF CodecInv, RoundTrip, NeverPassesForOp
<1>7. CASE Decode
  BY <1>1, <1>7, DecodeKeeps, DecodedMessage DEF CodecInv
<1>8. CASE UNCHANGED vars
  <2>1. sent' = sent /\ json' = json /\ damage' = damage /\ got' = got
    BY <1>8 DEF vars
  <2>2. MessageInv'
    BY <1>1, <2>1 DEF MessageInv, IsOp, OpMessage, ErrorMessage, Itemised, Exact, Sound,
                      Readable, IsKnown, Needs
  <2>3. RoundTrip' /\ NeverPassesForOp'
    BY <2>1, SameAsBefore DEF CodecInv, RoundTrip, NeverPassesForOp
  <2> QED
    BY <2>2, <2>3 DEF CodecInv
<1> QED
  BY <1>2, <1>4, <1>5, <1>6, <1>7, <1>8 DEF Next

LEMMA CodecInvariant == Spec => []CodecInv
<1>1. Init => CodecInv
  BY MessageInvInit DEF Init, CodecInv, RoundTrip, NeverPassesForOp
<1>2. CodecInv /\ [Next]_vars => CodecInv'
  BY CodecStep
<1> QED
  BY <1>1, <1>2, PTL DEF Spec

\* ot_encode and ot_decode give back every operation with neither elements,
\* boundaries nor numbers an int does not hold, and no other; every error comes
\* through.
THEOREM RoundTripHolds == Spec => []RoundTrip
<1>1. CodecInv => RoundTrip
  BY DEF CodecInv
<1> QED
  BY <1>1, CodecInvariant, PTL

\* Whatever fields a message has lost, ot_decode does not take it for an
\* operation, and answers unless a component is without a field it needs.
THEOREM NeverPassesForOpHolds == Spec => []NeverPassesForOp
<1>1. CodecInv => NeverPassesForOp
  BY DEF CodecInv
<1> QED
  BY <1>1, CodecInvariant, PTL

-----------------------------------------------------------------------------
(***************************************************************************)
(* Texts as sequences of characters, and their bytes.  Offset(list, k) is  *)
(* where in the text the first k characters of it end.                     *)
(***************************************************************************)
Offset(list, k) == Len(Encoded(SubSeq(list, 1, k)))

RunOver(X, list, f) ==
  /\ list \in Seq(Seq(X)) /\ f \in [0..Len(list) -> Seq(X)]
  /\ Appends(f, list, Len(list))

Fits(list, a, n) == a \in Nat /\ n \in Nat /\ a + n <= Len(list)
IsPiece(X, list, a, n, piece) ==
  /\ piece \in Seq(Seq(X)) /\ Len(piece) = n
  /\ \A m \in 1..n : piece[m] = list[a + m]
  /\ Encoded(piece) \in Seq(X)

Continues(X, list, f, a, n) ==
  /\ IsPiece(X, list, a, n, SubSeq(list, a + 1, a + n))
  /\ f[a + n] = f[a] \o Encoded(SubSeq(list, a + 1, a + n))

LEMMA RunIsSequence ==
  ASSUME NEW X, NEW list, NEW f, RunOver(X, list, f), NEW a, NEW n, Fits(list, a, n)
  PROVE  Continues(X, list, f, a, n)
<1> DEFINE piece == SubSeq(list, a + 1, a + n)
           S == Seq(X)
           N == Len(list)
<1>0. list \in Seq(S) /\ f \in [0..N -> Seq(X)] /\ Appends(f, list, N)
  BY DEF RunOver
<1>1. N \in Nat /\ a \in Nat /\ n \in Nat /\ a + n <= N /\ a <= a + n /\ (a + n) - a = n
  BY <1>0 DEF Fits
<1>2. piece \in Seq(S) /\ Len(piece) = n /\ \A m \in 1..n : piece[m] = list[a + m]
  <2> DEFINE b == a + n
  <2>1. list \in Seq(S) /\ a \in Nat /\ b \in Nat /\ b <= Len(list) /\ a <= b /\ b - a = n
    BY <1>0, <1>1
  <2> HIDE DEF b, S
  <2>2. /\ SubSeq(list, a + 1, b) \in Seq(S)
        /\ Len(SubSeq(list, a + 1, b)) = IF a <= b THEN b - a ELSE 0
        /\ \A m \in 1..(b - a) : SubSeq(list, a + 1, b)[m] = list[a + m]
    BY <2>1, Between
  <2> QED
    BY <2>1, <2>2 DEF b
<1> HIDE DEF piece
<1>3. PICK g \in [0..Len(piece) -> Seq(X)] :
        Appends(g, piece, Len(piece)) /\ FlattenSeq(piece) = g[Len(piece)]
  BY <1>2, FlattenAppends
<1>4. g \in [0..n -> Seq(X)] /\ g[0] = <<>> /\ (\A m \in 1..n : g[m] = g[m - 1] \o piece[m])
      /\ FlattenSeq(piece) = g[n]
  BY <1>2, <1>3 DEF Appends
<1>5. f[0] = <<>> /\ \A m \in 1..N : f[m] = f[m - 1] \o list[m]
  BY <1>0 DEF Appends
<1> DEFINE T == {m \in Nat : m <= n => f[a + m] = f[a] \o g[m]}
<1>6. 0 \in T
  <2>1. f[a] \in Seq(X) /\ a + 0 = a
    BY <1>0, <1>1
  <2>2. f[a] \o <<>> = f[a]
    BY <2>1
  <2> QED
    BY <1>4, <2>1, <2>2
<1>7. ASSUME NEW m \in Nat, m \in T PROVE m + 1 \in T
  <2> SUFFICES ASSUME m + 1 <= n PROVE f[a + (m + 1)] = f[a] \o g[m + 1]
    OBVIOUS
  <2>1. /\ m + 1 \in 1..n /\ (m + 1) - 1 = m /\ m \in 0..n
        /\ a + (m + 1) \in 1..N /\ (a + (m + 1)) - 1 = a + m /\ a \in 0..N
        /\ f[a + m] = f[a] \o g[m]
    BY <1>1, <1>7
  <2>2. g[m + 1] = g[m] \o piece[m + 1]
    <3>1. g[m + 1] = g[(m + 1) - 1] \o piece[m + 1]
      BY <1>4, <2>1, Zenon
    <3> QED
      BY <2>1, <3>1
  <2>3. f[a + (m + 1)] = f[a + m] \o list[a + (m + 1)]
    <3>1. f[a + (m + 1)] = f[(a + (m + 1)) - 1] \o list[a + (m + 1)]
      BY <1>5, <2>1, Zenon
    <3> QED
      BY <2>1, <3>1
  <2>4. piece[m + 1] = list[a + (m + 1)]
    BY <1>2, <2>1, Zenon
  <2>5. f[a] \in Seq(X) /\ g[m] \in Seq(X) /\ piece[m + 1] \in Seq(X)
    <3>1. piece[m + 1] \in S
      BY <1>2, <2>1
    <3> QED
      BY <1>0, <1>4, <2>1, <3>1
  <2>6. f[a + (m + 1)] = (f[a] \o g[m]) \o piece[m + 1]
    BY <2>1, <2>3, <2>4
  <2>7. (f[a] \o g[m]) \o piece[m + 1] = f[a] \o (g[m] \o piece[m + 1])
    <3> DEFINE x == f[a]
               y == g[m]
               z == piece[m + 1]
    <3>1. x \in Seq(X) /\ y \in Seq(X) /\ z \in Seq(X)
      BY <2>5
    <3> HIDE DEF x, y, z
    <3>2. (x \o y) \o z = x \o (y \o z)
      BY <3>1, ConcatAssociative, SMTT(40)
    <3> QED
      BY <3>2 DEF x, y, z
  <2> QED
    BY <2>2, <2>6, <2>7
<1>8. Nat \subseteq T
  <2> HIDE DEF T
  <2> QED
    BY <1>6, <1>7, SetInduction
<1>9. f[a + n] = f[a] \o g[n]
  <2>1. n \in T
    <3> HIDE DEF T
    <3> QED
      BY <1>1, <1>8
  <2>2. n <= n => f[a + n] = f[a] \o g[n]
    BY <2>1, Zenon
  <2>3. n <= n
    BY <1>1
  <2> QED
    BY <2>2, <2>3, Zenon
<1>10. g[n] \in Seq(X)
  BY <1>1, <1>4
<1> QED
  BY <1>2, <1>4, <1>9, <1>10 DEF piece, Encoded, IsPiece, Continues

\* Bytes of a text in pieces: those of the first characters, then of others.
InPieces(X, list, a, n) ==
  /\ IsPiece(X, list, a, n, SubSeq(list, a + 1, a + n))
  /\ Encoded(SubSeq(list, 1, a)) \in Seq(X)
  /\ Encoded(SubSeq(list, 1, a + n))
       = Encoded(SubSeq(list, 1, a)) \o Encoded(SubSeq(list, a + 1, a + n))

LEMMA EncodedInPieces ==
  ASSUME NEW X, NEW list \in Seq(Seq(X)), NEW a, NEW n, Fits(list, a, n)
  PROVE  InPieces(X, list, a, n)
<1>1. PICK f : RunOver(X, list, f)
  BY FlattenAppends DEF RunOver
<1>2. Continues(X, list, f, a, n)
  BY <1>1, RunIsSequence
<1>3. ASSUME NEW m \in 0..Len(list) PROVE Encoded(SubSeq(list, 1, m)) = f[m]
  <2> DEFINE flat == Encoded(SubSeq(list, 1, m))
  <2>1. Fits(list, 0, m) /\ 0 + 1 = 1 /\ 0 + m = m
    BY DEF Fits
  <2>2. Continues(X, list, f, 0, m)
    BY <1>1, <2>1, RunIsSequence
  <2>3. flat \in Seq(X) /\ f[m] = f[0] \o flat
    BY <2>1, <2>2 DEF IsPiece, Continues
  <2>4. f[0] = <<>>
    BY <1>1 DEF RunOver, Appends
  <2> HIDE DEF flat
  <2>5. <<>> \o flat = flat
    BY <2>3
  <2>6. flat = f[m]
    BY <2>3, <2>4, <2>5
  <2> QED
    BY <2>6 DEF flat
<1>4. a \in 0..Len(list) /\ a + n \in 0..Len(list)
  BY DEF Fits
<1>5. \A m \in 0..Len(list) : f[m] \in Seq(X)
  BY <1>1 DEF RunOver
<1>6. /\ Encoded(SubSeq(list, 1, a)) = f[a] /\ f[a] \in Seq(X)
      /\ Encoded(SubSeq(list, 1, a + n)) = f[a + n]
  BY <1>3, <1>4, <1>5
<1> QED
  BY <1>2, <1>6 DEF Continues, InPieces

LEMMA OneCharacter ==
  ASSUME NEW X, NEW list \in Seq(Seq(X)), Len(list) = 1
  PROVE  Encoded(list) = list[1]
<1>1. PICK f : Appends(f, list, Len(list)) /\ FlattenSeq(list) = f[Len(list)]
  BY FlattenAppends
<1>2. f[0] = <<>> /\ f[1] = f[1 - 1] \o list[1] /\ FlattenSeq(list) = f[1]
  BY <1>1 DEF Appends
<1>3. list[1] \in Seq(X) /\ <<>> \o list[1] = list[1]
  OBVIOUS
<1>4. f[1] = <<>> \o list[1]
  <2>1. 1 - 1 = 0
    OBVIOUS
  <2> QED
    BY <1>2, <2>1, Zenon
<1> QED
  BY <1>2, <1>3, <1>4 DEF Encoded

LEMMA OffsetOfNothing == \A list : list \in Seq(Seq(Nat)) => Offset(list, 0) = 0
<1> SUFFICES ASSUME NEW list \in Seq(Seq(Nat)) PROVE Offset(list, 0) = 0
  OBVIOUS
<1>1. SubSeq(list, 1, 0) = <<>>
  OBVIOUS
<1>2. FlattenSeq(<<>>) = <<>>
  BY DEF FlattenSeq
<1>3. Offset(list, 0) = Len(<<>>)
  BY <1>1, <1>2 DEF Offset, Encoded
<1> QED
  BY <1>3

\* The offsets of a text and of a beginning of it; and nothing else is in it.
LEMMA OffsetsGrow ==
  ASSUME NEW list \in Seq(Seq(Nat)), NEW a, NEW n, Fits(list, a, n)
  PROVE  /\ Offset(list, a) \in Nat /\ Offset(list, a + n) \in Nat
         /\ Offset(list, a) <= Offset(list, a + n)
<1> DEFINE first == Encoded(SubSeq(list, 1, a))
           piece == Encoded(SubSeq(list, a + 1, a + n))
           both == Encoded(SubSeq(list, 1, a + n))
<1>1. first \in Seq(Nat) /\ piece \in Seq(Nat) /\ both = first \o piece
  <2>1. InPieces(Nat, list, a, n)
    BY EncodedInPieces
  <2> QED
    BY <2>1 DEF InPieces, IsPiece
<1> HIDE DEF first, piece, both
<1>2. Len(both) = Len(first) + Len(piece) /\ Len(first) \in Nat /\ Len(piece) \in Nat
  BY <1>1
<1> QED
  BY <1>2 DEF Offset, first, both

LEMMA OffsetOfNext ==
  ASSUME NEW list \in Seq(Seq(Nat)), NEW k \in 1..Len(list)
  PROVE  /\ Offset(list, k - 1) \in Nat /\ Len(list[k]) \in Nat
         /\ Offset(list, k) = Offset(list, k - 1) + Len(list[k])
         /\ \A j \in 1..Len(list[k]) : Encoded(list)[Offset(list, k - 1) + j] = list[k][j]
<1> DEFINE first == Encoded(SubSeq(list, 1, k - 1))
           piece == SubSeq(list, (k - 1) + 1, (k - 1) + 1)
           both == Encoded(SubSeq(list, 1, k))
           rest == Encoded(SubSeq(list, k + 1, Len(list)))
           c == list[k]
<1>1. /\ Fits(list, k - 1, 1) /\ Fits(list, k, Len(list) - k)
      /\ (k - 1) + 1 = k /\ k + (Len(list) - k) = Len(list)
  BY DEF Fits
<1>2. /\ IsPiece(Nat, list, k - 1, 1, piece)
      /\ first \in Seq(Nat)
      /\ Encoded(SubSeq(list, 1, (k - 1) + 1)) = first \o Encoded(piece)
  <2>1. InPieces(Nat, list, k - 1, 1)
    BY <1>1, EncodedInPieces
  <2> QED
    BY <2>1 DEF InPieces
<1>3. /\ IsPiece(Nat, list, k, Len(list) - k, SubSeq(list, k + 1, k + (Len(list) - k)))
      /\ both \in Seq(Nat)
      /\ Encoded(SubSeq(list, 1, k + (Len(list) - k)))
           = both \o Encoded(SubSeq(list, k + 1, k + (Len(list) - k)))
  <2>1. InPieces(Nat, list, k, Len(list) - k)
    BY <1>1, EncodedInPieces
  <2> QED
    BY <2>1 DEF InPieces
<1>4. c \in Seq(Nat) /\ SubSeq(list, 1, Len(list)) = list
  OBVIOUS
<1>6. Encoded(piece) = c
  <2>1. piece \in Seq(Seq(Nat)) /\ Len(piece) = 1 /\ piece[1] = list[(k - 1) + 1]
    BY <1>2 DEF IsPiece
  <2>2. list[(k - 1) + 1] = c
    BY <1>1
  <2> HIDE DEF piece, c
  <2> QED
    BY <2>1, <2>2, OneCharacter
<1>7. both = first \o c
  BY <1>1, <1>2, <1>6
<1>8. rest \in Seq(Nat) /\ Encoded(list) = both \o rest
  BY <1>1, <1>3, <1>4 DEF IsPiece
<1>9. Offset(list, k - 1) = Len(first) /\ Offset(list, k) = Len(both)
  BY DEF Offset
<1> HIDE DEF first, both, rest, c
<1>10. /\ Len(both) = Len(first) + Len(c) /\ Len(first) \in Nat /\ Len(c) \in Nat
       /\ \A j \in 1..Len(c) : both[Len(first) + j] = c[j]
  BY <1>2, <1>4, <1>7
<1>11. \A m \in 1..Len(both) : Encoded(list)[m] = both[m]
  BY <1>3, <1>8
<1>12. \A j \in 1..Len(c) : Encoded(list)[Len(first) + j] = c[j]
  BY <1>10, <1>11
<1> QED
  BY <1>9, <1>10, <1>12 DEF c

\* What is in a text: characters and bytes none begins with.
IsStray(c) == \E b \in Within \cup 248..255 : c = <<b>>
IsText(list) ==
  /\ list \in Seq(Seq(Nat)) /\ Len(list) <= MaxChars
  /\ \A k \in 1..Len(list) : IsCharacter(list[k]) \/ IsStray(list[k])

LEMMA CharacterLength ==
  ASSUME NEW c, IsCharacter(c)
  PROVE  /\ c \in Seq(Nat) /\ Len(c) \in 1..4 /\ c[1] \in 0..247 /\ c[1] \notin Within
         /\ utf8_cps(c[1]) = Len(c)
         /\ \A k \in 2..Len(c) : c[k] \in Within
<1>1. PICK n \in 1..4 : /\ c \in [1..n -> 0..247] /\ c[1] \in Leads[n]
                        /\ \A k \in 2..n : c[k] \in Within
  BY DEF IsCharacter
<1>2. c \in Seq(Nat) /\ Len(c) = n /\ c[1] \in 0..247
  <2>1. n \in Nat /\ 1 \in 1..n /\ 0..247 \subseteq Nat
    OBVIOUS
  <2>2. c \in [1..n -> Nat] /\ c[1] \in 0..247
    BY <1>1, <2>1
  <2> QED
    BY <2>1, <2>2
<1>3. utf8_cps(c[1]) = n /\ c[1] \notin Within
  <2>1. CASE n = 1
    BY <1>1, <2>1 DEF Leads, utf8_cps, Within
  <2>2. CASE n = 2
    BY <1>1, <2>2 DEF Leads, utf8_cps, Within
  <2>3. CASE n = 3
    BY <1>1, <2>3 DEF Leads, utf8_cps, Within
  <2>4. CASE n = 4
    BY <1>1, <2>4 DEF Leads, utf8_cps, Within
  <2> QED
    BY <1>1, <2>1, <2>2, <2>3, <2>4
<1> QED
  BY <1>1, <1>2, <1>3

LEMMA PartLength ==
  ASSUME NEW c, IsCharacter(c) \/ IsStray(c)
  PROVE  Len(c) \in 1..4
<1>1. CASE IsCharacter(c)
  BY <1>1, CharacterLength
<1>2. CASE IsStray(c)
  BY <1>2 DEF IsStray
<1> QED
  BY <1>1, <1>2

LEMMA BackAt == \A byte \in Within \cup 248..255 : utf8_cps(byte) = SizeMax
  BY DEF Within, utf8_cps

LEMMA OffsetsBounded ==
  ASSUME NEW list, IsText(list), NEW k \in 0..Len(list)
  PROVE  Offset(list, k) \in k..(4 * k)
<1> DEFINE T == {m \in Nat : m <= Len(list) => Offset(list, m) \in m..(4 * m)}
<1>1. list \in Seq(Seq(Nat))
  BY DEF IsText
<1>2. 0 \in T
  BY <1>1, OffsetOfNothing
<1>3. ASSUME NEW m \in Nat, m \in T PROVE m + 1 \in T
  <2> SUFFICES ASSUME m + 1 <= Len(list)
               PROVE  Offset(list, m + 1) \in (m + 1)..(4 * (m + 1))
    OBVIOUS
  <2> DEFINE n == m + 1
  <2>1. n \in 1..Len(list) /\ n - 1 = m /\ m <= Len(list)
    BY <1>1, <1>3
  <2>2. Offset(list, m) \in m..(4 * m)
    BY <1>3, <2>1
  <2>3. IsCharacter(list[n]) \/ IsStray(list[n])
    BY <2>1 DEF IsText
  <2>4. Len(list[n]) \in 1..4
    BY <2>3, PartLength
  <2>5. Offset(list, n) = Offset(list, n - 1) + Len(list[n])
    BY <1>1, <2>1, OffsetOfNext
  <2>6. Offset(list, n) = Offset(list, m) + Len(list[n])
    BY <2>1, <2>5
  <2> DEFINE before == Offset(list, m)
             part == Len(list[n])
  <2>7. before \in m..(4 * m) /\ part \in 1..4 /\ Offset(list, n) = before + part
    BY <2>2, <2>4, <2>6
  <2> HIDE DEF before, part
  <2>8. before + part \in (m + 1)..(4 * (m + 1))
    BY <2>7
  <2> QED
    BY <2>7, <2>8
<1>4. Nat \subseteq T
  <2> HIDE DEF T
  <2> QED
    BY <1>2, <1>3, SetInduction
<1>5. k \in T
  <2> HIDE DEF T
  <2> QED
    BY <1>1, <1>4
<1> QED
  BY <1>1, <1>5

\* Every byte is in a character, or is a stray one.
LEMMA InAPart ==
  ASSUME NEW list, IsText(list), NEW n \in 0..Len(list), NEW x \in 1..Offset(list, n)
  PROVE  \E m \in 1..n : \E j \in 1..Len(list[m]) : x = Offset(list, m - 1) + j
<1>1. list \in Seq(Seq(Nat))
  BY DEF IsText
<1> DEFINE T == {k \in 0..n : x <= Offset(list, k)}
<1>2. n \in T /\ T \subseteq Nat /\ T # {}
  <2>1. Offset(list, n) \in Nat
    BY OffsetsBounded
  <2>2. n \in 0..n /\ x <= Offset(list, n)
    BY <2>1
  <2> QED
    BY <2>2
<1>3. PICK m \in T : \A k \in T : m <= k
  <2> HIDE DEF T
  <2> QED
    BY <1>2, LeastOf
<1>4. m \in 0..n /\ x <= Offset(list, m) /\ x \in Nat /\ 0 < x
  BY <1>3, OffsetsBounded
<1>5. m # 0
  BY <1>1, <1>4, OffsetOfNothing
<1>6. m \in 1..n /\ m - 1 \in 0..n /\ ~(m <= m - 1) /\ m \in 1..Len(list)
  BY <1>1, <1>4, <1>5
<1>7. m - 1 \notin T
  <2> HIDE DEF T
  <2> QED
    BY <1>3, <1>6
<1>8. ~(x <= Offset(list, m - 1))
  BY <1>6, <1>7
<1>9. /\ Offset(list, m - 1) \in Nat /\ Len(list[m]) \in Nat
      /\ Offset(list, m) = Offset(list, m - 1) + Len(list[m])
  BY <1>1, <1>6, OffsetOfNext
<1>10. x - Offset(list, m - 1) \in 1..Len(list[m])
       /\ x = Offset(list, m - 1) + (x - Offset(list, m - 1))
  BY <1>4, <1>8, <1>9
<1> QED
  BY <1>6, <1>10

LEMMA SizeSuffices ==
  /\ MaxChars \in Nat /\ SizeMax \in Nat /\ 4 * MaxChars <= SizeMax
  /\ \A x \in Nat, y \in Nat : x + y <= SizeMax => Plus(x, y) = x + y
  /\ Plus(0, SizeMax) = SizeMax
  /\ \A x \in 1..SizeMax : Plus(x, SizeMax) = x - 1
<1>1. MaxChars \in Nat /\ SizeMax \in Nat /\ 4 * MaxChars <= SizeMax
  BY CharsAssumption
<1>2. ASSUME NEW x \in Nat, NEW y \in Nat, x + y <= SizeMax PROVE Plus(x, y) = x + y
  BY <1>1, <1>2 DEF Plus
<1>3. ASSUME NEW x \in 1..SizeMax PROVE Plus(x, SizeMax) = x - 1
  <2>1. x + SizeMax = 1 * (SizeMax + 1) + (x - 1) /\ x - 1 \in 0..SizeMax /\ SizeMax + 1 > 0
    BY <1>1
  <2>2. (x + SizeMax) % (SizeMax + 1) = x - 1
    BY <1>1, <2>1
  <2> QED
    BY <2>2 DEF Plus
<1> QED
  BY <1>1, <1>2, <1>3

LEMMA OffsetsFit ==
  ASSUME NEW list, IsText(list), NEW k \in 0..Len(list)
  PROVE  Offset(list, k) \in k..SizeMax
<1>1. Len(list) \in Nat /\ Len(list) <= MaxChars
  BY DEF IsText
<1>2. Offset(list, k) \in k..(4 * k)
  BY OffsetsBounded
<1>3. 4 * k <= SizeMax
  BY <1>1, SizeSuffices
<1> QED
  BY <1>1, <1>2, <1>3, SizeSuffices

\* The first n characters of a text take as many bytes as utf8_bytes says.
LEMMA BytesAreOffset ==
  ASSUME NEW list, IsText(list), NEW n \in 0..Len(list),
         \A k \in 1..n : IsCharacter(list[k])
  PROVE  utf8_bytes(Encoded(list), n) = Offset(list, n)
<1> DEFINE text == Encoded(list)
           Step(at, k) == IF k = 0 THEN 0 ELSE Plus(at[k - 1], utf8_cps(text[at[k - 1] + 1]))
           g == [k \in 0..n |-> Offset(list, k)]
           at == CHOOSE at : at = [k \in 0..n |-> Step(at, k)]
<1>1. list \in Seq(Seq(Nat)) /\ n \in Nat /\ n <= Len(list)
  BY DEF IsText
<1>2. ASSUME NEW k \in 1..n
      PROVE  Plus(Offset(list, k - 1), utf8_cps(text[Offset(list, k - 1) + 1])) = Offset(list, k)
  <2> DEFINE c == list[k]
             before == Offset(list, k - 1)
  <2>1. k \in 1..Len(list) /\ k \in 0..Len(list) /\ k - 1 \in 0..Len(list)
    BY <1>1
  <2>2. Len(c) \in 1..4 /\ utf8_cps(c[1]) = Len(c)
    BY CharacterLength
  <2>3. /\ before \in Nat /\ Offset(list, k) = before + Len(c)
        /\ \A j \in 1..Len(c) : text[before + j] = c[j]
    BY <1>1, <2>1, OffsetOfNext
  <2>4. Offset(list, k) \in k..SizeMax
    BY <2>1, OffsetsFit
  <2> HIDE DEF c, before, text
  <2>5. text[before + 1] = c[1]
    BY <2>2, <2>3
  <2>6. Len(c) \in Nat /\ before + Len(c) <= SizeMax
    BY <2>2, <2>3, <2>4, SizeSuffices
  <2>7. Plus(before, Len(c)) = before + Len(c)
    BY <2>3, <2>6, SizeSuffices
  <2> QED
    BY <2>2, <2>3, <2>5, <2>7 DEF before
<1>3. g = [k \in 0..n |-> Step(g, k)]
  <2>1. ASSUME NEW k \in 0..n PROVE g[k] = Step(g, k)
    <3>1. CASE k = 0
      BY <1>1, <3>1, OffsetOfNothing
    <3>2. CASE k # 0
      <4>1. k \in 1..n /\ k - 1 \in 0..n
        BY <3>2
      <4>2. g[k] = Offset(list, k) /\ g[k - 1] = Offset(list, k - 1)
        BY <4>1
      <4> HIDE DEF g
      <4> QED
        BY <1>2, <3>2, <4>1, <4>2
    <3> QED
      BY <3>1, <3>2
  <2> HIDE DEF Step
  <2>2. g = [k \in 0..n |-> g[k]]
    OBVIOUS
  <2> HIDE DEF g
  <2> QED
    BY <2>1, <2>2
<1>4. at = [k \in 0..n |-> Step(at, k)]
  <2> HIDE DEF g
  <2> QED
    BY <1>3, Zenon
<1> HIDE DEF at
<1>5. \A k \in 0..n : at[k] = Step(at, k)
  <2> HIDE DEF Step
  <2> QED
    BY <1>4
<1> DEFINE T == {k \in Nat : k <= n => at[k] = Offset(list, k)}
<1>6. 0 \in T
  BY <1>1, <1>5, OffsetOfNothing
<1>7. ASSUME NEW k \in Nat, k \in T PROVE k + 1 \in T
  <2> DEFINE m == k + 1
  <2> SUFFICES ASSUME m <= n PROVE at[m] = Offset(list, m)
    OBVIOUS
  <2>1. m \in 1..n /\ m \in 0..n /\ m # 0 /\ m - 1 = k
    BY <1>1
  <2>2. at[k] = Offset(list, k)
    BY <1>7, <2>1
  <2> HIDE DEF m, text
  <2>3. at[m] = Step(at, m)
    BY <1>5, <2>1
  <2>4. at[m] = Plus(at[m - 1], utf8_cps(text[at[m - 1] + 1]))
    BY <2>1, <2>3
  <2>5. at[m - 1] = Offset(list, m - 1)
    BY <2>1, <2>2
  <2> QED
    BY <1>2, <2>1, <2>4, <2>5, Zenon
<1>8. n \in T
  <2>1. Nat \subseteq T
    <3> HIDE DEF T
    <3> QED
      BY <1>6, <1>7, SetInduction
  <2> HIDE DEF T
  <2> QED
    BY <1>1, <2>1
<1>9. at[n] = Offset(list, n)
  BY <1>1, <1>8
<1>10. utf8_bytes(text, n) = at[n]
  BY DEF utf8_bytes, at
<1> QED
  BY <1>9, <1>10

\* Whole characters of a text, from an offset on, are again a text of them.
AllCharacters(list) == \A k \in 1..Len(list) : IsCharacter(list[k])

LEMMA RestOfText ==
  ASSUME NEW list, IsText(list), AllCharacters(list), NEW a, NEW n, Fits(list, a, n)
  PROVE  /\ IsText(SubSeq(list, a + 1, a + n)) /\ AllCharacters(SubSeq(list, a + 1, a + n))
         /\ Len(SubSeq(list, a + 1, a + n)) = n
         /\ \A m \in 1..n : SubSeq(list, a + 1, a + n)[m] = list[a + m]
<1> DEFINE piece == SubSeq(list, a + 1, a + n)
<1>1. list \in Seq(Seq(Nat)) /\ Len(list) <= MaxChars
  BY DEF IsText
<1>2. InPieces(Nat, list, a, n)
  BY <1>1, EncodedInPieces
<1>3. piece \in Seq(Seq(Nat)) /\ Len(piece) = n /\ \A m \in 1..n : piece[m] = list[a + m]
  BY <1>2 DEF InPieces, IsPiece
<1>4. a \in Nat /\ n \in Nat /\ a + n <= Len(list) /\ Len(list) \in Nat
  BY <1>1 DEF Fits
<1> HIDE DEF piece
<1>5. AllCharacters(piece)
  <2>1. ASSUME NEW m \in 1..n PROVE IsCharacter(piece[m])
    <3>1. a + m \in 1..Len(list)
      BY <1>4
    <3>2. IsCharacter(list[a + m])
      BY <3>1 DEF AllCharacters
    <3> QED
      BY <1>3, <3>2
  <2> QED
    BY <1>3, <2>1 DEF AllCharacters
<1>6. n <= MaxChars
  BY <1>1, <1>4, SizeSuffices
<1>7. IsText(piece)
  BY <1>3, <1>5, <1>6 DEF IsText, AllCharacters
<1> QED
  BY <1>3, <1>5, <1>7 DEF piece

LEMMA SliceOfText ==
  ASSUME NEW list, IsText(list), AllCharacters(list),
         NEW offset \in 0..Len(list), NEW n \in 0..(Len(list) - offset)
  PROVE  Slice(Encoded(list), offset, n) = Encoded(SubSeq(list, offset + 1, offset + n))
<1> DEFINE rest == SubSeq(list, offset + 1, offset + (Len(list) - offset))
           wanted == SubSeq(list, offset + 1, offset + n)
           front == SubSeq(rest, 1, n)
           first == Encoded(SubSeq(list, 1, offset))
           text == Encoded(list)
<1>1. /\ list \in Seq(Seq(Nat)) /\ Len(list) \in Nat /\ offset \in Nat /\ n \in Nat
      /\ offset + (Len(list) - offset) = Len(list) /\ SubSeq(list, 1, Len(list)) = list
  BY DEF IsText
<1>2. Fits(list, offset, Len(list) - offset) /\ Fits(list, offset, n)
  BY <1>1 DEF Fits
<1>3. InPieces(Nat, list, offset, Len(list) - offset)
  BY <1>1, <1>2, EncodedInPieces
<1>4. /\ first \in Seq(Nat) /\ Encoded(rest) \in Seq(Nat)
      /\ Encoded(SubSeq(list, 1, offset + (Len(list) - offset))) = first \o Encoded(rest)
  BY <1>3 DEF InPieces, IsPiece
<1>5. text = first \o Encoded(rest)
  BY <1>1, <1>4
<1>6. /\ IsText(rest) /\ AllCharacters(rest) /\ Len(rest) = Len(list) - offset
      /\ \A m \in 1..(Len(list) - offset) : rest[m] = list[offset + m]
  BY <1>2, RestOfText
<1>7. /\ IsText(wanted) /\ Len(wanted) = n
      /\ \A m \in 1..n : wanted[m] = list[offset + m]
  BY <1>2, RestOfText, SMTT(40)
<1>8. utf8_bytes(text, offset) = Len(first)
  <2>1. \A k \in 1..offset : IsCharacter(list[k])
    BY <1>1 DEF AllCharacters
  <2> HIDE DEF text
  <2>2. utf8_bytes(Encoded(list), offset) = Offset(list, offset)
    BY <2>1, BytesAreOffset
  <2> QED
    BY <2>2 DEF Offset, text
<1> HIDE DEF rest, wanted, first, text
<1>9. SubSeq(text, Len(first) + 1, Len(text)) = Encoded(rest)
  <2>1. Len(text) = Len(first) + Len(Encoded(rest))
    BY <1>4, <1>5
  <2>2. SubSeq(first \o Encoded(rest), Len(first) + 1, Len(first) + Len(Encoded(rest)))
          = Encoded(rest)
    BY <1>4, LastPiece
  <2> QED
    BY <1>5, <2>1, <2>2
<1>10. rest \in Seq(Seq(Nat)) /\ Fits(rest, 0, n) /\ Fits(rest, n, Len(rest) - n)
       /\ n \in 0..Len(rest) /\ n + (Len(rest) - n) = Len(rest)
       /\ SubSeq(rest, 1, Len(rest)) = rest /\ 0 + 1 = 1 /\ 0 + n = n
  BY <1>1, <1>6 DEF Fits, IsText
<1>11. utf8_bytes(Encoded(rest), n) = Len(Encoded(front))
  <2>1. \A k \in 1..n : IsCharacter(rest[k])
    BY <1>1, <1>6, <1>10 DEF AllCharacters
  <2>2. utf8_bytes(Encoded(rest), n) = Offset(rest, n)
    BY <1>6, <1>10, <2>1, BytesAreOffset
  <2> QED
    BY <2>2 DEF Offset
<1>12. front = wanted
  <2>1. /\ IsText(SubSeq(rest, 0 + 1, 0 + n)) /\ Len(SubSeq(rest, 0 + 1, 0 + n)) = n
        /\ \A m \in 1..n : SubSeq(rest, 0 + 1, 0 + n)[m] = rest[0 + m]
    BY <1>6, <1>10, RestOfText, SMTT(40)
  <2>2. IsText(front) /\ Len(front) = n /\ \A m \in 1..n : front[m] = rest[m]
    BY <1>10, <2>1
  <2> HIDE DEF front
  <2>3. front \in Seq(Seq(Nat)) /\ wanted \in Seq(Seq(Nat))
    BY <1>7, <2>2 DEF IsText
  <2>4. ASSUME NEW m \in 1..n PROVE front[m] = wanted[m]
    <3>1. m \in 1..(Len(list) - offset)
      BY <1>1
    <3>2. front[m] = rest[m] /\ rest[m] = list[offset + m] /\ wanted[m] = list[offset + m]
      BY <1>6, <1>7, <2>2, <3>1, Zenon
    <3> QED
      BY <3>2
  <2> QED
    BY <1>7, <2>2, <2>3, <2>4
<1>13. PICK tail : /\ Encoded(rest) = Encoded(front) \o tail
                   /\ Encoded(front) \in Seq(Nat) /\ tail \in Seq(Nat)
  <2>1. InPieces(Nat, rest, n, Len(rest) - n)
    BY <1>10, EncodedInPieces
  <2>2. Encoded(SubSeq(rest, 1, n + (Len(rest) - n)))
          = Encoded(front) \o Encoded(SubSeq(rest, n + 1, n + (Len(rest) - n)))
        /\ Encoded(front) \in Seq(Nat)
        /\ Encoded(SubSeq(rest, n + 1, n + (Len(rest) - n))) \in Seq(Nat)
    BY <2>1 DEF InPieces, IsPiece
  <2> QED
    BY <1>10, <2>2
<1> HIDE DEF front
<1> DEFINE whole == Encoded(front)
<1>14. SubSeq(Encoded(rest), 1, Len(whole)) = whole
  <2> HIDE DEF whole
  <2>1. whole \in Seq(Nat) /\ Encoded(rest) = whole \o tail
    BY <1>13 DEF whole
  <2>2. /\ 0 \in Nat /\ Len(whole) \in Nat /\ 0 <= Len(whole) /\ Len(whole) <= Len(whole)
        /\ 0 + 1 = 1 /\ SubSeq(whole, 1, Len(whole)) = whole
    BY <2>1
  <2>3. SubSeq(whole \o tail, 0 + 1, Len(whole)) = SubSeq(whole, 0 + 1, Len(whole))
    BY <1>13, <2>1, <2>2, PieceOfConcat
  <2> QED
    BY <2>1, <2>2, <2>3
<1>15. Slice(text, offset, n) = SubSeq(Encoded(rest), 1, utf8_bytes(Encoded(rest), n))
  BY <1>8, <1>9 DEF Slice
<1> QED
  BY <1>11, <1>12, <1>14, <1>15 DEF text, wanted

-----------------------------------------------------------------------------
(***************************************************************************)
(* The walk, by what the text is.                                          *)
(***************************************************************************)
LEMMA TextsAreText ==
  ASSUME NEW list, list \in Texts
  PROVE  /\ IsText(list)
         /\ \A k \in 1..Len(list) : IsCharacter(list[k]) <=> list[k] \in Chars
         /\ WellFormed(list) <=> AllCharacters(list)
<1>1. PICK n \in 0..MaxChars : list \in [1..n -> Chars \cup {<<b>> : b \in Stray}]
  BY DEF Texts
<1>2. DOMAIN list = 1..n /\ n \in Nat /\ n <= MaxChars
  BY <1>1, SizeSuffices
<1>3. ASSUME NEW k \in 1..n
      PROVE  /\ list[k] \in Seq(Nat) /\ (IsCharacter(list[k]) \/ IsStray(list[k]))
             /\ IsCharacter(list[k]) <=> list[k] \in Chars
  <2>1. CASE list[k] \in Chars
    <3>1. IsCharacter(list[k])
      BY <2>1, CharsAssumption
    <3> QED
      BY <2>1, <3>1, CharacterLength
  <2>2. CASE list[k] \notin Chars
    <3>1. PICK b \in Stray : list[k] = <<b>>
      BY <1>1, <2>2
    <3>2. b \in Within \cup 248..255
      BY CharsAssumption
    <3>3. <<b>> \in Seq(Nat) /\ Len(<<b>>) = 1 /\ <<b>>[1] = b
      BY <3>2 DEF Within
    <3>4. ~IsCharacter(<<b>>)
      <4> SUFFICES ASSUME IsCharacter(<<b>>) PROVE FALSE
        OBVIOUS
      <4> DEFINE c == <<b>>
      <4>1. c[1] = b /\ c[1] \in 0..247 /\ c[1] \notin Within
        BY <3>3, CharacterLength
      <4> HIDE DEF c
      <4> QED
        BY <3>2, <4>1
    <3> QED
      BY <2>2, <3>1, <3>2, <3>3, <3>4 DEF IsStray
  <2> QED
    BY <2>1, <2>2
<1>4. list \in [1..n -> Seq(Nat)]
  BY <1>1, <1>2, <1>3
<1>5. list \in Seq(Seq(Nat)) /\ Len(list) = n
  BY <1>2, <1>4
<1>6. WellFormed(list) <=> AllCharacters(list)
  <2>1. ToSet(list) = {list[k] : k \in 1..n}
    BY <1>2 DEF ToSet
  <2> QED
    BY <1>3, <1>5, <2>1 DEF WellFormed, AllCharacters
<1> QED
  BY <1>2, <1>3, <1>5, <1>6 DEF IsText

\* Every slice of a well-formed text that ot_xform and ot_compose cut out of it
\* with utf8_bytes is made of whole characters, the ones that are meant.
THEOREM SlicesAreCharactersHolds == WalkSpec => []SlicesAreCharacters
<1>1. chars \in Texts => SlicesAreCharacters
  <2> SUFFICES ASSUME chars \in Texts, WellFormed(chars),
                      NEW offset \in 0..Len(chars), NEW n \in 0..(Len(chars) - offset)
               PROVE  Slice(str, offset, n) = Encoded(SubSeq(chars, offset + 1, offset + n))
    BY DEF SlicesAreCharacters
  <2>1. IsText(chars) /\ AllCharacters(chars)
    BY TextsAreText
  <2>2. Slice(Encoded(chars), offset, n) = Encoded(SubSeq(chars, offset + 1, offset + n))
    BY <2>1, SliceOfText
  <2> QED
    BY <2>2 DEF str
<1>2. WalkInit => chars \in Texts
  BY DEF WalkInit
<1>3. chars \in Texts /\ [Turn]_walkVars => (chars \in Texts)'
  BY DEF Turn, walkVars
<1> QED
  BY <1>1, <1>2, <1>3, PTL DEF WalkSpec

\* Where the walk may stand: in a well-formed text behind the characters it has
\* counted; in one that begins with a stray byte in front of that, or behind the
\* end; in any other in front of every stray byte.
InFront(list, at) ==
  \A s \in 1..Len(list) : ~IsCharacter(list[s]) => at <= Offset(list, s - 1)

WalkInv ==
  /\ chars \in Texts /\ i \in Nat
  /\ IF AllCharacters(chars) THEN length \in 0..Len(chars) /\ i = Offset(chars, length)
     ELSE IF ~IsCharacter(chars[1]) THEN (length = 0 /\ i = 0) \/ (length = 1 /\ i = SizeMax)
     ELSE InFront(chars, i)

LEMMA LengthOfText ==
  ASSUME NEW list, IsText(list)
  PROVE  Len(Encoded(list)) = Offset(list, Len(list))
<1>1. list \in Seq(Seq(Nat))
  BY DEF IsText
<1>2. SubSeq(list, 1, Len(list)) = list
  BY <1>1
<1> QED
  BY <1>2 DEF Offset

\* The byte the walk is at, and where it goes from there.
LEMMA ByteAt ==
  ASSUME NEW list, IsText(list), NEW m \in 1..Len(list), NEW j \in 1..Len(list[m]),
         NEW at \in Nat, at + 1 = Offset(list, m - 1) + j
  PROVE  /\ Offset(list, m) = Offset(list, m - 1) + Len(list[m])
         /\ Offset(list, m - 1) \in Nat /\ Offset(list, m) \in Nat
         /\ IsCharacter(list[m]) /\ j = 1 =>
              Plus(at, utf8_cps(Encoded(list)[at + 1])) = Offset(list, m)
         /\ ~(IsCharacter(list[m]) /\ j = 1) =>
              Plus(at, utf8_cps(Encoded(list)[at + 1])) = IF at = 0 THEN SizeMax ELSE at - 1
<1> DEFINE c == list[m]
           before == Offset(list, m - 1)
           byte == Encoded(list)[at + 1]
<1>1. list \in Seq(Seq(Nat)) /\ m \in 0..Len(list)
  BY DEF IsText
<1>2. /\ before \in Nat /\ Len(c) \in Nat /\ Offset(list, m) = before + Len(c)
      /\ \A k \in 1..Len(c) : Encoded(list)[before + k] = c[k]
  BY <1>1, OffsetOfNext
<1>3. Offset(list, m) \in m..SizeMax
  BY <1>1, OffsetsFit
<1>4. IsCharacter(c) \/ IsStray(c)
  BY DEF IsText
<1> HIDE DEF c, before
<1>5. j \in 1..Len(c) /\ at + 1 = before + j
  BY DEF c, before
<1>6. byte = c[j]
  BY <1>2, <1>5
<1> HIDE DEF byte
<1>7. at \in 0..SizeMax /\ (j = 1 => at = before)
  <2>1. before + Len(c) <= SizeMax /\ SizeMax \in Nat
    BY <1>1, <1>2, <1>3, SizeSuffices
  <2>2. j \in Nat /\ 1 <= j /\ j <= Len(c)
    BY <1>2, <1>5
  <2>3. at \in Nat /\ before \in Nat /\ Len(c) \in Nat /\ at + 1 = before + j
    BY <1>2, <1>5
  <2> QED
    BY <2>1, <2>2, <2>3
<1>8. ASSUME IsCharacter(c), j = 1 PROVE Plus(at, utf8_cps(byte)) = Offset(list, m)
  <2>1. utf8_cps(byte) = Len(c)
    BY <1>6, <1>8, CharacterLength
  <2>2. at + Len(c) <= SizeMax /\ at + Len(c) = Offset(list, m)
    BY <1>1, <1>2, <1>3, <1>7, <1>8, SizeSuffices
  <2> QED
    BY <1>2, <2>1, <2>2, SizeSuffices
<1>9. ASSUME ~(IsCharacter(c) /\ j = 1)
      PROVE  Plus(at, utf8_cps(byte)) = IF at = 0 THEN SizeMax ELSE at - 1
  <2>1. utf8_cps(byte) = SizeMax
    <3>1. byte \in Within \cup 248..255
      <4>1. CASE IsCharacter(c)
        <5>1. j \in 2..Len(c)
          BY <1>5, <1>9, <4>1
        <5> QED
          BY <1>6, <4>1, <5>1, CharacterLength
      <4>2. CASE IsStray(c)
        <5>1. PICK b \in Within \cup 248..255 : c = <<b>>
          BY <4>2 DEF IsStray
        <5>2. Len(c) = 1 /\ c[1] = b
          BY <5>1
        <5>3. j = 1
          BY <1>5, <5>2
        <5> QED
          BY <1>6, <5>1, <5>2, <5>3
      <4> QED
        BY <1>4, <4>1, <4>2
    <3> QED
      BY <3>1, BackAt
  <2>2. CASE at = 0
    BY <2>1, <2>2, SizeSuffices
  <2>3. CASE at # 0
    BY <1>7, <2>1, <2>3, SizeSuffices
  <2> QED
    BY <2>2, <2>3
<1> QED
  BY <1>1, <1>2, <1>3, <1>8, <1>9 DEF c, before, byte

LEMMA TurnIsAt ==
  ASSUME IsText(chars), i \in Nat, Running, NEW n \in 0..Len(chars), i < Offset(chars, n)
  PROVE  \E m \in 1..n : \E j \in 1..Len(chars[m]) : i + 1 = Offset(chars, m - 1) + j
<1>1. Offset(chars, n) \in Nat
  BY OffsetsBounded
<1>2. i + 1 \in 1..Offset(chars, n)
  BY <1>1
<1> QED
  BY <1>2, InAPart

LEMMA WellFormedTurn ==
  ASSUME WalkInv, AllCharacters(chars), Turn
  PROVE  length' \in 0..Len(chars) /\ i' = Offset(chars, length')
<1> DEFINE N == Len(chars)
           k == length + 1
<1>1. /\ IsText(chars) /\ chars \in Seq(Seq(Nat)) /\ N \in Nat
      /\ i \in Nat /\ length \in 0..N /\ i = Offset(chars, length)
  BY TextsAreText DEF WalkInv, IsText
<1>2. /\ i < Len(str) /\ i' = Plus(i, utf8_cps(str[i + 1]))
      /\ length' = (IF length < Len(str) THEN length + 1 ELSE length)
      /\ str = Encoded(chars) /\ Len(str) = Offset(chars, N)
  BY <1>1, LengthOfText DEF Turn, Running, str
<1>3. length # N
  BY <1>1, <1>2
<1>4. k \in 1..N /\ k - 1 = length /\ length \in Nat
  BY <1>1, <1>3
<1>5. i \in length..(4 * length) /\ Offset(chars, N) \in N..(4 * N)
  BY <1>1, <1>4, OffsetsBounded
<1>6. length' = k
  BY <1>1, <1>2, <1>3, <1>4, <1>5
<1> HIDE DEF k, N
<1>7. IsCharacter(chars[k])
  BY <1>4 DEF AllCharacters, N
<1>8. 1 \in 1..Len(chars[k]) /\ i + 1 = Offset(chars, k - 1) + 1
  <2> DEFINE bytes == Len(chars[k])
  <2>1. bytes \in 1..4
    BY <1>7, CharacterLength
  <2> HIDE DEF bytes
  <2>2. 1 \in 1..bytes
    BY <2>1
  <2> QED
    BY <1>1, <1>4, <2>2 DEF bytes
<1>9. k \in 1..Len(chars)
  BY <1>4 DEF N
<1>10. Plus(i, utf8_cps(Encoded(chars)[i + 1])) = Offset(chars, k)
  BY <1>1, <1>7, <1>8, <1>9, ByteAt
<1>11. i' = Offset(chars, k) /\ k \in 0..Len(chars)
  BY <1>2, <1>9, <1>10
<1> QED
  BY <1>6, <1>11

LEMMA StrayAtHead ==
  ASSUME IsText(chars), chars # <<>>, ~IsCharacter(chars[1])
  PROVE  Plus(0, utf8_cps(str[1])) = SizeMax /\ 0 < Len(str) /\ ~(SizeMax < Len(str))
<1>1. chars \in Seq(Seq(Nat)) /\ 1 \in 1..Len(chars) /\ Len(chars) \in Nat
  BY DEF IsText
<1>2. Offset(chars, Len(chars)) \in Len(chars)..SizeMax
  BY <1>1, OffsetsFit
<1>3. Len(str) = Offset(chars, Len(chars))
  BY LengthOfText DEF str
<1>4. PICK b \in Within \cup 248..255 : chars[1] = <<b>>
  BY <1>1 DEF IsText, IsStray
<1>5. 1 \in 1..Len(chars[1]) /\ 1 - 1 = 0 /\ 0 + 1 = 1 /\ 0 \in Nat
  BY <1>4
<1>6. Offset(chars, 0) = 0
  BY <1>1, OffsetOfNothing
<1>7. 0 + 1 = Offset(chars, 1 - 1) + 1
  BY <1>5, <1>6
<1>8. Plus(0, utf8_cps(Encoded(chars)[0 + 1])) = IF 0 = 0 THEN SizeMax ELSE 0 - 1
  BY <1>1, <1>5, <1>7, ByteAt
<1>9. Plus(0, utf8_cps(str[1])) = SizeMax
  BY <1>5, <1>8 DEF str
<1>10. Len(str) \in 1..SizeMax
  BY <1>1, <1>2, <1>3, SizeSuffices
<1>11. SizeMax \in Nat
  BY SizeSuffices
<1>12. 0 < Len(str) /\ ~(SizeMax < Len(str))
  BY <1>10, <1>11
<1> QED
  BY <1>9, <1>12

LEMMA BehindAPart ==
  ASSUME NEW a \in Nat, NEW b \in Nat, NEW c \in 1..4, NEW d \in Nat, NEW e \in Nat,
         a <= b, d = b + c, d <= e
  PROVE  a < e
  OBVIOUS

\* In front of the stray bytes the walk goes to the next character or a byte
\* back; behind it there is at least one byte more.
LEMMA InFrontTurn ==
  ASSUME IsText(chars), i \in Nat, Running, InFront(chars, i),
         chars # <<>>, IsCharacter(chars[1]), ~AllCharacters(chars)
  PROVE  /\ Plus(i, utf8_cps(str[i + 1])) \in Nat
         /\ InFront(chars, Plus(i, utf8_cps(str[i + 1])))
<1> DEFINE to == Plus(i, utf8_cps(str[i + 1]))
<1>1. /\ chars \in Seq(Seq(Nat)) /\ Len(chars) \in Nat /\ 1 \in 1..Len(chars)
      /\ Len(chars) \in 0..Len(chars) /\ Offset(chars, 0) = 0
  BY OffsetOfNothing DEF IsText
<1>2. i < Offset(chars, Len(chars))
  BY LengthOfText DEF Running, str
<1>9. PICK m \in 1..Len(chars) : \E j \in 1..Len(chars[m]) : i + 1 = Offset(chars, m - 1) + j
  BY <1>1, <1>2, TurnIsAt
<1>3. PICK j \in 1..Len(chars[m]) : i + 1 = Offset(chars, m - 1) + j
  BY <1>9
<1>4. /\ Offset(chars, m) = Offset(chars, m - 1) + Len(chars[m])
      /\ Offset(chars, m - 1) \in Nat /\ Offset(chars, m) \in Nat
      /\ IsCharacter(chars[m]) /\ j = 1 => to = Offset(chars, m)
      /\ ~(IsCharacter(chars[m]) /\ j = 1) => to = IF i = 0 THEN SizeMax ELSE i - 1
  BY <1>3, ByteAt DEF str
<1> HIDE DEF to
<1>5. CASE IsCharacter(chars[m]) /\ j = 1
  <2>1. ASSUME NEW s \in 1..Len(chars), ~IsCharacter(chars[s]) PROVE to <= Offset(chars, s - 1)
    <3>1. i <= Offset(chars, s - 1)
      BY <2>1 DEF InFront
    <3>2. s > m
      <4> SUFFICES ASSUME s <= m PROVE FALSE
        BY <1>3
      <4>1. s # m
        BY <1>5, <2>1
      <4>2. Fits(chars, s, (m - 1) - s) /\ s + ((m - 1) - s) = m - 1
        BY <1>1, <1>3, <4>1 DEF Fits
      <4>3. Offset(chars, s) <= Offset(chars, m - 1) /\ Offset(chars, s) \in Nat
        BY <1>1, <4>2, OffsetsGrow
      <4>4. /\ Offset(chars, s) = Offset(chars, s - 1) + Len(chars[s])
            /\ Offset(chars, s - 1) \in Nat
        BY <1>1, OffsetOfNext
      <4>5. Len(chars[s]) \in 1..4
        BY PartLength DEF IsText
      <4>6. i = Offset(chars, m - 1)
        BY <1>3, <1>4, <1>5
      <4> QED
        <5>1. i < Offset(chars, m - 1)
          BY <1>4, <3>1, <4>3, <4>4, <4>5, BehindAPart
        <5> QED
          BY <1>4, <4>6, <5>1
    <3>3. Fits(chars, m, (s - 1) - m) /\ m + ((s - 1) - m) = s - 1
      BY <1>1, <1>3, <3>2 DEF Fits
    <3>4. Offset(chars, m) <= Offset(chars, s - 1)
      BY <1>1, <3>3, OffsetsGrow
    <3> QED
      BY <1>4, <1>5, <3>4
  <2> QED
    BY <1>4, <1>5, <2>1 DEF to, InFront
<1>6. CASE ~(IsCharacter(chars[m]) /\ j = 1)
  <2>1. i # 0
    <3> SUFFICES ASSUME i = 0 PROVE FALSE
      OBVIOUS
    <3>1. Offset(chars, m - 1) + j = 1 /\ j \in Nat /\ 1 <= j
      BY <1>3
    <3>2. j = 1 /\ Offset(chars, m - 1) = 0
      BY <1>4, <3>1
    <3>3. m = 1
      <4>1. m - 1 \in 0..Len(chars)
        BY <1>3
      <4>2. Offset(chars, m - 1) \in (m - 1)..(4 * (m - 1))
        BY <4>1, OffsetsBounded
      <4> QED
        BY <1>3, <3>2, <4>2
    <3> QED
      BY <1>6, <3>2, <3>3
  <2>2. to = i - 1
    BY <1>4, <1>6, <2>1
  <2>3. ASSUME NEW s \in 1..Len(chars), ~IsCharacter(chars[s]) PROVE to <= Offset(chars, s - 1)
    <3>1. i <= Offset(chars, s - 1)
      BY <2>3 DEF InFront
    <3>2. Offset(chars, s - 1) \in Nat
      BY <1>1, OffsetOfNext
    <3> QED
      BY <2>2, <3>1, <3>2
  <2> QED
    BY <2>1, <2>2, <2>3 DEF to, InFront
<1> QED
  BY <1>5, <1>6

LEMMA InFrontRuns ==
  ASSUME IsText(chars), i \in Nat, InFront(chars, i), ~AllCharacters(chars)
  PROVE  Running
<1>1. chars \in Seq(Seq(Nat)) /\ Len(chars) \in Nat
  BY DEF IsText
<1>2. PICK s \in 1..Len(chars) : ~IsCharacter(chars[s])
  BY DEF AllCharacters
<1>3. i <= Offset(chars, s - 1)
  BY <1>2 DEF InFront
<1>4. /\ Offset(chars, s) = Offset(chars, s - 1) + Len(chars[s])
      /\ Offset(chars, s - 1) \in Nat
  BY <1>1, OffsetOfNext
<1>5. Len(chars[s]) \in 1..4
  BY PartLength DEF IsText
<1>6. Fits(chars, s, Len(chars) - s) /\ s + (Len(chars) - s) = Len(chars)
  BY <1>1 DEF Fits
<1>7. Offset(chars, s) <= Offset(chars, Len(chars)) /\ Offset(chars, Len(chars)) \in Nat
      /\ Offset(chars, s) \in Nat
  BY <1>1, <1>6, OffsetsGrow
<1>8. i < Offset(chars, Len(chars))
  BY <1>3, <1>4, <1>5, <1>7, BehindAPart
<1> QED
  BY <1>8, LengthOfText DEF Running, str

LEMMA WalkStarts == WalkInit => WalkInv
<1> SUFFICES ASSUME WalkInit PROVE WalkInv
  OBVIOUS
<1>1. chars \in Texts /\ i = 0 /\ length = 0
  BY DEF WalkInit
<1>2. IsText(chars)
  BY <1>1, TextsAreText
<1>3. chars \in Seq(Seq(Nat)) /\ Len(chars) \in Nat
  BY <1>2 DEF IsText
<1>4. Offset(chars, 0) = 0
  BY <1>3, OffsetOfNothing
<1>5. InFront(chars, 0)
  <2>1. ASSUME NEW s \in 1..Len(chars) PROVE 0 <= Offset(chars, s - 1)
    BY <1>3, OffsetOfNext
  <2> QED
    BY <2>1 DEF InFront
<1> QED
  BY <1>1, <1>3, <1>4, <1>5 DEF WalkInv

LEMMA WalkStep == WalkInv /\ [Turn]_walkVars => WalkInv'
<1> SUFFICES ASSUME WalkInv, [Turn]_walkVars PROVE WalkInv'
  OBVIOUS
<1>1. CASE UNCHANGED walkVars
  BY <1>1 DEF walkVars, WalkInv
<1>2. CASE Turn
  <2>1. /\ Running /\ i' = Plus(i, utf8_cps(str[i + 1])) /\ chars' = chars
        /\ length' = (IF length < Len(str) THEN length + 1 ELSE length)
    BY <1>2 DEF Turn
  <2>2. IsText(chars) /\ i \in Nat /\ chars \in Texts
    BY TextsAreText DEF WalkInv
  <2>3. chars \in Seq(Seq(Nat)) /\ Len(chars) \in Nat
    BY <2>2 DEF IsText
  <2>4. CASE AllCharacters(chars)
    <3>1. length' \in 0..Len(chars) /\ i' = Offset(chars, length')
      BY <1>2, <2>4, WellFormedTurn
    <3>2. i' \in Nat
      BY <2>2, <2>3, <3>1, OffsetsBounded
    <3> QED
      BY <2>1, <2>2, <2>4, <3>1, <3>2 DEF WalkInv
  <2>5. CASE ~AllCharacters(chars) /\ ~IsCharacter(chars[1])
    <3>1. chars # <<>>
      BY <2>5 DEF AllCharacters
    <3>2. Plus(0, utf8_cps(str[1])) = SizeMax /\ 0 < Len(str) /\ ~(SizeMax < Len(str))
      BY <2>2, <2>5, <3>1, StrayAtHead
    <3>3. length = 0 /\ i = 0
      BY <2>1, <2>5, <3>2 DEF WalkInv, Running
    <3>4. i' = SizeMax /\ length' = 1
      BY <2>1, <3>2, <3>3
    <3> QED
      BY <2>1, <2>2, <2>5, <3>4, SizeSuffices DEF WalkInv
  <2>6. CASE ~AllCharacters(chars) /\ IsCharacter(chars[1])
    <3>1. chars # <<>>
      BY <2>6 DEF AllCharacters
    <3>2. InFront(chars, i)
      BY <2>6 DEF WalkInv
    <3>3. i' \in Nat /\ InFront(chars, i')
      BY <2>1, <2>2, <2>6, <3>1, <3>2, InFrontTurn
    <3> QED
      BY <2>1, <2>2, <2>6, <3>3 DEF WalkInv
  <2> QED
    BY <2>4, <2>5, <2>6
<1> QED
  BY <1>1, <1>2

\* utf8_length counts the characters of a well-formed text, one a turn; a text
\* that begins with a byte no character begins with counts as one; and on any
\* other that is not well-formed the walk never ends.
THEOREM LengthCountsHolds == WalkSpec => []LengthCounts
<1>1. WalkInv => LengthCounts
  <2> SUFFICES ASSUME WalkInv PROVE LengthCounts
    OBVIOUS
  <2>1. /\ IsText(chars) /\ chars \in Texts /\ i \in Nat
        /\ WellFormed(chars) <=> AllCharacters(chars)
        /\ \A k \in 1..Len(chars) : IsCharacter(chars[k]) <=> chars[k] \in Chars
    BY TextsAreText DEF WalkInv
  <2>2. CASE AllCharacters(chars)
    <3>1. i = Len(Encoded(SubSeq(chars, 1, length)))
      BY <2>2 DEF WalkInv, Offset
    <3> QED
      BY <2>1, <2>2, <3>1 DEF LengthCounts
  <2>3. CASE ~AllCharacters(chars)
    <3>1. chars # <<>> /\ chars \in Seq(Seq(Nat))
      BY <2>1, <2>3 DEF AllCharacters, IsText
    <3>2. 1 \in 1..Len(chars) /\ Head(chars) = chars[1]
      BY <3>1
    <3>3. IsCharacter(chars[1]) <=> Head(chars) \in Chars
      BY <2>1, <3>2
    <3>4. CASE IsCharacter(chars[1])
      <4>1. InFront(chars, i)
        BY <2>3, <3>4 DEF WalkInv
      <4>2. Running
        BY <2>1, <2>3, <4>1, InFrontRuns
      <4> QED
        BY <2>1, <2>3, <3>3, <3>4, <4>2 DEF LengthCounts
    <3>5. CASE ~IsCharacter(chars[1])
      <4>1. (length = 0 /\ i = 0) \/ (length = 1 /\ i = SizeMax)
        BY <2>3, <3>5 DEF WalkInv
      <4>2. ~(SizeMax < Len(str))
        BY <2>1, <3>1, <3>5, StrayAtHead
      <4>3. length = 0 \/ (length = 1 /\ ~Running)
        BY <4>1, <4>2 DEF Running
      <4> QED
        BY <2>1, <2>3, <3>3, <3>5, <4>3 DEF LengthCounts
    <3> QED
      BY <3>4, <3>5
  <2> QED
    BY <2>2, <2>3
<1> QED
  BY <1>1, WalkStarts, WalkStep, PTL DEF WalkSpec
=============================================================================
