------------------------- MODULE StagedSearchProofs -------------------------
(***************************************************************************)
(* Proofs about the payload readers and the search of the disk experiment: *)
(* PageLayout, PayloadReader and StagedSearch.  They hold for every page   *)
(* size, every layout, every graph, every distance and every estimate.     *)
(*                                                                         *)
(* The layouts: a record taken out of the pages of the file is the record  *)
(* that was written, wherever the padding falls, and the code of a         *)
(* baseline is found there unless it is larger than a page.  The readers:  *)
(* a call that succeeds returns the records asked for, one that fails has  *)
(* a cause, and no page is read twice where pages are kept.  The search:   *)
(* with reuse its final rerank reads nothing, and whatever is read, and in *)
(* how many calls, it is the gated search of the records in memory.        *)
(***************************************************************************)
EXTENDS StagedSearch, FiniteSetTheorems, SequenceTheorems, WellFoundedInduction, TLAPS

-----------------------------------------------------------------------------
(* Numbers *)

\* Division with remainder, its uniqueness, and the remainders of the padding.
LEMMA DivMod ==
  ASSUME NEW a \in Int, NEW b \in Nat \ {0}
  PROVE  /\ a \div b \in Int /\ a % b \in Int
         /\ a = b * (a \div b) + (a % b)
         /\ 0 <= a % b /\ a % b < b
  BY SMT

LEMMA DivUnique ==
  ASSUME NEW b \in Nat \ {0}, NEW q \in Int, NEW r \in Int, 0 <= r, r < b
  PROVE  (q * b + r) \div b = q /\ (q * b + r) % b = r
  BY SMT

LEMMA NegMod ==
  ASSUME NEW b \in Nat \ {0}, NEW a \in 1 .. b
  PROVE (-a) % b = b - a
  BY SMT

LEMMA CeilTimes ==
  ASSUME NEW b \in Nat \ {0}, NEW a \in Nat
  PROVE  ((a + b - 1) \div b) * b = a + ((-a) % b)
<1> DEFINE q == (a + b - 1) \div b
<1> DEFINE r == (a + b - 1) % b
<1>1. q \in Int /\ r \in Int /\ a + b - 1 = b * q + r /\ 0 <= r /\ r < b
  BY SMT
<1> HIDE DEF q, r
<1>2. -a = (-q) * b + (b - 1 - r) 
  BY <1>1
<1>3. -q \in Int /\ b - 1 - r \in Int /\ 0 <= b - 1 - r /\ b - 1 - r < b
  BY <1>1
<1>4. ((-q) * b + (b - 1 - r)) % b = b - 1 - r
  BY <1>3, DivUnique
<1>5. (-a) % b = b - 1 - r
  BY <1>2, <1>4
<1>6. q * b = a + ((-a) % b)
  BY <1>1, <1>5
<1> QED BY <1>6 DEF q

\* A set of numbers has a least one.
LEMMA LeastNumber ==
  ASSUME NEW T, T \subseteq Nat, T # {}
  PROVE  \E i \in T : \A j \in T : ~(j < i)
<1>1. \E i \in T : \A j \in T : ~(<<j, i>> \in OpToRel(<, Nat))
  BY NatLessThanWellFounded, WFMin
<1> QED  BY <1>1 DEF OpToRel

\* Products grow with their factors.
LEMMA TimesGrows ==
  ASSUME NEW x \in Int, NEW y \in Int, NEW b \in Nat, x <= y
  PROVE  x * b <= y * b
  BY SMT

-----------------------------------------------------------------------------
(* Sequences of the same length, one after the other *)

IsFlat(s, n, f) == f = [i \in 1 .. n |-> IF i = 1 THEN s[i] ELSE f[i - 1] \o s[i]]

\* The recursion of FlattenSeq has a solution.
LEMMA FlatExists ==
  ASSUME NEW s, NEW n \in Nat
  PROVE  \E f : IsFlat(s, n, f)
<1> DEFINE T == {k \in Nat : ~\E f : IsFlat(s, k, f)}
<1> SUFFICES ASSUME T # {} PROVE FALSE
  OBVIOUS
<1>1. PICK k \in T : \A j \in T : ~(j < k)
  BY LeastNumber
<1>2. CASE k = 0
  <2> DEFINE f == [i \in 1 .. 0 |-> 0]
  <2>1. f = [i \in 1 .. 0 |-> IF i = 1 THEN s[i] ELSE f[i - 1] \o s[i]]
    OBVIOUS
  <2> QED  BY <1>1, <1>2, <2>1 DEF IsFlat
<1>3. CASE k # 0
  <2>1. k \in Nat /\ k - 1 \in Nat /\ k - 1 < k
    BY <1>1, <1>3
  <2>2. PICK g : IsFlat(s, k - 1, g)
    BY <1>1, <2>1
  <2>3. \A i \in 1 .. k - 1 : g[i] = IF i = 1 THEN s[i] ELSE g[i - 1] \o s[i]
    BY <2>2, Zenon DEF IsFlat
  <2> DEFINE f == [i \in 1 .. k |-> IF i # k THEN g[i]
                                    ELSE IF i = 1 THEN s[i] ELSE g[i - 1] \o s[i]]
  <2>4. \A i \in 1 .. k : f[i] = IF i = 1 THEN s[i] ELSE f[i - 1] \o s[i]
    <3> TAKE i \in 1 .. k
    <3>1. CASE i = 1
      <4>1. k = 1 \/ i \in 1 .. k - 1
        BY <2>1, <3>1
      <4> QED  BY <2>3, <3>1, <4>1
    <3>2. CASE i # 1
      <4>1. i - 1 \in 1 .. k /\ i - 1 # k /\ (i # k => i \in 1 .. k - 1)
        BY <2>1, <3>2
      <4>2. f[i - 1] = g[i - 1]
        BY <4>1
      <4> QED  BY <2>3, <3>2, <4>1, <4>2
    <3> QED  BY <3>1, <3>2
  <2>5. f = [i \in 1 .. k |-> f[i]]
    OBVIOUS
  <2> HIDE DEF f
  <2>6. f = [i \in 1 .. k |-> IF i = 1 THEN s[i] ELSE f[i - 1] \o s[i]]
    BY <2>4, <2>5
  <2>7. IsFlat(s, k, f)
    BY <2>6, Zenon DEF IsFlat
  <2> QED  BY <1>1, <2>7
<1> QED  BY <1>2, <1>3

\* n sequences of the same length.
Chunks(s, n, w, X) ==
  s = [i \in 1 .. n |-> s[i]] /\ \A i \in 1 .. n : s[i] \in Seq(X) /\ Len(s[i]) = w

\* The sequence made of the first m of them.
Joined(flat, s, m, w, X) ==
  /\ flat \in Seq(X) /\ Len(flat) = m * w
  /\ \A i \in 1 .. m, k \in 1 .. w : flat[(i - 1) * w + k] = s[i][k]

\* Where the chunks begin.
LEMMA ChunkIndex ==
  ASSUME NEW m \in Nat, NEW w \in Nat, NEW i \in 1 .. m, NEW k \in 1 .. w
  PROVE  /\ (i - 1) * w + k \in 1 .. m * w
         /\ i < m => (i - 1) * w + k \in 1 .. (m - 1) * w
<1>1. i - 1 \in Int /\ i \in Int /\ m - 1 \in Int /\ 0 \in Int /\ 0 <= i - 1 /\ i <= m
  OBVIOUS
<1>2. 0 * w <= (i - 1) * w /\ i * w <= m * w /\ (i < m => i * w <= (m - 1) * w)
  BY <1>1, TimesGrows
<1>3. i * w = (i - 1) * w + w /\ 0 * w = 0 /\ (i - 1) * w \in Int /\ i * w \in Int
      /\ m * w \in Int /\ (m - 1) * w \in Int
  BY <1>1
<1> QED  BY <1>2, <1>3

\* What a concatenation holds, by its parts.
LEMMA ConcatParts ==
  ASSUME NEW X, NEW s \in Seq(X), NEW t \in Seq(X)
  PROVE  /\ s \o t \in Seq(X) /\ Len(s \o t) = Len(s) + Len(t)
         /\ \A j \in 1 .. Len(s) : (s \o t)[j] = s[j]
         /\ \A j \in 1 .. Len(t) : (s \o t)[Len(s) + j] = t[j]
<1>1. Len(s) \in Nat /\ Len(t) \in Nat
  OBVIOUS
<1>2. ASSUME NEW j \in 1 .. Len(s) PROVE (s \o t)[j] = s[j]
  <2>1. j \in 1 .. Len(s) + Len(t) /\ j <= Len(s)
    BY <1>1
  <2> QED  BY <2>1, ConcatProperties
<1>3. ASSUME NEW j \in 1 .. Len(t) PROVE (s \o t)[Len(s) + j] = t[j]
  <2>1. Len(s) + j \in 1 .. Len(s) + Len(t) /\ ~(Len(s) + j <= Len(s)) /\ Len(s) + j - Len(s) = j
    BY <1>1
  <2>2. (s \o t)[Len(s) + j] = t[Len(s) + j - Len(s)]
    BY <2>1, ConcatProperties
  <2> QED  BY <2>1, <2>2
<1> QED  BY <1>2, <1>3, ConcatProperties

\* One more chunk.
LEMMA JoinChunk ==
  ASSUME NEW X, NEW n \in Nat, NEW w \in Nat, NEW s, Chunks(s, n, w, X),
         NEW m \in 1 .. n, NEW flat, Joined(flat, s, m - 1, w, X)
  PROVE  Joined(flat \o s[m], s, m, w, X)
<1>1. flat \in Seq(X) /\ Len(flat) = (m - 1) * w /\ s[m] \in Seq(X) /\ Len(s[m]) = w
  BY Zenon DEF Joined, Chunks
<1>2. m * w = (m - 1) * w + w /\ (m - 1) * w \in Int /\ m * w \in Int
  OBVIOUS
<1>3. /\ flat \o s[m] \in Seq(X)
      /\ Len(flat \o s[m]) = m * w
      /\ \A j \in 1 .. Len(flat) : (flat \o s[m])[j] = flat[j]
      /\ \A j \in 1 .. w : (flat \o s[m])[(m - 1) * w + j] = s[m][j]
  <2> DEFINE c == s[m]
  <2> DEFINE a == (m - 1) * w
  <2>1. flat \in Seq(X) /\ Len(flat) = a /\ a \in Int /\ c \in Seq(X) /\ Len(c) = w
    BY <1>1, <1>2
  <2>2. m * w = a + w
    BY <1>2
  <2> HIDE DEF a, c
  <2>3. /\ flat \o c \in Seq(X) /\ Len(flat \o c) = a + w
        /\ \A j \in 1 .. Len(flat) : (flat \o c)[j] = flat[j]
        /\ \A j \in 1 .. w : (flat \o c)[a + j] = c[j]
    <3>1. flat \in Seq(X) /\ c \in Seq(X)
      BY <2>1
    <3>2. /\ flat \o c \in Seq(X) /\ Len(flat \o c) = Len(flat) + Len(c)
          /\ \A j \in 1 .. Len(flat) : (flat \o c)[j] = flat[j]
          /\ \A j \in 1 .. Len(c) : (flat \o c)[Len(flat) + j] = c[j]
      BY <3>1, ConcatParts
    <3> QED  BY <2>1, <3>2, Zenon
  <2>4. Len(flat \o c) = m * w
    BY <2>2, <2>3
  <2> QED  BY <2>3, <2>4, Zenon DEF a, c
<1>4. ASSUME NEW i \in 1 .. m, NEW k \in 1 .. w
      PROVE  (flat \o s[m])[(i - 1) * w + k] = s[i][k]
  <2>1. CASE i < m
    <3>1. m \in Nat /\ i \in 1 .. m - 1
      BY <2>1
    <3>2. (i - 1) * w + k \in 1 .. Len(flat)
      BY <1>1, <2>1, <3>1, ChunkIndex
    <3>3. flat[(i - 1) * w + k] = s[i][k]
      BY <3>1, Zenon DEF Joined
    <3> QED  BY <1>3, <3>2, <3>3, Zenon
  <2>2. CASE i = m
    BY <1>3, <2>2, Zenon
  <2>3. i < m \/ i = m
    OBVIOUS
  <2> QED  BY <2>1, <2>2, <2>3, Zenon
<1> QED  BY <1>3, <1>4, Zenon DEF Joined

\* Sequences of the same length, one after the other.
LEMMA FlattenChunks ==
  ASSUME NEW X, NEW n \in Nat \ {0}, NEW w \in Nat, NEW s, Chunks(s, n, w, X)
  PROVE  Joined(FlattenSeq(s), s, n, w, X)
<1> DEFINE flat == CHOOSE f : IsFlat(s, n, f)
<1> DEFINE T == {m \in 1 .. n : ~Joined(flat[m], s, m, w, X)}
<1>1. s \in Seq(Seq(X)) /\ Len(s) = n /\ Len(s) # 0
  <2>1. s \in [1 .. n -> Seq(X)]
    BY DEF Chunks
  <2> QED  BY <2>1, LenProperties
<1>2. FlattenSeq(s) = flat[n]
  BY <1>1 DEF FlattenSeq, IsFlat
<1>3. IsFlat(s, n, flat)
  BY FlatExists
<1> HIDE DEF flat
<1>4. \A i \in 1 .. n : flat[i] = IF i = 1 THEN s[i] ELSE flat[i - 1] \o s[i]
  BY <1>3, Zenon DEF IsFlat
<1>5. ASSUME NEW m \in T, \A j \in T : ~(j < m) PROVE FALSE
  <2>1. m \in 1 .. n /\ m \in Nat /\ ~Joined(flat[m], s, m, w, X)
    OBVIOUS
  <2>2. CASE m = 1
    <3>1. flat[m] = s[1] /\ s[1] \in Seq(X) /\ Len(s[1]) = 1 * w
      BY <1>4, <2>1, <2>2 DEF Chunks
    <3>2. \A k \in 1 .. w : (1 - 1) * w + k = k
      OBVIOUS
    <3>3. \A i \in 1 .. m, k \in 1 .. w : s[1][(i - 1) * w + k] = s[i][k]
      BY <2>2, <3>2
    <3>4. Joined(flat[m], s, m, w, X)
      <4>1. flat[m] \in Seq(X) /\ Len(flat[m]) = m * w
        BY <2>2, <3>1, Zenon
      <4>2. \A i \in 1 .. m, k \in 1 .. w : flat[m][(i - 1) * w + k] = s[i][k]
        BY <3>1, <3>3, Zenon
      <4> QED  BY <4>1, <4>2, Zenon DEF Joined
    <3> QED  BY <2>1, <3>4
  <2>3. CASE m # 1
    <3>1. m - 1 \in 1 .. n /\ m - 1 < m
      BY <2>1, <2>3
    <3>2. Joined(flat[m - 1], s, m - 1, w, X)
      BY <1>5, <3>1, Zenon
    <3>3. flat[m] = flat[m - 1] \o s[m]
      BY <1>4, <2>1, <2>3
    <3> QED  BY <2>1, <3>2, <3>3, JoinChunk
  <2> QED  BY <2>2, <2>3
<1>6. T \subseteq Nat
  OBVIOUS
<1>7. T = {}
  BY <1>5, <1>6, LeastNumber, Zenon
<1>8. n \in 1 .. n
  OBVIOUS
<1>9. Joined(flat[n], s, n, w, X)
  BY <1>7, <1>8, Zenon
<1> QED  BY <1>2, <1>9

-----------------------------------------------------------------------------
(* The layouts and their files *)

\* What a layout of the run may be.
SoundLayout(l) == l.count \in Nat \ {0} /\ l.bytes \in Nat \ {0}

\* The bytes of a file.
AnyByte == {Padding} \cup {Byte(id, k) : id \in Nat, k \in Nat}

\* A record is as long as its layout says.
LEMMA RecordIs ==
  ASSUME NEW l, SoundLayout(l), NEW id \in Nat
  PROVE  /\ RecordOf(l, id) \in Seq(AnyByte) /\ Len(RecordOf(l, id)) = l.bytes
         /\ \A k \in 1 .. l.bytes : RecordOf(l, id)[k] = Byte(id, k)
<1>1. \A k \in 1 .. l.bytes : Byte(id, k) \in AnyByte
  BY DEF AnyByte
<1>2. RecordOf(l, id) \in [1 .. l.bytes -> AnyByte] /\ l.bytes \in Nat
  BY <1>1 DEF RecordOf, SoundLayout
<1> QED  BY <1>2, LenProperties DEF RecordOf

\* A run of bytes is padded at its end, and not at all when it is whole.
LEMMA PaddedIs ==
  ASSUME NEW s \in Seq(AnyByte)
  PROVE  /\ Padded(s) \in Seq(AnyByte) /\ Len(Padded(s)) = Len(s) + ((-Len(s)) % PageSize)
         /\ \A k \in 1 .. Len(s) : Padded(s)[k] = s[k]
<1> DEFINE n == (-Len(s)) % PageSize
<1> DEFINE t == [k \in 1 .. n |-> Padding]
<1>1. n \in Nat
  BY DivMod, PageSizeAssumption
<1>2. Padding \in AnyByte
  BY DEF AnyByte
<1> HIDE DEF n
<1>3. t \in [1 .. n -> AnyByte]
  BY <1>2
<1>4. t \in Seq(AnyByte) /\ Len(t) = n
  BY <1>1, <1>3, LenProperties
<1>5. Padded(s) = s \o t
  BY DEF Padded, n
<1> HIDE DEF t
<1>6. /\ s \o t \in Seq(AnyByte) /\ Len(s \o t) = Len(s) + Len(t)
      /\ \A j \in 1 .. Len(s) : (s \o t)[j] = s[j]
  BY <1>4, ConcatParts
<1>7. Padded(s) \in Seq(AnyByte) /\ Len(Padded(s)) = Len(s) + n
  BY <1>4, <1>5, <1>6
<1> QED  BY <1>5, <1>6, <1>7, Zenon DEF n

\* How many pages a layout has.
LEMMA PackedSizes ==
  ASSUME NEW l, SoundLayout(l), Packed(l)
  PROVE  /\ RecordsPerPage(l) \in Nat \ {0} /\ RecordsPerPage(l) * l.bytes <= PageSize
         /\ PageCount(l) \in Nat \ {0}
         /\ l.count <= PageCount(l) * RecordsPerPage(l)
         /\ \A p \in 0 .. PageCount(l) - 1 : p * RecordsPerPage(l) < l.count
<1> DEFINE r == RecordsPerPage(l)
<1> DEFINE b == l.bytes
<1> DEFINE c == l.count
<1> DEFINE n == PageCount(l)
<1>1. b \in Nat \ {0} /\ c \in Nat \ {0} /\ r = PageSize \div b /\ r > 0 /\ n = DivCeil(c, r)
  BY DEF SoundLayout, Packed, RecordsPerPage, PageCount
<1> HIDE DEF b, c, r, n
<1>2. r \in Int /\ PageSize = b * r + (PageSize % b) /\ PageSize % b \in Int /\ 0 <= PageSize % b
  BY <1>1, PageSizeAssumption, DivMod
<1>3. r \in Nat \ {0} /\ r * b <= PageSize
  <2>1. r \in Nat \ {0} /\ b \in Int /\ PageSize \in Int
    BY <1>1, <1>2, PageSizeAssumption
  <2>2. b * r = r * b /\ r * b \in Int
    BY <2>1
  <2> QED  BY <1>2, <2>1, <2>2
<1>4. n * r = c + ((-c) % r)
  BY <1>1, <1>3, CeilTimes DEF DivCeil
<1>5. (-c) % r \in Int /\ 0 <= (-c) % r /\ (-c) % r < r /\ n \in Int
  <2>1. c + r - 1 \in Int /\ -c \in Int
    BY <1>1, <1>3
  <2> QED  BY <1>1, <1>3, <2>1, DivMod DEF DivCeil
<1>6. c <= n * r /\ n * r < c + r
  BY <1>1, <1>3, <1>4, <1>5
<1>7. n \in Nat \ {0}
  <2>1. n <= 0 => n * r <= 0 * r /\ 0 * r = 0
    BY <1>3, <1>5, TimesGrows
  <2> QED  BY <1>1, <1>3, <1>5, <1>6, <2>1
<1>8. ASSUME NEW p \in 0 .. n - 1 PROVE p * r < c
  <2>1. p + 1 <= n /\ p \in Int /\ p + 1 \in Int
    BY <1>7
  <2>2. (p + 1) * r <= n * r
    BY <1>3, <1>7, <2>1, TimesGrows
  <2>3. (p + 1) * r = p * r + r /\ p * r \in Int /\ n * r \in Int
    BY <1>3, <1>7, <2>1
  <2> QED  BY <1>1, <1>3, <1>6, <2>2, <2>3
<1> QED  BY <1>3, <1>6, <1>7, <1>8 DEF r, b, c, n

\* Records larger than a page fill whole pages.
LEMMA LargeSizes ==
  ASSUME NEW l, SoundLayout(l), ~Packed(l)
  PROVE  /\ PagesPerRecord(l) \in Nat \ {0}
         /\ PagesPerRecord(l) * PageSize = l.bytes + ((-l.bytes) % PageSize)
         /\ PageCount(l) = l.count * PagesPerRecord(l)
<1> DEFINE n == PagesPerRecord(l)
<1>1. l.bytes \in Nat \ {0} /\ l.count \in Nat \ {0} /\ n = DivCeil(l.bytes, PageSize)
      /\ PageCount(l) = l.count * n
  BY DEF SoundLayout, PageCount, PagesPerRecord
<1> HIDE DEF n
<1>2. n * PageSize = l.bytes + ((-l.bytes) % PageSize)
  BY <1>1, CeilTimes, PageSizeAssumption DEF DivCeil
<1>3. n \in Int /\ (-l.bytes) % PageSize \in Int /\ 0 <= (-l.bytes) % PageSize
  <2>1. l.bytes + PageSize - 1 \in Int /\ -l.bytes \in Int
    BY <1>1, PageSizeAssumption
  <2> QED  BY <1>1, <2>1, DivMod, PageSizeAssumption DEF DivCeil
<1>4. n <= 0 => n * PageSize <= 0 * PageSize /\ 0 * PageSize = 0
  BY <1>3, TimesGrows, PageSizeAssumption
<1> QED  BY <1>1, <1>2, <1>3, <1>4, PageSizeAssumption DEF n

\* A page of packed records is full or padded, and holds its records in their places.
LEMMA PackedPageIs ==
  ASSUME NEW l, SoundLayout(l), Packed(l), NEW p \in 0 .. PageCount(l) - 1
  PROVE  /\ PackedPage(l, p) \in Seq(AnyByte) /\ Len(PackedPage(l, p)) = PageSize
         /\ \A s \in 1 .. RecordsPerPage(l), k \in 1 .. l.bytes :
              p * RecordsPerPage(l) + s <= l.count =>
                PackedPage(l, p)[(s - 1) * l.bytes + k]
                  = Byte(p * RecordsPerPage(l) + s - 1, k)
<1> DEFINE r == RecordsPerPage(l)
<1> DEFINE w == l.bytes
<1> DEFINE first == p * r
<1> DEFINE n == IF first + r <= l.count THEN r ELSE l.count - first
<1> DEFINE recs == [s \in 1 .. n |-> RecordOf(l, first + s - 1)]
<1>1. PackedPage(l, p) = Padded(FlattenSeq(recs))
  BY DEF PackedPage
<1>2. /\ r \in Nat \ {0} /\ w \in Nat \ {0} /\ l.count \in Nat /\ p \in Nat
      /\ r * w <= PageSize /\ first < l.count
  BY PackedSizes DEF SoundLayout
<1> HIDE DEF r, w
<1>3. first \in Nat
  <2>1. 0 * r <= p * r /\ 0 * r = 0 /\ p * r \in Int
    BY <1>2, TimesGrows
  <2> QED  BY <2>1
<1> HIDE DEF first
<1>4. n \in Nat \ {0} /\ n <= r /\ \A s \in 1 .. r : first + s <= l.count => s <= n
  BY <1>2, <1>3
<1>5. \A s \in 1 .. n : first + s - 1 \in Nat
  BY <1>3
<1> HIDE DEF n
<1>6. \A s \in 1 .. n : recs[s] = RecordOf(l, first + s - 1) /\ recs[s] \in Seq(AnyByte) /\ Len(recs[s]) = w
  BY <1>5, RecordIs DEF w
<1>7. recs = [s \in 1 .. n |-> recs[s]]
  OBVIOUS
<1> HIDE DEF recs
<1>8. Chunks(recs, n, w, AnyByte)
  BY <1>6, <1>7, Zenon DEF Chunks
<1> DEFINE flat == FlattenSeq(recs)
<1>9. Joined(flat, recs, n, w, AnyByte)
  BY <1>2, <1>4, <1>8, FlattenChunks
<1> HIDE DEF flat
<1>10. flat \in Seq(AnyByte) /\ Len(flat) = n * w
  BY <1>9, Zenon DEF Joined
<1>11. n * w \in 1 .. PageSize
  <2>1. n * w <= r * w /\ 1 * w <= n * w
    BY <1>2, <1>4, TimesGrows
  <2>2. n * w \in Int /\ r * w \in Int /\ 1 * w = w
    BY <1>2, <1>4
  <2> QED  BY <1>2, <2>1, <2>2, PageSizeAssumption
<1>12. (-Len(flat)) % PageSize = PageSize - Len(flat)
  BY <1>10, <1>11, NegMod, PageSizeAssumption
<1>13. Padded(flat) \in Seq(AnyByte) /\ Len(Padded(flat)) = PageSize
  BY <1>10, <1>11, <1>12, PaddedIs, PageSizeAssumption
<1>14. ASSUME NEW s \in 1 .. r, NEW k \in 1 .. w, first + s <= l.count
       PROVE  Padded(flat)[(s - 1) * w + k] = Byte(first + s - 1, k)
  <2>1. s \in 1 .. n
    BY <1>4, <1>14
  <2>2. (s - 1) * w + k \in 1 .. Len(flat)
    BY <1>2, <1>4, <1>10, <2>1, ChunkIndex
  <2>3. Padded(flat)[(s - 1) * w + k] = flat[(s - 1) * w + k]
    BY <1>10, <2>2, PaddedIs
  <2>4. flat[(s - 1) * w + k] = recs[s][k]
    BY <1>9, <2>1, Zenon DEF Joined
  <2>5. recs[s][k] = Byte(first + s - 1, k)
    BY <1>5, <1>6, <2>1, RecordIs DEF w
  <2> QED  BY <2>3, <2>4, <2>5
<1> QED  BY <1>1, <1>13, <1>14 DEF flat, first, r, w

\* What a file holds where a record is looked for.
FileHolds(l) ==
  \A id \in 0 .. l.count - 1, k \in 1 .. l.bytes :
    /\ RecordOffset(l, id) \in Nat
    /\ RecordOffset(l, id) + k \in 1 .. PageCount(l) * PageSize
    /\ File(l)[RecordOffset(l, id) + k] = Byte(id, k)

\* A packed file is its pages one after the other, a file of large records its
\* padded records: either way a record is at its offset.
LEMMA PackedFile ==
  ASSUME NEW l, SoundLayout(l), Packed(l)
  PROVE  /\ File(l) \in Seq(AnyByte) /\ Len(File(l)) = PageCount(l) * PageSize
         /\ FileHolds(l)
<1> DEFINE r == RecordsPerPage(l)
<1> DEFINE w == l.bytes
<1> DEFINE n == PageCount(l)
<1> DEFINE pages == [p \in 1 .. n |-> PackedPage(l, p - 1)]
<1>1. File(l) = FlattenSeq(pages)
  BY DEF File
<1>2. /\ r \in Nat \ {0} /\ w \in Nat \ {0} /\ l.count \in Nat /\ n \in Nat \ {0}
      /\ r * w <= PageSize /\ l.count <= n * r /\ PageSize \in Nat \ {0}
  BY PackedSizes, PageSizeAssumption DEF SoundLayout
<1>3. \A p \in 0 .. n - 1 :
        PackedPage(l, p) \in Seq(AnyByte) /\ Len(PackedPage(l, p)) = PageSize
  BY PackedPageIs
<1> HIDE DEF r, w, n
<1>4. \A p \in 1 .. n : pages[p] \in Seq(AnyByte) /\ Len(pages[p]) = PageSize
  <2>1. \A p \in 1 .. n : p - 1 \in 0 .. n - 1 /\ pages[p] = PackedPage(l, p - 1)
    BY <1>2
  <2> QED  BY <1>3, <2>1
<1>5. pages = [p \in 1 .. n |-> pages[p]]
  OBVIOUS
<1>6. Chunks(pages, n, PageSize, AnyByte)
  BY <1>4, <1>5, Zenon DEF Chunks
<1>7. Joined(File(l), pages, n, PageSize, AnyByte)
  BY <1>1, <1>2, <1>6, FlattenChunks
<1>8. File(l) \in Seq(AnyByte) /\ Len(File(l)) = n * PageSize
  BY <1>7, Zenon DEF Joined
<1>9. ASSUME NEW id \in 0 .. l.count - 1, NEW k \in 1 .. w
      PROVE  /\ RecordOffset(l, id) \in Nat
             /\ RecordOffset(l, id) + k \in 1 .. n * PageSize
             /\ File(l)[RecordOffset(l, id) + k] = Byte(id, k)
  <2> DEFINE p == id \div r
  <2> DEFINE s == (id % r) + 1
  <2>1. id \in Nat /\ id < l.count
    BY <1>2
  <2>2. /\ p \in Int /\ s \in Int /\ id = r * p + (s - 1) /\ s \in 1 .. r
    BY <1>2, <2>1, DivMod
  <2>3. RecordOffset(l, id) = p * PageSize + (s - 1) * w
    <3>1. RecordOffset(l, id) = (id \div r) * PageSize + (id % r) * w
      BY DEF RecordOffset, r, w
    <3>2. id % r = s - 1
      BY <1>2, <2>1, DivMod
    <3> QED  BY <3>1, <3>2
  <2> HIDE DEF p, s
  <2>4. p * r + s = id + 1 /\ p * r \in Int
    BY <1>2, <2>2
  <2>5. p \in 0 .. n - 1
    <3>1. p < 0 => p * r <= (-1) * r /\ (-1) * r = -r
      BY <1>2, <2>2, TimesGrows
    <3>2. n <= p => n * r <= p * r
      BY <1>2, <2>2, TimesGrows
    <3>3. p * r \in Int /\ n * r \in Int
      BY <1>2, <2>2
    <3> QED  BY <1>2, <2>1, <2>2, <2>4, <3>1, <3>2, <3>3
  <2> DEFINE k2 == (s - 1) * w + k
  <2>6. k2 \in 1 .. PageSize
    <3>1. (s - 1) * w + k \in 1 .. r * w /\ r * w \in Int
      BY <1>2, <2>2, ChunkIndex
    <3> QED  BY <1>2, <3>1
  <2>7. PackedPage(l, p)[k2] = Byte(id, k)
    <3>1. p * r + s <= l.count /\ p * r + s - 1 = id
      BY <1>2, <2>1, <2>2, <2>4
    <3> QED  BY <2>2, <2>5, <3>1, PackedPageIs DEF r, w, n
  <2>8. (s - 1) * w \in Int /\ 0 <= (s - 1) * w
    <3>1. 0 * w <= (s - 1) * w /\ 0 * w = 0 /\ (s - 1) * w \in Int
      BY <1>2, <2>2, TimesGrows
    <3> QED  BY <3>1
  <2>9. p * PageSize \in Int /\ 0 <= p * PageSize
    <3>1. 0 * PageSize <= p * PageSize /\ 0 * PageSize = 0 /\ p * PageSize \in Int
      BY <1>2, <2>5, TimesGrows
    <3> QED  BY <3>1
  <2>10. p + 1 \in 1 .. n /\ (p + 1) - 1 = p
    BY <1>2, <2>5
  <2>11. RecordOffset(l, id) + k = ((p + 1) - 1) * PageSize + k2
    BY <1>2, <2>3, <2>8, <2>9, <2>10
  <2> HIDE DEF k2
  <2>12. RecordOffset(l, id) \in Nat
    BY <2>3, <2>8, <2>9
  <2>13. RecordOffset(l, id) + k \in 1 .. n * PageSize
    BY <1>2, <2>6, <2>10, <2>11, ChunkIndex
  <2>14. pages[p + 1] = PackedPage(l, p)
    BY <2>10
  <2> HIDE DEF pages
  <2>15. File(l)[((p + 1) - 1) * PageSize + k2] = pages[p + 1][k2]
    BY <1>7, <2>6, <2>10, Zenon DEF Joined
  <2> QED  BY <2>7, <2>11, <2>12, <2>13, <2>14, <2>15
<1> QED  BY <1>8, <1>9 DEF FileHolds, w, n

LEMMA LargeFile ==
  ASSUME NEW l, SoundLayout(l), ~Packed(l)
  PROVE  /\ File(l) \in Seq(AnyByte) /\ Len(File(l)) = PageCount(l) * PageSize
         /\ FileHolds(l)
<1> DEFINE m == PagesPerRecord(l)
<1> DEFINE w == m * PageSize
<1> DEFINE n == l.count
<1> DEFINE recs == [i \in 1 .. n |-> Padded(RecordOf(l, i - 1))]
<1>1. File(l) = FlattenSeq(recs)
  BY DEF File
<1>2. /\ l.bytes \in Nat \ {0} /\ n \in Nat \ {0} /\ m \in Nat \ {0} /\ PageSize \in Nat \ {0}
      /\ w = l.bytes + ((-l.bytes) % PageSize) /\ PageCount(l) = n * m
  BY LargeSizes, PageSizeAssumption DEF SoundLayout
<1> HIDE DEF n, m
<1>3. w \in Nat /\ l.bytes <= w
  <2>1. -l.bytes \in Int /\ w \in Int
    BY <1>2
  <2>2. (-l.bytes) % PageSize \in Int /\ 0 <= (-l.bytes) % PageSize
    BY <1>2, <2>1, DivMod
  <2> HIDE DEF w
  <2> QED  BY <1>2, <2>1, <2>2
<1> HIDE DEF w
<1>4. \A i \in 1 .. n :
        /\ i - 1 \in Nat /\ recs[i] = Padded(RecordOf(l, i - 1))
        /\ recs[i] \in Seq(AnyByte) /\ Len(recs[i]) = w
        /\ \A k \in 1 .. l.bytes : recs[i][k] = Byte(i - 1, k)
  <2> TAKE i \in 1 .. n
  <2>1. i - 1 \in Nat /\ recs[i] = Padded(RecordOf(l, i - 1))
    BY <1>2
  <2> HIDE DEF recs
  <2>2. /\ RecordOf(l, i - 1) \in Seq(AnyByte) /\ Len(RecordOf(l, i - 1)) = l.bytes
        /\ \A k \in 1 .. l.bytes : RecordOf(l, i - 1)[k] = Byte(i - 1, k)
    BY <2>1, RecordIs
  <2> DEFINE rec == RecordOf(l, i - 1)
  <2> HIDE DEF rec
  <2>3. /\ Padded(rec) \in Seq(AnyByte) /\ Len(Padded(rec)) = Len(rec) + ((-Len(rec)) % PageSize)
        /\ \A k \in 1 .. Len(rec) : Padded(rec)[k] = rec[k]
    BY <2>2, PaddedIs DEF rec
  <2>4. Len(rec) = l.bytes /\ \A k \in 1 .. l.bytes : rec[k] = Byte(i - 1, k)
    BY <2>2 DEF rec
  <2>5. recs[i] = Padded(rec)
    BY <2>1 DEF rec
  <2>6. Len(Padded(rec)) = w
    BY <1>2, <2>3, <2>4
  <2>7. \A k \in 1 .. l.bytes : Padded(rec)[k] = Byte(i - 1, k)
    BY <2>3, <2>4
  <2> QED  BY <2>1, <2>3, <2>5, <2>6, <2>7
<1>5. recs = [i \in 1 .. n |-> recs[i]]
  OBVIOUS
<1> HIDE DEF recs
<1>6. Chunks(recs, n, w, AnyByte)
  BY <1>4, <1>5, Zenon DEF Chunks
<1>7. Joined(File(l), recs, n, w, AnyByte)
  BY <1>1, <1>2, <1>3, <1>6, FlattenChunks
<1>8. File(l) \in Seq(AnyByte) /\ Len(File(l)) = n * w
  BY <1>7, Zenon DEF Joined
<1>9. n * w = PageCount(l) * PageSize
  BY <1>2 DEF w
<1>10. ASSUME NEW id \in 0 .. n - 1, NEW k \in 1 .. l.bytes
       PROVE  /\ RecordOffset(l, id) \in Nat
              /\ RecordOffset(l, id) + k \in 1 .. n * w
              /\ File(l)[RecordOffset(l, id) + k] = Byte(id, k)
  <2>1. id \in Nat /\ id + 1 \in 1 .. n /\ (id + 1) - 1 = id /\ k \in 1 .. w
    BY <1>2, <1>3
  <2>2. RecordOffset(l, id) = id * w
    <3>1. RecordOffset(l, id) = id * m * PageSize
      BY DEF RecordOffset, m
    <3> QED  BY <1>2, <2>1, <3>1 DEF w
  <2>3. RecordOffset(l, id) \in Nat
    <3>1. 0 * w <= id * w /\ 0 * w = 0 /\ id * w \in Int
      BY <1>3, <2>1, TimesGrows
    <3> QED  BY <2>2, <3>1
  <2>4. RecordOffset(l, id) + k = ((id + 1) - 1) * w + k
    BY <2>1, <2>2
  <2>5. RecordOffset(l, id) + k \in 1 .. n * w
    BY <1>2, <1>3, <2>1, <2>4, ChunkIndex
  <2>6. File(l)[((id + 1) - 1) * w + k] = recs[id + 1][k]
    BY <1>7, <2>1, Zenon DEF Joined
  <2>7. recs[id + 1][k] = Byte(id, k)
    BY <1>4, <2>1
  <2> QED  BY <2>3, <2>4, <2>5, <2>6, <2>7
<1> QED  BY <1>8, <1>9, <1>10 DEF FileHolds, n

LEMMA FileIs ==
  ASSUME NEW l, SoundLayout(l)
  PROVE  /\ File(l) \in Seq(AnyByte) /\ Len(File(l)) = PageCount(l) * PageSize
         /\ FileHolds(l)
BY PackedFile, LargeFile

\* Quotients grow with what is divided.
LEMMA DivGrows ==
  ASSUME NEW a \in Int, NEW b \in Int, a <= b, NEW c \in Nat \ {0}
  PROVE  a \div c <= b \div c
<1> DEFINE p == a \div c
<1> DEFINE q == b \div c
<1>1. /\ p \in Int /\ q \in Int
      /\ a = c * p + (a % c) /\ b = c * q + (b % c)
      /\ a % c \in Int /\ b % c \in Int /\ 0 <= a % c /\ b % c < c
  BY DivMod
<1> HIDE DEF p, q
<1>2. CASE q < p
  <2>1. (q + 1) * c <= p * c
    BY <1>1, <1>2, TimesGrows
  <2>2. (q + 1) * c = c * q + c /\ p * c = c * p /\ c * q \in Int /\ c * p \in Int
    BY <1>1
  <2> QED  BY <1>1, <2>1, <2>2
<1> QED  BY <1>1, <1>2 DEF p, q

-----------------------------------------------------------------------------
(* A record, put together from its pages *)

\* The pages of a record are pages of its file, and there is one at least.
LEMMA PagesOfRecord ==
  ASSUME NEW l, SoundLayout(l), NEW id \in 0 .. l.count - 1
  PROVE  /\ PagesFor(l, id) \subseteq 0 .. PageCount(l) - 1
         /\ PagesFor(l, id) # {}
         /\ PageCount(l) \in Nat
         /\ \A k \in 1 .. l.bytes :
              /\ (RecordOffset(l, id) + k - 1) \div PageSize \in PagesFor(l, id)
              /\ (RecordOffset(l, id) + k - 1) \div PageSize \in 0 .. PageCount(l) - 1
<1> DEFINE first == RecordOffset(l, id)
<1> DEFINE w == l.bytes
<1> DEFINE n == PageCount(l)
<1>1. w \in Nat \ {0} /\ l.count \in Nat \ {0} /\ PageSize \in Nat \ {0}
  BY PageSizeAssumption DEF SoundLayout
<1>2. n \in Nat
  <2>1. CASE Packed(l)
    BY <2>1, PackedSizes
  <2>2. CASE ~Packed(l)
    <3>1. n = l.count * PagesPerRecord(l) /\ PagesPerRecord(l) \in Nat
      BY <2>2, LargeSizes
    <3>2. 0 * PagesPerRecord(l) <= l.count * PagesPerRecord(l) /\ 0 * PagesPerRecord(l) = 0
          /\ l.count * PagesPerRecord(l) \in Int
      BY <1>1, <3>1, TimesGrows
    <3> QED  BY <3>1, <3>2
  <2> QED  BY <2>1, <2>2
<1>3. first \in Nat /\ first + 1 \in 1 .. n * PageSize /\ first + w \in 1 .. n * PageSize
  <2>1. 1 \in 1 .. w /\ w \in 1 .. w
    BY <1>1
  <2> QED  BY <2>1, FileIs DEF FileHolds
<1>4. PagesFor(l, id) = first \div PageSize .. (first + w - 1) \div PageSize
  BY DEF PagesFor
<1> HIDE DEF first, w, n
<1>5. first \div PageSize \in Int /\ (first + w - 1) \div PageSize \in Int
  BY <1>1, <1>3, DivMod
<1>6. \A at \in 0 .. n * PageSize - 1 : at \div PageSize \in 0 .. n - 1
  <2> TAKE at \in 0 .. n * PageSize - 1
  <2>1. n * PageSize \in Int
    BY <1>1, <1>2
  <2>2. at \in Int /\ at < n * PageSize /\ 0 <= at
    BY <2>1
  <2> DEFINE q == at \div PageSize
  <2>3. q \in Int /\ at = PageSize * q + (at % PageSize) /\ at % PageSize \in Int
        /\ 0 <= at % PageSize /\ at % PageSize < PageSize
    BY <1>1, <2>2, DivMod
  <2> HIDE DEF q
  <2>4. n <= q => n * PageSize <= q * PageSize
    BY <1>1, <1>2, <2>3, TimesGrows
  <2>5. q < 0 => (q + 1) * PageSize <= 0 * PageSize
    BY <1>1, <2>3, TimesGrows
  <2>6. /\ PageSize * q \in Int /\ q * PageSize = PageSize * q /\ 0 * PageSize = 0
        /\ (q + 1) * PageSize = PageSize * q + PageSize
    BY <1>1, <2>3
  <2> QED  BY <1>1, <1>2, <2>1, <2>2, <2>3, <2>4, <2>5, <2>6 DEF q
<1>7. ASSUME NEW k \in 1 .. w
      PROVE  /\ (first + k - 1) \div PageSize \in PagesFor(l, id)
             /\ (first + k - 1) \div PageSize \in 0 .. n - 1
  <2>1. /\ first + k - 1 \in Int /\ first <= first + k - 1 /\ first + k - 1 <= first + w - 1
        /\ first \in Int /\ first + w - 1 \in Int
    BY <1>1, <1>3
  <2>2. /\ first \div PageSize <= (first + k - 1) \div PageSize
        /\ (first + k - 1) \div PageSize <= (first + w - 1) \div PageSize
        /\ (first + k - 1) \div PageSize \in Int
    BY <1>1, <2>1, DivGrows, DivMod
  <2>3. first + k - 1 \in 0 .. n * PageSize - 1
    <3>1. n * PageSize \in Int
      BY <1>1, <1>2
    <3> QED  BY <1>1, <1>3, <2>1, <3>1
  <2> QED  BY <1>4, <1>5, <1>6, <2>2, <2>3
<1>8. PagesFor(l, id) # {}
  <2>1. 1 \in 1 .. w
    BY <1>1
  <2> QED  BY <1>7, <2>1
<1>9. PagesFor(l, id) \subseteq 0 .. n - 1
  <2>1. 1 \in 1 .. w /\ w \in 1 .. w /\ first + 1 - 1 = first
    BY <1>1, <1>3
  <2>2. first \div PageSize \in 0 .. n - 1 /\ (first + w - 1) \div PageSize \in 0 .. n - 1
    BY <1>7, <2>1
  <2> QED  BY <1>2, <1>4, <2>2
<1> QED  BY <1>2, <1>7, <1>8, <1>9 DEF first, w, n

\* A page of a file.
LEMMA PageIs ==
  ASSUME NEW l \in Layouts, NEW q \in 0 .. PageCount(l) - 1
  PROVE  /\ Contents[l][q] \in Seq(AnyByte) /\ Len(Contents[l][q]) = PageSize
         /\ \A x \in 1 .. PageSize : Contents[l][q][x] = File(l)[q * PageSize + x]
<1> DEFINE n == PageCount(l)
<1> DEFINE a == q * PageSize
<1>1. SoundLayout(l) /\ PageSize \in Nat \ {0}
  BY LayoutsAssumption, PageSizeAssumption DEF SoundLayout
<1>2. Contents[l][q] = SubSeq(File(l), a + 1, (q + 1) * PageSize)
  BY DEF Contents, PageBytes
<1>3. n \in Nat /\ File(l) \in Seq(AnyByte) /\ Len(File(l)) = n * PageSize
  <2>1. l.count \in Nat \ {0}
    BY <1>1 DEF SoundLayout
  <2>2. 0 \in 0 .. l.count - 1
    BY <2>1
  <2> QED  BY <1>1, <2>2, FileIs, PagesOfRecord
<1> HIDE DEF n
<1>4. a \in Nat /\ (q + 1) * PageSize = a + PageSize /\ a + PageSize <= n * PageSize
  <2>1. q \in Nat /\ q + 1 <= n
    BY <1>3 DEF n
  <2>2. 0 * PageSize <= q * PageSize /\ (q + 1) * PageSize <= n * PageSize
    BY <1>1, <1>3, <2>1, TimesGrows
  <2>3. 0 * PageSize = 0 /\ (q + 1) * PageSize = q * PageSize + PageSize /\ q * PageSize \in Int
    BY <1>1, <2>1
  <2> QED  BY <1>1, <2>2, <2>3
<1> HIDE DEF a
<1> DEFINE m == n * PageSize
<1>5. m \in Nat /\ Len(File(l)) = m /\ a + PageSize <= m
  BY <1>1, <1>3, <1>4
<1> HIDE DEF m
<1>6. \A i \in a + 1 .. a + PageSize : File(l)[i] \in AnyByte
  <2>1. \A i \in a + 1 .. a + PageSize : i \in 1 .. Len(File(l))
    BY <1>1, <1>4, <1>5
  <2> QED  BY <1>3, <2>1
<1> DEFINE page == SubSeq(File(l), a + 1, a + PageSize)
<1> DEFINE b == a + PageSize
<1>7. /\ page \in Seq(AnyByte)
      /\ Len(page) = IF a + 1 <= b THEN b - (a + 1) + 1 ELSE 0
      /\ \A i \in 1 .. b - (a + 1) + 1 : page[i] = File(l)[(a + 1) + i - 1]
  <2>1. a + 1 \in Int /\ b \in Int
    BY <1>1, <1>4
  <2>2. page = SubSeq(File(l), a + 1, b)
    OBVIOUS
  <2>3. \A i \in a + 1 .. b : File(l)[i] \in AnyByte
    BY <1>6
  <2> HIDE DEF b, page
  <2> QED  BY <2>1, <2>2, <2>3, SubSeqProperties
<1>8. b - (a + 1) + 1 = PageSize /\ a + 1 <= b
  BY <1>1, <1>4
<1> HIDE DEF page, b
<1>9. \A x \in 1 .. PageSize : (a + 1) + x - 1 = a + x
  BY <1>1, <1>4
<1>10. page \in Seq(AnyByte) /\ Len(page) = PageSize
       /\ \A x \in 1 .. PageSize : page[x] = File(l)[a + x]
  BY <1>7, <1>8, <1>9
<1>11. Contents[l][q] = page
  BY <1>2, <1>4 DEF page, a
<1> QED  BY <1>10, <1>11, Zenon DEF a

\* A record put together from its pages is its record.
LEMMA ExtractIs ==
  ASSUME NEW l \in Layouts, NEW id \in 0 .. l.count - 1, NEW pages,
         \A p \in PagesFor(l, id) : pages[p] = p
  PROVE  Extract(l, pages, id) = RecordOf(l, id)
<1>1. SoundLayout(l) /\ PageSize \in Nat \ {0} /\ l.bytes \in Nat \ {0}
  BY LayoutsAssumption, PageSizeAssumption DEF SoundLayout
<1>2. ASSUME NEW k \in 1 .. l.bytes
      PROVE  ByteAt(l, pages, RecordOffset(l, id) + k - 1) = Byte(id, k)
  <2> DEFINE at == RecordOffset(l, id) + k - 1
  <2> DEFINE q == at \div PageSize
  <2>1. /\ RecordOffset(l, id) \in Nat /\ k \in Int
        /\ File(l)[RecordOffset(l, id) + k] = Byte(id, k)
    BY <1>1, FileIs DEF FileHolds
  <2>2. at \in Int /\ RecordOffset(l, id) + k = at + 1
    BY <2>1
  <2>3. q \in PagesFor(l, id) /\ q \in 0 .. PageCount(l) - 1
    BY <1>1, PagesOfRecord
  <2> HIDE DEF at
  <2>4. q \in Int /\ at % PageSize \in Int /\ at = PageSize * q + (at % PageSize)
        /\ 0 <= at % PageSize /\ at % PageSize < PageSize
    BY <1>1, <2>2, DivMod
  <2>5. (at % PageSize) + 1 \in 1 .. PageSize
    BY <1>1, <2>4
  <2>6. pages[q] = q
    BY <2>3
  <2> HIDE DEF q
  <2>7. Contents[l][q][(at % PageSize) + 1] = File(l)[q * PageSize + ((at % PageSize) + 1)]
    BY <2>3, <2>5, PageIs
  <2>8. q * PageSize + ((at % PageSize) + 1) = at + 1
    BY <1>1, <2>4
  <2>9. ByteAt(l, pages, at) = Contents[l][pages[q]][(at % PageSize) + 1]
    BY DEF ByteAt, q
  <2>10. ByteAt(l, pages, at) = Byte(id, k)
    BY <2>1, <2>2, <2>6, <2>7, <2>8, <2>9
  <2> QED  BY <2>10 DEF at
<1> QED  BY <1>2 DEF Extract, RecordOf

\* So is a run of the file in memory.
LEMMA SliceIs ==
  ASSUME NEW l \in Layouts, NEW id \in 0 .. l.count - 1
  PROVE  SubSeq(File(l), RecordOffset(l, id) + 1, RecordOffset(l, id) + l.bytes) = RecordOf(l, id)
<1> DEFINE a == RecordOffset(l, id) + 1
<1> DEFINE b == RecordOffset(l, id) + l.bytes
<1> DEFINE s == SubSeq(File(l), a, b)
<1>1. SoundLayout(l) /\ l.bytes \in Nat \ {0} /\ 1 \in 1 .. l.bytes
  BY LayoutsAssumption DEF SoundLayout
<1>2. /\ RecordOffset(l, id) \in Nat
      /\ \A k \in 1 .. l.bytes : File(l)[RecordOffset(l, id) + k] = Byte(id, k)
  BY <1>1, FileIs DEF FileHolds
<1>3. a \in Int /\ b \in Int /\ a <= b /\ b - a + 1 = l.bytes
  BY <1>1, <1>2
<1>4. id \in Nat
  BY <1>1 DEF SoundLayout
<1>5. \A i \in a .. b : File(l)[i] \in AnyByte
  <2> TAKE i \in a .. b
  <2>1. i - RecordOffset(l, id) \in 1 .. l.bytes
        /\ RecordOffset(l, id) + (i - RecordOffset(l, id)) = i
    BY <1>1, <1>2
  <2>2. File(l)[i] = Byte(id, i - RecordOffset(l, id))
    BY <1>2, <2>1
  <2> QED  BY <1>1, <1>4, <2>1, <2>2 DEF AnyByte
<1>6. \A k \in 1 .. l.bytes : a + k - 1 = RecordOffset(l, id) + k
  BY <1>2
<1> HIDE DEF a, b
<1>7. /\ s \in Seq(AnyByte) /\ Len(s) = l.bytes
      /\ \A k \in 1 .. l.bytes : s[k] = File(l)[a + k - 1]
  <2>1. /\ s \in Seq(AnyByte) /\ Len(s) = IF a <= b THEN b - a + 1 ELSE 0
        /\ \A k \in 1 .. b - a + 1 : s[k] = File(l)[a + k - 1]
    BY <1>3, <1>5, SubSeqProperties
  <2> HIDE DEF s
  <2> QED  BY <1>3, <2>1
<1> HIDE DEF s
<1>8. \A k \in 1 .. l.bytes : s[k] = RecordOf(l, id)[k]
  BY <1>2, <1>6, <1>7 DEF RecordOf
<1>9. RecordOf(l, id) \in Seq(AnyByte) /\ Len(RecordOf(l, id)) = l.bytes
  BY <1>1, <1>4, RecordIs
<1>10. s = RecordOf(l, id)
  BY <1>1, <1>7, <1>8, <1>9, SeqEqual
<1> QED  BY <1>10 DEF s, a, b

\* Records are packed if one fits in a page.
LEMMA PackedIs ==
  ASSUME NEW l, SoundLayout(l)
  PROVE  Packed(l) <=> l.bytes <= PageSize
<1> DEFINE w == l.bytes
<1> DEFINE r == PageSize \div w
<1>1. w \in Nat \ {0} /\ PageSize \in Nat \ {0}
  BY PageSizeAssumption DEF SoundLayout
<1>2. Packed(l) <=> r > 0
  BY DEF Packed, RecordsPerPage
<1> HIDE DEF w
<1>3. r \in Int /\ PageSize = w * r + (PageSize % w) /\ PageSize % w \in Int
      /\ 0 <= PageSize % w /\ PageSize % w < w
  BY <1>1, DivMod
<1> HIDE DEF r
<1>4. r <= 0 => r * w <= 0 * w
  BY <1>1, <1>3, TimesGrows
<1>5. 1 <= r => 1 * w <= r * w
  BY <1>1, <1>3, TimesGrows
<1>6. 0 * w = 0 /\ 1 * w = w /\ r * w = w * r /\ w * r \in Int
  BY <1>1, <1>3
<1> QED  BY <1>1, <1>2, <1>3, <1>4, <1>5, <1>6 DEF w

\* A packed record is in one page.
LEMMA PackedInOne ==
  ASSUME NEW l, SoundLayout(l), Packed(l), NEW id \in 0 .. l.count - 1
  PROVE  PagesFor(l, id) = {FirstPage(l, id)}
<1> DEFINE r == RecordsPerPage(l)
<1> DEFINE w == l.bytes
<1> DEFINE q == id \div r
<1> DEFINE y == id % r
<1> DEFINE x == y * w
<1>1. /\ PageSize \in Nat \ {0} /\ w \in Nat \ {0} /\ id \in Nat
      /\ r \in Nat \ {0} /\ r * w <= PageSize
  BY PageSizeAssumption, PackedSizes DEF SoundLayout
<1>2. q \in Int /\ y \in Int /\ 0 <= y /\ y < r
  BY <1>1, DivMod
<1>3. RecordOffset(l, id) = q * PageSize + x
  BY DEF RecordOffset
<1> HIDE DEF r, w, q, y
<1>4. x \in Int /\ 0 <= x /\ x + w <= PageSize
  <2>1. 0 * w <= y * w /\ (y + 1) * w <= r * w
    BY <1>1, <1>2, TimesGrows
  <2>2. 0 * w = 0 /\ (y + 1) * w = y * w + w /\ y * w \in Int /\ r * w \in Int
    BY <1>1, <1>2
  <2> QED  BY <1>1, <2>1, <2>2
<1> HIDE DEF x
<1>5. (q * PageSize + x) \div PageSize = q /\ (q * PageSize + (x + w - 1)) \div PageSize = q
  <2>1. /\ x + w - 1 \in Int /\ 0 <= x + w - 1 /\ x + w - 1 < PageSize
        /\ x < PageSize
    BY <1>1, <1>4
  <2> QED  BY <1>1, <1>2, <1>4, <2>1, DivUnique
<1>6. RecordOffset(l, id) + l.bytes - 1 = q * PageSize + (x + w - 1)
  BY <1>1, <1>2, <1>3, <1>4 DEF w
<1>7. PagesFor(l, id) = q .. q /\ FirstPage(l, id) = q
  BY <1>3, <1>5, <1>6 DEF PagesFor, FirstPage
<1> QED  BY <1>2, <1>7

\* Where a large code is looked for, and where it is.
LEMMA LargeCode ==
  ASSUME NEW l, SoundLayout(l), ~Packed(l), NEW id \in 0 .. l.count - 1
  PROVE  /\ ~(CodePages(l, id) \subseteq {FirstPage(l, id)})
         /\ IF id > 0 /\ l.bytes % PageSize # 0
            THEN ~(CodePages(l, id) \subseteq PagesFor(l, id))
            ELSE CodeOffset(l, id) = RecordOffset(l, id)
<1> DEFINE w == l.bytes
<1> DEFINE n == PagesPerRecord(l)
<1> DEFINE at == id * w
<1> DEFINE a == at \div PageSize
<1> DEFINE b == (at + w - 1) \div PageSize
<1>1. /\ PageSize \in Nat \ {0} /\ w \in Nat \ {0} /\ id \in Nat
      /\ PageSize < w
  BY PageSizeAssumption, PackedIs DEF SoundLayout
<1>2. n \in Nat \ {0} /\ n * PageSize = w + ((-w) % PageSize)
  BY LargeSizes
<1>3. CodeOffset(l, id) = at /\ CodePages(l, id) = a .. b
  BY DEF CodeOffset, CodePages
<1>4. RecordOffset(l, id) = (id * n) * PageSize
  BY DEF RecordOffset
<1> HIDE DEF w, n, at
<1>5. at \in Nat /\ at = id * w
  BY <1>1 DEF at
<1>6. a \in Int /\ b \in Int /\ a + 1 <= b
  <2>1. (at + PageSize) \div PageSize <= b
    BY <1>1, <1>5, DivGrows
  <2>2. a \in Int /\ at % PageSize \in Int /\ at = PageSize * a + (at % PageSize)
        /\ 0 <= at % PageSize /\ at % PageSize < PageSize
    BY <1>1, <1>5, DivMod
  <2> DEFINE q == a + 1
  <2> DEFINE r == at % PageSize
  <2>3. q \in Int /\ r \in Int /\ 0 <= r /\ r < PageSize /\ at + PageSize = q * PageSize + r
    BY <1>1, <2>2
  <2>4. (at + PageSize) \div PageSize = q
    <3> HIDE DEF q, r
    <3>1. (q * PageSize + r) \div PageSize = q
      BY <1>1, <2>3, DivUnique
    <3> QED  BY <2>3, <3>1
  <2>5. b \in Int
    BY <1>1, <1>5, DivMod
  <2> QED  BY <2>1, <2>2, <2>4, <2>5
<1>7. ~(CodePages(l, id) \subseteq {FirstPage(l, id)})
  <2>1. a \in a .. b /\ a + 1 \in a .. b /\ a # a + 1
    BY <1>6
  <2> QED  BY <1>3, <2>1
<1>8. CASE id > 0 /\ w % PageSize # 0
  <2>1. FirstPage(l, id) = id * n
    <3>1. id * n \in Int
      BY <1>1, <1>2
    <3> DEFINE m == id * n
    <3>2. m \in Int /\ RecordOffset(l, id) = m * PageSize + 0
      BY <1>1, <1>4, <3>1
    <3> HIDE DEF m
    <3>3. (m * PageSize + 0) \div PageSize = m
      BY <1>1, <3>2, DivUnique
    <3> QED  BY <3>2, <3>3 DEF FirstPage, m
  <2>2. a < id * n
    <3>1. w < n * PageSize
      <4>1. (-w) % PageSize # 0
        <5>1. w % PageSize \in Int /\ w \div PageSize \in Int
              /\ w = PageSize * (w \div PageSize) + (w % PageSize)
              /\ 0 <= w % PageSize /\ w % PageSize < PageSize
          BY <1>1, DivMod
        <5> DEFINE c == w \div PageSize
        <5> DEFINE d == w % PageSize
        <5>2. -w = (-c - 1) * PageSize + (PageSize - d) /\ c \in Int /\ d \in Int
          BY <1>1, <5>1
        <5>3. -c - 1 \in Int /\ PageSize - d \in Int /\ 0 < PageSize - d /\ PageSize - d < PageSize
          BY <1>1, <1>8, <5>1
        <5> HIDE DEF c, d
        <5> DEFINE q == -c - 1
        <5> DEFINE r == PageSize - d
        <5>4. q \in Int /\ r \in Int /\ 0 <= r /\ r < PageSize /\ r # 0 /\ -w = q * PageSize + r
          BY <5>2, <5>3
        <5> HIDE DEF q, r
        <5>5. (q * PageSize + r) % PageSize = r
          BY <1>1, <5>4, DivUnique
        <5> QED  BY <5>4, <5>5
      <4>2. (-w) % PageSize \in Int /\ 0 <= (-w) % PageSize
        BY <1>1, DivMod
      <4> QED  BY <1>1, <1>2, <4>1, <4>2
    <3> DEFINE v == n * PageSize
    <3>2. v \in Int /\ w + 1 <= v
      BY <1>1, <1>2, <3>1
    <3>3. (w + 1) * id <= v * id
      <4> HIDE DEF v
      <4> QED  BY <1>1, <3>2, TimesGrows
    <3>4. (w + 1) * id = at + id /\ v * id = (id * n) * PageSize
      BY <1>1, <1>2, <1>5
    <3>5. at < (id * n) * PageSize
      BY <1>1, <1>2, <1>5, <1>8, <3>3, <3>4
    <3> DEFINE m == id * n
    <3>6. m \in Int /\ at < m * PageSize
      BY <1>1, <1>2, <3>5
    <3> HIDE DEF m, v
    <3>7. a \in Int /\ at % PageSize \in Int /\ at = PageSize * a + (at % PageSize)
          /\ 0 <= at % PageSize
      BY <1>1, <1>5, DivMod
    <3>8. m <= a => m * PageSize <= a * PageSize
      BY <1>1, <3>6, <3>7, TimesGrows
    <3>9. a * PageSize = PageSize * a /\ PageSize * a \in Int /\ m * PageSize \in Int
      BY <1>1, <3>6, <3>7
    <3>10. a < m
      BY <3>6, <3>7, <3>8, <3>9
    <3> QED  BY <3>10 DEF m
  <2>3. a \in CodePages(l, id)
    BY <1>3, <1>6
  <2>4. a \notin PagesFor(l, id)
    <3>1. \A p \in PagesFor(l, id) : FirstPage(l, id) <= p
      BY DEF PagesFor, FirstPage
    <3> QED  BY <1>1, <1>2, <1>6, <2>1, <2>2, <3>1
  <2>5. ~(CodePages(l, id) \subseteq PagesFor(l, id))
    BY <2>3, <2>4
  <2> QED  BY <1>7, <1>8, <2>5 DEF w
<1>9. CASE ~(id > 0 /\ w % PageSize # 0)
  <2>1. id = 0 => CodeOffset(l, id) = RecordOffset(l, id)
    <3> HAVE id = 0
    <3>1. at = 0 /\ (id * n) * PageSize = 0
      BY <1>1, <1>2, <1>5
    <3> QED  BY <1>3, <1>4, <3>1
  <2>2. w % PageSize = 0 => CodeOffset(l, id) = RecordOffset(l, id)
    <3> HAVE w % PageSize = 0
    <3>1. (-w) % PageSize = 0
      <4> DEFINE c == w \div PageSize
      <4>1. c \in Int /\ w = PageSize * c
        BY <1>1, DivMod
      <4> HIDE DEF c
      <4> DEFINE q == -c
      <4> DEFINE r == 0
      <4>2. /\ q \in Int /\ -w = q * PageSize + r
            /\ r \in Int /\ r = 0 /\ 0 <= r /\ r < PageSize
        BY <1>1, <4>1
      <4> HIDE DEF q, r
      <4>3. (q * PageSize + r) % PageSize = r
        BY <1>1, <4>2, DivUnique
      <4> QED  BY <4>2, <4>3
    <3>2. n * PageSize = w
      BY <1>1, <1>2, <3>1
    <3>3. (id * n) * PageSize = id * (n * PageSize)
      BY <1>1, <1>2
    <3> QED  BY <1>3, <1>4, <1>5, <3>2, <3>3
  <2> QED  BY <1>1, <1>7, <1>9, <2>1, <2>2 DEF w
<1> QED  BY <1>8, <1>9 DEF w

\* A code is found among the pages of its record unless it is large, not the first,
\* and no whole number of pages; in one page unless it is large.  Found, it is right.
LEMMA CodeIs ==
  ASSUME NEW l \in Layouts, NEW id \in 0 .. l.count - 1
  PROVE  /\ CodePages(l, id) \subseteq PagesFor(l, id) <=>
              ~(l.bytes > PageSize /\ id > 0 /\ l.bytes % PageSize # 0)
         /\ CodePages(l, id) \subseteq {FirstPage(l, id)} <=> ~(l.bytes > PageSize)
         /\ CodePages(l, id) \subseteq PagesFor(l, id) =>
              CodePages(l, id) = PagesFor(l, id) /\ CodeOffset(l, id) = RecordOffset(l, id)
         /\ CodePages(l, id) \subseteq {FirstPage(l, id)} => CodePages(l, id) \subseteq PagesFor(l, id)
<1>1. SoundLayout(l)
  BY LayoutsAssumption DEF SoundLayout
<1>2. Packed(l) <=> ~(l.bytes > PageSize)
  BY <1>1, PackedIs, PageSizeAssumption DEF SoundLayout
<1>3. CodeOffset(l, id) = RecordOffset(l, id) => CodePages(l, id) = PagesFor(l, id)
  BY DEF CodePages, PagesFor
<1>4. CASE Packed(l)
  <2>1. CodeOffset(l, id) = RecordOffset(l, id)
    BY <1>4 DEF CodeOffset
  <2>2. PagesFor(l, id) = {FirstPage(l, id)}
    BY <1>1, <1>4, PackedInOne
  <2> QED  BY <1>2, <1>3, <1>4, <2>1, <2>2
<1>5. CASE ~Packed(l)
  BY <1>1, <1>2, <1>3, <1>5, LargeCode
<1> QED  BY <1>4, <1>5

\* A code that is found in pages under their own numbers is the record of its id.
LEMMA FoundIs ==
  ASSUME NEW l \in Layouts, NEW id \in 0 .. l.count - 1, NEW pages,
         CodePages(l, id) \subseteq PagesFor(l, id),
         \A p \in CodePages(l, id) : pages[p] = p
  PROVE  Code(l, pages, id) = RecordOf(l, id)
<1>1. CodePages(l, id) = PagesFor(l, id) /\ CodeOffset(l, id) = RecordOffset(l, id)
  BY CodeIs
<1>2. Extract(l, pages, id) = RecordOf(l, id)
  BY <1>1, ExtractIs
<1>3. Code(l, pages, id) = Extract(l, pages, id)
  BY <1>1 DEF Code, Extract
<1> QED  BY <1>2, <1>3

-----------------------------------------------------------------------------
(* The payload readers: what holds between two steps *)

\* A cache that keeps every page under its own number.
Own(cache) == cache = [p \in DOMAIN cache |-> p] /\ DOMAIN cache \subseteq AllPages

\* Ids of records, and the pages of theirs.
OkIds(l, s)    == \A i \in 1 .. Len(s) : s[i] \in 0 .. l.count - 1
WantedOf(l, s) == UNION {PagesFor(l, s[i]) : i \in 1 .. Len(s)}

Singly == reader \in {"by page", "baseline"}

\* What a call of a baseline does not find (Unfindable).
Lost(r, l, m, s) ==
  /\ r = "baseline" /\ l.bytes > PageSize
  /\ m = "memory" \/ (s[1] > 0 /\ l.bytes % PageSize # 0)

PTypes ==
  /\ layout \in Layouts /\ medium \in {"memory", "direct"} /\ reader \in Readers
  /\ ids \in Seq(Ids) /\ status \in {"none", "busy", "ok", "error"}
  /\ reads \in [AllPages -> Nat]
  /\ request \in SUBSET AllPages /\ delivered \in SUBSET AllPages
  /\ outcome \in {"none", "busy", "ok", "error"}
  /\ status = "busy" => Len(ids) > 0
  /\ reader = "baseline" /\ status = "busy" => Len(ids) = 1 /\ OkIds(layout, ids)

\* No cache takes a page for another, and only some readers keep pages at all.
OwnPages ==
  /\ Own(queryCache) /\ Own(local)
  /\ reader \in {"by page", "coalescing"} => queryCache = NoPages

\* What has been gathered is right.
Gathered ==
  /\ batch \in Seq(Seq(AnyByte)) /\ Len(batch) <= Len(ids)
  /\ \A i \in 1 .. Len(batch) : batch[i] = RecordOf(layout, ids[i])
  /\ status = "ok" => Len(batch) = Len(ids)

\* A record in progress lacks a page and holds only its own, and what the disk was
\* asked for is what the call lacks.
InProgress ==
  /\ status = "busy" /\ medium = "direct" /\ OkIds(layout, ids) /\ Singly =>
       /\ Len(batch) < Len(ids)
       /\ ~(PagesFor(layout, ids[Len(batch) + 1]) \subseteq DOMAIN local)
       /\ DOMAIN local \subseteq PagesFor(layout, ids[Len(batch) + 1])
  /\ outcome = "busy" =>
       /\ status = "busy" /\ medium = "direct" /\ OkIds(layout, ids)
       /\ Singly => \E p \in PagesFor(layout, ids[Len(batch) + 1]) \ DOMAIN local :
                      request = {p} /\ p \notin DOMAIN queryCache
       /\ ~Singly => request = WantedOf(layout, ids) \ DOMAIN queryCache /\ request # {}

\* A page that was read is held, or on its way, unless the query has failed.
ReadsCounted ==
  /\ reader # "by page" => \A p \in AllPages : reads[p] <= 1
  /\ DOMAIN queryCache \subseteq {p \in AllPages : reads[p] > 0}
  /\ reader # "by page" /\ (status = "busy" \/ (reader # "coalescing" /\ status # "error")) =>
       \A p \in AllPages : reads[p] > 0 =>
         p \in DOMAIN queryCache \/ (outcome = "busy" /\ p \in request)
  /\ outcome = "busy" => \A p \in request : reads[p] > 0

Caused ==
  /\ status = "error" =>
       ~OkIds(layout, ids) \/ outcome = "error" \/ Lost(reader, layout, medium, ids)
  /\ status = "ok" => OkIds(layout, ids) /\ ~Lost(reader, layout, medium, ids)

Held ==
  reader = "reuse" /\ medium = "direct" /\ status = "ok" =>
    WantedOf(layout, ids) \subseteq DOMAIN queryCache

PInv == PTypes /\ OwnPages /\ Gathered /\ InProgress /\ ReadsCounted /\ Caused /\ Held

-----------------------------------------------------------------------------
(* Caches, calls and batches *)

\* The page numbers of the run.
LEMMA AllPagesAre == AllPages \subseteq Nat /\ IsFiniteSet(AllPages)
<1>1. PageLimit \in Nat
  BY LimitsAssumption
<1>2. IsFiniteSet(0 .. PageLimit - 1)
  BY <1>1, FS_Interval
<1> QED  BY <1>1, <1>2 DEF AllPages

\* No two pages of a set have the same rank.
LEMMA RankTells ==
  ASSUME NEW S, S \subseteq Nat, IsFiniteSet(S), NEW p \in S, NEW q \in S, q < p,
         Rank(p, S) = Rank(q, S)
  PROVE  FALSE
<1> DEFINE P == {x \in S : x < p}
<1> DEFINE Q == {x \in S : x < q}
<1>1. Q \in SUBSET P
  <2>1. \A x \in S : x < q => x < p
    OBVIOUS
  <2> QED  BY <2>1
<1>2. IsFiniteSet(P)
  BY FS_Subset
<1>3. Cardinality(P) = Cardinality(Q)
  BY DEF Rank
<1>4. P = Q
  BY <1>1, <1>2, <1>3, FS_Subset
<1>5. q \in P /\ q \notin Q
  OBVIOUS
<1> QED  BY <1>4, <1>5

\* The pages that come back are put under their own numbers.
LEMMA SlotIs ==
  ASSUME PTypes, Disk!AnswerPages
  PROVE  \A p \in request : Slot(p) = p
<1>1. delivered' = request /\ request \subseteq Nat /\ IsFiniteSet(request)
  <2>1. request \in SUBSET AllPages
    BY DEF PTypes
  <2> QED  BY <2>1, AllPagesAre, FS_Subset DEF Disk!AnswerPages
<1> TAKE p \in request
<1>2. \A q \in request : Rank(q, request) = Rank(p, request) => q = p
  <2> TAKE q \in request
  <2> HAVE Rank(q, request) = Rank(p, request)
  <2>1. p \in Nat /\ q \in Nat /\ (q < p \/ p < q \/ q = p)
    BY <1>1
  <2>2. CASE q < p
    BY <1>1, <2>2, RankTells
  <2>3. CASE p < q
    BY <1>1, <2>3, RankTells
  <2> QED  BY <2>1, <2>2, <2>3
<1>3. Slot(p) = CHOOSE q \in request : Rank(q, request) = Rank(p, request)
  BY <1>1 DEF Slot
<1> QED  BY <1>2, <1>3

\* A cache that takes in what the disk delivered still has every page under its number.
LEMMA WithIs ==
  ASSUME PTypes, Disk!AnswerPages, NEW cache, Own(cache)
  PROVE  Own(With(cache)) /\ DOMAIN With(cache) = DOMAIN cache \cup request
<1> DEFINE w == With(cache)
<1>1. w = [p \in DOMAIN cache \cup request |-> IF p \in request THEN Slot(p) ELSE cache[p]]
  BY DEF With
<1>2. \A p \in DOMAIN cache : cache[p] = p
  BY DEF Own
<1>3. \A p \in DOMAIN cache \cup request : (IF p \in request THEN Slot(p) ELSE cache[p]) = p
  BY <1>2, SlotIs
<1>4. w = [p \in DOMAIN cache \cup request |-> p]
  BY <1>1, <1>3, Zenon
<1> HIDE DEF w
<1>5. DOMAIN w = DOMAIN cache \cup request
  BY <1>4
<1>6. w = [p \in DOMAIN w |-> p]
  BY <1>4, <1>5
<1>7. DOMAIN w \subseteq AllPages
  BY <1>5 DEF PTypes, Own
<1>8. Own(w)
  BY <1>6, <1>7 DEF Own
<1> QED  BY <1>5, <1>8 DEF w

\* So has an empty one.
LEMMA NoPagesOwn == Own(NoPages) /\ DOMAIN NoPages = {}
<1>1. DOMAIN NoPages = {}
  BY DEF NoPages
<1>2. NoPages = [p \in DOMAIN NoPages |-> p]
  BY <1>1 DEF NoPages
<1> QED  BY <1>1, <1>2 DEF Own

\* The records a call is made for, all in the file.
LEMMA OkIdsAre ==
  ASSUME PTypes
  PROVE  /\ InRange <=> OkIds(layout, ids)
         /\ Wanted = WantedOf(layout, ids)
         /\ SoundLayout(layout) /\ layout.count \in Nat
<1>1. DOMAIN ids = 1 .. Len(ids) /\ \A i \in 1 .. Len(ids) : ids[i] \in Nat
  <2>1. ids \in Seq(Ids) /\ Ids \subseteq Nat
    BY LimitsAssumption DEF PTypes, Ids
  <2>2. DOMAIN ids = 1 .. Len(ids) /\ \A i \in 1 .. Len(ids) : ids[i] \in Ids
    BY <2>1
  <2> QED  BY <2>1, <2>2
<1>2. SoundLayout(layout) /\ layout.count \in Nat
  BY LayoutsAssumption DEF SoundLayout, PTypes
<1>3. InRange <=> OkIds(layout, ids)
  BY <1>1, <1>2 DEF InRange, InFile, OkIds
<1>4. Wanted = WantedOf(layout, ids)
  BY <1>1 DEF Wanted, WantedOf
<1> QED  BY <1>2, <1>3, <1>4

\* The pages of a record are page numbers of the run.
LEMMA PagesAre ==
  ASSUME PTypes, OkIds(layout, ids)
  PROVE  /\ \A i \in 1 .. Len(ids) : PagesFor(layout, ids[i]) \subseteq AllPages
                                     /\ PagesFor(layout, ids[i]) # {}
         /\ WantedOf(layout, ids) \subseteq AllPages
<1>1. ASSUME NEW i \in 1 .. Len(ids)
      PROVE  PagesFor(layout, ids[i]) \subseteq AllPages /\ PagesFor(layout, ids[i]) # {}
  <2>1. ids[i] \in 0 .. layout.count - 1
    BY DEF OkIds
  <2>2. SoundLayout(layout) /\ layout \in Layouts /\ PageLimit \in Nat
    BY OkIdsAre, LimitsAssumption DEF PTypes
  <2>3. PageCount(layout) <= PageLimit /\ PageCount(layout) \in Nat
    BY <2>1, <2>2, LayoutsAssumption, PagesOfRecord
  <2>4. PagesFor(layout, ids[i]) \subseteq 0 .. PageCount(layout) - 1
        /\ PagesFor(layout, ids[i]) # {}
    BY <2>1, <2>2, PagesOfRecord
  <2>5. 0 .. PageCount(layout) - 1 \subseteq AllPages
    BY <2>2, <2>3 DEF AllPages
  <2> QED  BY <2>4, <2>5
<1>2. WantedOf(layout, ids) \subseteq AllPages
  BY <1>1 DEF WantedOf
<1> QED  BY <1>1, <1>2

\* The records of a whole batch.
LEMMA BatchIs ==
  ASSUME NEW l \in Layouts, NEW s \in Seq(Ids), NEW b,
         b = [i \in 1 .. Len(s) |-> RecordOf(l, s[i])]
  PROVE  /\ b \in Seq(Seq(AnyByte)) /\ Len(b) = Len(s)
         /\ \A i \in 1 .. Len(b) : b[i] = RecordOf(l, s[i])
<1>1. SoundLayout(l)
  BY LayoutsAssumption DEF SoundLayout
<1>2. Ids \subseteq Nat
  BY LimitsAssumption DEF Ids
<1>3. \A i \in 1 .. Len(s) : RecordOf(l, s[i]) \in Seq(AnyByte)
  <2>1. \A i \in 1 .. Len(s) : s[i] \in Nat
    <3>1. \A i \in 1 .. Len(s) : s[i] \in Ids
      OBVIOUS
    <3> QED  BY <1>2, <3>1
  <2> QED  BY <1>1, <2>1, RecordIs
<1>4. b \in [1 .. Len(s) -> Seq(AnyByte)] /\ Len(s) \in Nat
  BY <1>3
<1>5. b \in Seq(Seq(AnyByte)) /\ Len(b) = Len(s)
  BY <1>4, LenProperties
<1> QED  BY <1>5

\* Gathered from a cache that holds every page, the batch is right.
LEMMA GatherIs ==
  ASSUME PTypes, OkIds(layout, ids), NEW cache, Own(cache),
         WantedOf(layout, ids) \subseteq DOMAIN cache, Gather(cache)
  PROVE  status' = "ok" /\ batch' = [i \in 1 .. Len(ids) |-> RecordOf(layout, ids[i])]
<1>1. Wanted \subseteq DOMAIN cache /\ DOMAIN ids = 1 .. Len(ids)
  BY OkIdsAre DEF PTypes
<1>2. status' = "ok" /\ batch' = [i \in 1 .. Len(ids) |-> Extract(layout, cache, ids[i])]
  BY <1>1 DEF Gather
<1>3. ASSUME NEW i \in 1 .. Len(ids)
      PROVE  Extract(layout, cache, ids[i]) = RecordOf(layout, ids[i])
  <2>1. PagesFor(layout, ids[i]) \subseteq DOMAIN cache
    BY DEF WantedOf
  <2>2. \A p \in PagesFor(layout, ids[i]) : cache[p] = p
    BY <2>1 DEF Own
  <2> QED  BY <2>2, ExtractIs DEF PTypes, OkIds
<1> QED  BY <1>2, <1>3

\* The last page of a record completes it.
LEMMA HoldIs ==
  ASSUME PTypes, Gathered, OkIds(layout, ids), Singly, medium = "direct",
         status = "busy", Len(batch) < Len(ids), UNCHANGED <<runVars, ids>>,
         NEW held, Own(held), DOMAIN held \subseteq PagesFor(layout, ids[Len(batch) + 1]),
         Hold(held)
  PROVE  /\ Own(local') /\ Gathered' /\ status' \in {"busy", "ok", "error"}
         /\ status' = "busy" => /\ Len(batch') < Len(ids)
                                /\ ~(PagesFor(layout, ids[Len(batch') + 1]) \subseteq DOMAIN local')
                                /\ DOMAIN local' \subseteq PagesFor(layout, ids[Len(batch') + 1])
         /\ status' = "ok" => ~Lost(reader, layout, medium, ids)
         /\ status' = "error" => Lost(reader, layout, medium, ids)
<1> DEFINE n == Len(batch) + 1
<1>1. n \in 1 .. Len(ids) /\ Len(batch) \in Nat /\ Len(ids) \in Nat /\ batch \in Seq(Seq(AnyByte))
  BY DEF Gathered, PTypes
<1>2. Current = ids[n]
  BY DEF Current
<1>3. ids[n] \in 0 .. layout.count - 1 /\ layout \in Layouts
  BY <1>1 DEF OkIds, PTypes
<1>4. layout' = layout /\ ids' = ids /\ reader' = reader
  BY DEF runVars
<1> HIDE DEF n
<1> DEFINE done == PagesFor(layout, ids[n]) \subseteq DOMAIN held
<1> DEFINE record == Extract(layout, held, ids[n])
<1>5. \/ ~done /\ local' = held /\ batch' = batch /\ status' = status
      \/ /\ done /\ reader # "baseline" /\ local' = NoPages /\ batch' = Append(batch, record)
         /\ status' = IF Len(batch') = Len(ids) THEN "ok" ELSE "busy"
      \/ done /\ reader = "baseline" /\ local' = NoPages /\ GatherCode(held)
  BY <1>2, Zenon DEF Hold
<1>6. done => record = RecordOf(layout, ids[n])
  <2> HAVE done
  <2>1. \A p \in PagesFor(layout, ids[n]) : held[p] = p
    BY DEF Own
  <2> QED  BY <1>3, <2>1, ExtractIs
<1> HIDE DEF done, record
<1>7. CASE ~done
  <2>1. local' = held /\ batch' = batch /\ status' = "busy"
    BY <1>5, <1>7
  <2>2. Gathered'
    <3>1. batch' \in Seq(Seq(AnyByte)) /\ Len(batch') <= Len(ids')
      BY <1>1, <1>4, <2>1 DEF Gathered
    <3>2. \A i \in 1 .. Len(batch') : batch'[i] = RecordOf(layout', ids'[i])
      BY <1>4, <2>1, Zenon DEF Gathered
    <3>3. status' # "ok"
      BY <2>1
    <3> QED  BY <3>1, <3>2, <3>3, Zenon DEF Gathered
  <2> QED  BY <1>7, <2>1, <2>2 DEF done, n
<1>8. CASE done /\ reader # "baseline"
  <2>1. /\ local' = NoPages /\ batch' = Append(batch, RecordOf(layout, ids[n]))
        /\ status' = IF Len(batch') = Len(ids) THEN "ok" ELSE "busy"
    BY <1>5, <1>6, <1>8
  <2>2. RecordOf(layout, ids[n]) \in Seq(AnyByte)
    <3>1. SoundLayout(layout) /\ ids[n] \in Nat
      BY <1>3, OkIdsAre
    <3> QED  BY <3>1, RecordIs
  <2> DEFINE rec == RecordOf(layout, ids[n])
  <2>3. rec \in Seq(AnyByte) /\ batch' = Append(batch, rec)
    BY <2>1, <2>2
  <2> HIDE DEF rec
  <2>4. /\ batch' \in Seq(Seq(AnyByte)) /\ Len(batch') = n
        /\ \A i \in 1 .. Len(batch) : batch'[i] = batch[i]
        /\ batch'[n] = rec
    BY <1>1, <2>3, AppendProperties DEF n
  <2>5. \A i \in 1 .. Len(batch') : batch'[i] = RecordOf(layout', ids'[i])
    <3> SUFFICES ASSUME NEW i \in 1 .. n PROVE batch'[i] = RecordOf(layout, ids[i])
      BY <1>4, <2>4
    <3>1. i = n \/ i \in 1 .. Len(batch)
      BY <1>1 DEF n
    <3>2. CASE i = n
      BY <2>4, <3>2 DEF rec
    <3>3. CASE i \in 1 .. Len(batch)
      BY <2>4, <3>3 DEF Gathered
    <3> QED  BY <3>1, <3>2, <3>3
  <2>6. Gathered'
    <3>1. Len(batch') <= Len(ids') /\ (status' = "ok" => Len(batch') = Len(ids'))
      BY <1>1, <1>4, <2>1, <2>4
    <3> QED  BY <2>4, <2>5, <3>1, Zenon DEF Gathered
  <2>7. status' = "busy" => n + 1 \in 1 .. Len(ids)
    BY <1>1, <2>1, <2>4
  <2>8. status' = "busy" =>
          /\ Len(batch') < Len(ids)
          /\ ~(PagesFor(layout, ids[Len(batch') + 1]) \subseteq DOMAIN local')
          /\ DOMAIN local' \subseteq PagesFor(layout, ids[Len(batch') + 1])
    <3> HAVE status' = "busy"
    <3>1. PagesFor(layout, ids[n + 1]) # {} /\ DOMAIN local' = {}
      BY <2>1, <2>7, PagesAre, NoPagesOwn
    <3>2. Len(batch') < Len(ids)
      BY <1>1, <2>4, <2>7
    <3> QED  BY <2>4, <3>1, <3>2
  <2>9. Own(local') /\ status' \in {"busy", "ok"} /\ ~Lost(reader, layout, medium, ids)
    BY <1>8, <2>1, NoPagesOwn DEF Lost
  <2> QED  BY <2>6, <2>8, <2>9
<1>9. CASE done /\ reader = "baseline"
  <2>1. Len(ids) = 1 /\ n = 1
    BY <1>1, <1>9 DEF PTypes, n
  <2>2. DOMAIN held = PagesFor(layout, ids[1])
    BY <1>9, <2>1 DEF done, n
  <2>3. \A p \in PagesFor(layout, ids[1]) : held[p] = p
    BY <2>2 DEF Own
  <2>4. GatherCode(held) /\ local' = NoPages
    BY <1>5, <1>9
  <2>5. /\ status' = IF Lost(reader, layout, medium, ids) THEN "error" ELSE "ok"
        /\ batch' = IF Lost(reader, layout, medium, ids) THEN <<>>
                                                         ELSE <<RecordOf(layout, ids[1])>>
    <3>1. CodePages(layout, ids[1]) \subseteq PagesFor(layout, ids[1]) <=>
            ~Lost(reader, layout, medium, ids)
      BY <1>3, <1>9, <2>1, CodeIs DEF Lost
    <3>2. CodePages(layout, ids[1]) \subseteq PagesFor(layout, ids[1]) =>
            Code(layout, held, ids[1]) = RecordOf(layout, ids[1])
      <4> HAVE CodePages(layout, ids[1]) \subseteq PagesFor(layout, ids[1])
      <4>1. \A p \in CodePages(layout, ids[1]) : held[p] = p
        BY <2>3
      <4> QED  BY <1>3, <2>1, <4>1, FoundIs
    <3> QED  BY <2>2, <2>4, <3>1, <3>2 DEF GatherCode
  <2>6. Gathered'
    <3>1. CASE Lost(reader, layout, medium, ids)
      <4>1. batch' \in Seq(Seq(AnyByte)) /\ Len(batch') = 0 /\ status' # "ok"
        BY <2>5, <3>1
      <4> QED  BY <1>1, <1>4, <4>1 DEF Gathered
    <3>2. CASE ~Lost(reader, layout, medium, ids)
      <4>1. <<RecordOf(layout, ids[1])>> = [i \in 1 .. 1 |-> RecordOf(layout, ids[i])]
        OBVIOUS
      <4>2. ids \in Seq(Ids) /\ batch' = [i \in 1 .. Len(ids) |-> RecordOf(layout, ids[i])]
        BY <2>1, <2>5, <3>2, <4>1 DEF PTypes
      <4>3. /\ batch' \in Seq(Seq(AnyByte)) /\ Len(batch') = Len(ids)
            /\ \A i \in 1 .. Len(batch') : batch'[i] = RecordOf(layout, ids[i])
        BY <1>3, <4>2, BatchIs
      <4> QED  BY <1>1, <1>4, <4>3 DEF Gathered
    <3> QED  BY <3>1, <3>2
  <2> QED  BY <2>4, <2>5, <2>6, NoPagesOwn
<1> QED  BY <1>7, <1>8, <1>9

-----------------------------------------------------------------------------
(* One step of a payload reader *)

\* The invariant holds at first.
LEMMA PayloadStarts == Init => PInv
<1> SUFFICES ASSUME Init PROVE PInv
  OBVIOUS
<1>1. PTypes
  <2>1. reads \in [AllPages -> Nat] /\ ids \in Seq(Ids) /\ request = {} /\ delivered = {}
    BY DEF Init, Disk!Init, NoReads
  <2> QED  BY <2>1 DEF Init, Disk!Init, PTypes
<1>2. OwnPages
  BY NoPagesOwn DEF Init, OwnPages
<1>3. Gathered
  <2>1. batch \in Seq(Seq(AnyByte)) /\ Len(batch) = 0 /\ Len(ids) = 0
    BY DEF Init
  <2> QED  BY <2>1 DEF Init, Gathered
<1>4. InProgress /\ Caused /\ Held
  BY DEF Init, Disk!Init, InProgress, Caused, Held
<1>5. ReadsCounted
  <2>1. \A p \in AllPages : reads[p] <= 1 /\ ~(reads[p] > 0)
    BY DEF Init, NoReads
  <2>2. DOMAIN queryCache = {}
    BY NoPagesOwn DEF Init
  <2>3. outcome # "busy"
    BY DEF Init, Disk!Init
  <2> QED  BY <2>1, <2>2, <2>3, Zenon DEF ReadsCounted
<1> QED  BY <1>1, <1>2, <1>3, <1>4, <1>5 DEF PInv

\* A query or a call begins.
LEMMA BeginQueryKeeps ==
  ASSUME PInv, BeginQuery PROVE PInv'
<1>1. /\ queryCache' = NoPages /\ local' = NoPages /\ reads' = NoReads
      /\ ids' = <<>> /\ batch' = <<>> /\ status' = "none"
      /\ UNCHANGED <<layout, medium, reader, request, outcome, delivered>>
  BY DEF BeginQuery, runVars, diskVars
<1>2. PTypes'
  <2>1. NoReads \in [AllPages -> Nat] /\ <<>> \in Seq(Ids)
    BY DEF NoReads
  <2> QED  BY <1>1, <2>1 DEF PInv, PTypes
<1>3. OwnPages'
  BY <1>1, NoPagesOwn DEF OwnPages
<1>4. Gathered'
  <2>1. batch' \in Seq(Seq(AnyByte)) /\ Len(batch') = 0 /\ Len(ids') = 0
    BY <1>1
  <2> QED  BY <1>1, <2>1 DEF Gathered
<1>5. outcome # "busy"
  BY DEF BeginQuery, PInv, InProgress
<1>6. InProgress' /\ Caused' /\ Held'
  BY <1>1, <1>5 DEF InProgress, Caused, Held
<1>7. ReadsCounted'
  <2>1. \A p \in AllPages : reads'[p] <= 1 /\ ~(reads'[p] > 0)
    BY <1>1 DEF NoReads
  <2>2. DOMAIN queryCache' = {}
    BY <1>1, NoPagesOwn
  <2>3. outcome' # "busy"
    BY <1>1, <1>5
  <2> QED  BY <2>1, <2>2, <2>3, Zenon DEF ReadsCounted
<1> QED  BY <1>2, <1>3, <1>4, <1>6, <1>7 DEF PInv

LEMMA ReadRecordsKeeps ==
  ASSUME PInv, ReadRecords PROVE PInv'
<1>1. /\ local' = NoPages /\ batch' = <<>> /\ status' = "busy" /\ status \in {"none", "ok"}
      /\ ids' \in Batches
      /\ UNCHANGED <<layout, medium, reader, request, outcome, delivered>>
  BY DEF ReadRecords, runVars, diskVars
<1>2. IF KeepsPages THEN queryCache' = queryCache /\ reads' = reads
                    ELSE queryCache' = NoPages /\ reads' = NoReads
  BY DEF ReadRecords
<1>3. reader \in Readers /\ SoundLayout(layout) /\ layout \in Layouts /\ layout.count \in Nat
  BY OkIdsAre DEF PInv, PTypes
<1>4. /\ ids' \in Seq(Ids) /\ Len(ids') > 0
      /\ reader = "baseline" => Len(ids') = 1 /\ OkIds(layout, ids')
  <2>1. CASE reader = "baseline"
    <3>1. PICK id \in 0 .. layout.count - 1 : ids' = <<id>>
      BY <1>1, <2>1 DEF Batches
    <3>2. OkIds(layout, ids') /\ Len(ids') = 1
      BY <1>3, <3>1 DEF OkIds
    <3>3. id \in Ids
      <4>1. layout.count <= IdLimit /\ IdLimit \in Nat
        BY <1>3, LayoutsAssumption, LimitsAssumption
      <4> QED  BY <1>3, <4>1 DEF Ids
    <3> QED  BY <3>1, <3>2, <3>3
  <2>2. CASE reader # "baseline"
    <3>1. PICK n \in 1 .. BatchLimit : ids' \in [1 .. n -> Ids]
      BY <1>1, <2>2 DEF Batches
    <3>2. n \in Nat /\ n > 0
      BY LimitsAssumption
    <3>3. ids' \in Seq(Ids) /\ Len(ids') = n
      BY <3>1, <3>2, LenProperties
    <3> QED  BY <2>2, <3>2, <3>3
  <2> QED  BY <2>1, <2>2
<1>5. outcome # "busy" /\ status # "error"
  BY <1>1 DEF PInv, InProgress
<1>6. PTypes'
  <2>1. NoReads \in [AllPages -> Nat]
    BY DEF NoReads
  <2>2. reads' \in [AllPages -> Nat]
    BY <1>2, <2>1 DEF PInv, PTypes
  <2> QED  BY <1>1, <1>4, <2>2 DEF PInv, PTypes
<1>7. OwnPages'
  BY <1>1, <1>2, NoPagesOwn DEF PInv, OwnPages, KeepsPages
<1>8. Gathered'
  <2>1. batch' \in Seq(Seq(AnyByte)) /\ Len(batch') = 0 /\ Len(ids') \in Nat
    BY <1>1, <1>4
  <2> QED  BY <1>1, <2>1 DEF Gathered
<1>9. InProgress'
  <2>1. Len(batch') = 0 /\ DOMAIN local' = {}
    BY <1>1, NoPagesOwn
  <2>2. OkIds(layout', ids') => 1 \in 1 .. Len(ids') /\ PagesFor(layout', ids'[0 + 1]) # {}
    <3>1. 1 \in 1 .. Len(ids')
      BY <1>4
    <3> HAVE OkIds(layout', ids')
    <3>2. ids'[1] \in 0 .. layout.count - 1
      BY <1>1, <3>1 DEF OkIds
    <3> QED  BY <1>1, <1>3, <3>1, <3>2, PagesOfRecord
  <2> QED  BY <1>1, <1>4, <1>5, <2>1, <2>2 DEF InProgress
<1>10. ReadsCounted'
  <2>1. CASE KeepsPages
    BY <1>1, <1>2, <1>5, <2>1 DEF PInv, ReadsCounted, KeepsPages
  <2>2. CASE ~KeepsPages
    <3>1. \A p \in AllPages : reads'[p] <= 1 /\ ~(reads'[p] > 0)
      BY <1>2, <2>2 DEF NoReads
    <3>2. DOMAIN queryCache' = {}
      BY <1>2, <2>2, NoPagesOwn
    <3>3. outcome' # "busy"
      BY <1>1, <1>5
    <3> QED  BY <3>1, <3>2, <3>3, Zenon DEF ReadsCounted
  <2> QED  BY <2>1, <2>2
<1>11. Caused' /\ Held'
  BY <1>1 DEF Caused, Held
<1> QED  BY <1>6, <1>7, <1>8, <1>9, <1>10, <1>11 DEF PInv

\* A call that ends with an error and changes nothing else.
LEMMA ErrorKeeps ==
  ASSUME PInv, status = "busy", status' = "error", batch' = <<>>,
         UNCHANGED <<layout, medium, reader, queryCache, ids, local, reads, request, delivered>>,
         \/ outcome' = "error"
         \/ /\ outcome' = outcome /\ outcome # "busy"
            /\ ~OkIds(layout, ids) \/ Lost(reader, layout, medium, ids)
  PROVE  PInv'
<1>1. outcome' # "busy" /\ outcome' \in {"none", "busy", "ok", "error"}
  BY DEF PInv, PTypes
<1>2. PTypes' /\ OwnPages'
  BY <1>1 DEF PInv, PTypes, OwnPages
<1>3. Gathered'
  <2>1. batch' \in Seq(Seq(AnyByte)) /\ Len(batch') = 0 /\ Len(ids') \in Nat
    BY DEF PInv, PTypes
  <2> QED  BY <2>1 DEF Gathered
<1>4. InProgress' /\ Held' /\ Caused'
  BY <1>1 DEF InProgress, Held, Caused
<1>5. ReadsCounted'
  BY <1>1 DEF PInv, ReadsCounted
<1> QED  BY <1>2, <1>3, <1>4, <1>5 DEF PInv

\* An id that is not in the file, and a page that cannot be read.
LEMMA FailureKeeps ==
  ASSUME PInv, RefuseId \/ ReadFails PROVE PInv'
<1>1. /\ status' = "error" /\ batch' = <<>> /\ status = "busy"
      /\ UNCHANGED <<layout, medium, reader, queryCache, ids, local, reads, request, delivered>>
  BY DEF RefuseId, ReadFails, FromDisk, Disk!AnswerError, runVars, diskVars
<1>2. \/ ~OkIds(layout, ids) /\ outcome' = outcome
      \/ outcome' = "error"
  BY OkIdsAre DEF RefuseId, ReadFails, Disk!AnswerError, diskVars, PInv
<1>3. ~OkIds(layout, ids) => outcome # "busy"
  BY DEF PInv, InProgress
<1> QED  BY <1>1, <1>2, <1>3, ErrorKeeps

\* A call that ends with all its records, asking the disk for nothing.
LEMMA SuccessKeeps ==
  ASSUME PInv, status = "busy", outcome # "busy", status' = "ok",
         batch' = [i \in 1 .. Len(ids) |-> RecordOf(layout, ids[i])],
         OkIds(layout, ids), ~Lost(reader, layout, medium, ids),
         UNCHANGED <<layout, medium, reader, queryCache, ids, local, reads, request, outcome, delivered>>,
         reader = "reuse" /\ medium = "direct" => WantedOf(layout, ids) \subseteq DOMAIN queryCache
  PROVE  PInv'
<1>1. PTypes' /\ OwnPages' /\ ReadsCounted' /\ Caused' /\ Held' /\ InProgress'
  BY DEF PInv, PTypes, OwnPages, ReadsCounted, Caused, Held, InProgress
<1>2. Gathered'
  <2>1. layout \in Layouts /\ ids \in Seq(Ids)
    BY DEF PInv, PTypes
  <2>2. /\ batch' \in Seq(Seq(AnyByte)) /\ Len(batch') = Len(ids)
        /\ \A i \in 1 .. Len(batch') : batch'[i] = RecordOf(layout, ids[i])
    BY <2>1, BatchIs
  <2>3. Len(ids) <= Len(ids)
    BY <2>1
  <2> QED  BY <2>2, <2>3 DEF Gathered
<1> QED  BY <1>1, <1>2 DEF PInv

\* A call served from memory.
LEMMA MemoryKeeps ==
  ASSUME PInv, ReadMemory \/ ReadCodeMemory PROVE PInv'
<1>1. /\ status = "busy" /\ medium = "memory"
      /\ UNCHANGED <<layout, medium, reader, queryCache, ids, local, reads, request, outcome, delivered>>
  BY DEF ReadMemory, ReadCodeMemory, runVars, diskVars
<1>2. outcome # "busy"
  BY <1>1 DEF PInv, InProgress
<1>3. CASE ReadMemory
  <2>1. OkIds(layout, ids) /\ DOMAIN ids = 1 .. Len(ids) /\ layout \in Layouts
    BY <1>3, OkIdsAre DEF ReadMemory, PInv, PTypes
  <2>2. batch' = [i \in 1 .. Len(ids) |->
                    SubSeq(File(layout), RecordOffset(layout, ids[i]) + 1,
                           RecordOffset(layout, ids[i]) + layout.bytes)]
    BY <1>3, <2>1 DEF ReadMemory
  <2>3. \A i \in 1 .. Len(ids) :
          SubSeq(File(layout), RecordOffset(layout, ids[i]) + 1,
                 RecordOffset(layout, ids[i]) + layout.bytes) = RecordOf(layout, ids[i])
    BY <2>1, SliceIs DEF OkIds
  <2>4. batch' = [i \in 1 .. Len(ids) |-> RecordOf(layout, ids[i])]
    BY <2>2, <2>3
  <2>5. status' = "ok" /\ ~Lost(reader, layout, medium, ids)
    BY <1>3 DEF ReadMemory, Lost
  <2> QED  BY <1>1, <1>2, <2>1, <2>4, <2>5, SuccessKeeps
<1>4. CASE ReadCodeMemory
  <2> DEFINE first == FirstPage(layout, ids[1])
  <2> DEFINE pages == [p \in {first} |-> p]
  <2>1. /\ reader = "baseline" /\ layout \in Layouts /\ Len(ids) = 1 /\ OkIds(layout, ids)
        /\ GatherCode(pages)
    BY <1>1, <1>4 DEF ReadCodeMemory, PInv, PTypes
  <2>2. ids[1] \in 0 .. layout.count - 1
    BY <2>1 DEF OkIds
  <2>3. DOMAIN pages = {first} /\ pages[first] = first
    OBVIOUS
  <2> HIDE DEF pages, first
  <2>4. CodePages(layout, ids[1]) \subseteq {first} <=> ~Lost(reader, layout, medium, ids)
    BY <1>1, <2>1, <2>2, CodeIs DEF Lost, first
  <2>5. CASE Lost(reader, layout, medium, ids)
    <3>1. status' = "error" /\ batch' = <<>>
      BY <2>1, <2>3, <2>4, <2>5 DEF GatherCode
    <3> QED  BY <1>1, <1>2, <2>5, <3>1, ErrorKeeps
  <2>6. CASE ~Lost(reader, layout, medium, ids)
    <3>1. CodePages(layout, ids[1]) \subseteq {first}
      BY <2>4, <2>6
    <3>2. status' = "ok" /\ batch' = <<Code(layout, pages, ids[1])>>
      BY <2>1, <2>3, <3>1 DEF GatherCode
    <3>3. Code(layout, pages, ids[1]) = RecordOf(layout, ids[1])
      <4>1. CodePages(layout, ids[1]) \subseteq PagesFor(layout, ids[1])
        BY <2>1, <2>2, <3>1, CodeIs DEF first
      <4>2. \A p \in CodePages(layout, ids[1]) : pages[p] = p
        BY <2>3, <3>1
      <4> QED  BY <2>1, <2>2, <4>1, <4>2, FoundIs
    <3>4. <<RecordOf(layout, ids[1])>> = [i \in 1 .. 1 |-> RecordOf(layout, ids[i])]
      OBVIOUS
    <3>5. batch' = [i \in 1 .. Len(ids) |-> RecordOf(layout, ids[i])]
      BY <2>1, <3>2, <3>3, <3>4
    <3> QED  BY <1>1, <1>2, <2>1, <2>6, <3>2, <3>5, SuccessKeeps
  <2> QED  BY <2>5, <2>6
<1> QED  BY <1>3, <1>4

\* Page by page there is always a page to ask for next.
LEMMA NextPageIs ==
  ASSUME PInv, PageByPage
  PROVE  /\ status = "busy" /\ medium = "direct" /\ OkIds(layout, ids) /\ Singly
         /\ Len(batch) + 1 \in 1 .. Len(ids) /\ Len(batch) < Len(ids)
         /\ NextPage \in PagesFor(layout, ids[Len(batch) + 1]) \ DOMAIN local
         /\ DOMAIN local \subseteq PagesFor(layout, ids[Len(batch) + 1])
         /\ NextPage \in AllPages
<1>1. /\ status = "busy" /\ medium = "direct" /\ OkIds(layout, ids) /\ Singly
  BY OkIdsAre DEF PageByPage, FromDisk, Singly, PInv
<1>2. /\ Len(batch) < Len(ids) /\ ~(PagesFor(layout, ids[Len(batch) + 1]) \subseteq DOMAIN local)
      /\ DOMAIN local \subseteq PagesFor(layout, ids[Len(batch) + 1])
  BY <1>1 DEF PInv, InProgress
<1>3. Len(batch) + 1 \in 1 .. Len(ids)
  BY <1>2 DEF PInv, PTypes, Gathered
<1> DEFINE S == PagesFor(layout, ids[Len(batch) + 1]) \ DOMAIN local
<1>4. S # {} /\ S \subseteq AllPages
  BY <1>1, <1>2, <1>3, PagesAre DEF PInv
<1>5. NextPage = CHOOSE p \in S : \A q \in S : p <= q
  BY DEF NextPage, Current
<1> HIDE DEF S
<1>6. \E p \in S : \A q \in S : p <= q
  <2>1. S \subseteq Nat
    BY <1>4, AllPagesAre
  <2>2. PICK p \in S : \A q \in S : ~(q < p)
    BY <1>4, <2>1, LeastNumber
  <2>3. \A q \in S : p <= q
    BY <2>1, <2>2
  <2> QED  BY <2>3
<1>7. NextPage \in S
  BY <1>5, <1>6
<1> QED  BY <1>1, <1>2, <1>3, <1>4, <1>7 DEF S

\* A page comes to a record, from the cache or from the disk.
LEMMA HoldKeeps ==
  ASSUME PInv, PageByPage, UNCHANGED <<runVars, ids>>, outcome' # "busy",
         NEW held, Own(held), DOMAIN held \subseteq PagesFor(layout, ids[Len(batch) + 1]),
         Hold(held)
  PROVE  /\ Own(local') /\ Gathered' /\ InProgress' /\ Caused' /\ Held'
         /\ status' \in {"busy", "ok", "error"}
<1>1. /\ status = "busy" /\ medium = "direct" /\ OkIds(layout, ids) /\ Singly
      /\ Len(batch) < Len(ids)
  BY NextPageIs
<1>2. layout' = layout /\ medium' = medium /\ reader' = reader /\ ids' = ids
  BY DEF runVars
<1>3. /\ Own(local') /\ Gathered' /\ status' \in {"busy", "ok", "error"}
      /\ status' = "busy" => /\ Len(batch') < Len(ids)
                             /\ ~(PagesFor(layout, ids[Len(batch') + 1]) \subseteq DOMAIN local')
                             /\ DOMAIN local' \subseteq PagesFor(layout, ids[Len(batch') + 1])
      /\ status' = "ok" => ~Lost(reader, layout, medium, ids)
      /\ status' = "error" => Lost(reader, layout, medium, ids)
  <2>1. PTypes /\ Gathered
    BY DEF PInv
  <2> QED  BY <1>1, <2>1, HoldIs
<1>4. InProgress' /\ Caused' /\ Held'
  BY <1>1, <1>2, <1>3 DEF InProgress, Caused, Held, Singly
<1> QED  BY <1>3, <1>4

\* A page taken from the cache.
LEMMA TakeCachedKeeps ==
  ASSUME PInv, TakeCached PROVE PInv'
<1> DEFINE held == [p \in DOMAIN local \cup {NextPage} |->
                      IF p = NextPage THEN queryCache[p] ELSE local[p]]
<1>1. /\ PageByPage /\ outcome # "busy" /\ NextPage \in DOMAIN queryCache /\ Hold(held)
      /\ UNCHANGED <<layout, medium, reader, queryCache, ids, reads, request, outcome, delivered>>
  BY DEF TakeCached, runVars, diskVars
<1>2. Own(held) /\ DOMAIN held = DOMAIN local \cup {NextPage}
  <2>1. /\ \A p \in DOMAIN local : local[p] = p
        /\ \A p \in DOMAIN queryCache : queryCache[p] = p
        /\ DOMAIN local \subseteq AllPages
    BY DEF PInv, OwnPages, Own
  <2>2. \A p \in DOMAIN local \cup {NextPage} :
          (IF p = NextPage THEN queryCache[p] ELSE local[p]) = p
    BY <1>1, <2>1
  <2>3. held = [p \in DOMAIN local \cup {NextPage} |-> p]
    BY <2>2, Zenon
  <2>4. DOMAIN held = DOMAIN local \cup {NextPage} /\ NextPage \in AllPages
    BY <1>1, NextPageIs
  <2> HIDE DEF held
  <2>5. held = [p \in DOMAIN held |-> p]
    BY <2>3, <2>4
  <2> QED  BY <2>1, <2>4, <2>5 DEF Own
<1> HIDE DEF held
<1>3. UNCHANGED <<runVars, ids>> /\ outcome' # "busy"
  BY <1>1 DEF runVars
<1>4. /\ Own(local') /\ Gathered' /\ InProgress' /\ Caused' /\ Held'
      /\ status' \in {"busy", "ok", "error"}
  <2>1. DOMAIN held \subseteq PagesFor(layout, ids[Len(batch) + 1])
    BY <1>1, <1>2, NextPageIs
  <2> QED  BY <1>1, <1>2, <1>3, <2>1, HoldKeeps
<1>5. status = "busy"
  BY <1>1, NextPageIs
<1>6. PTypes' /\ OwnPages'
  BY <1>1, <1>4, <1>5 DEF PInv, PTypes, OwnPages
<1>7. ReadsCounted'
  BY <1>1, <1>4, <1>5, Zenon DEF PInv, ReadsCounted
<1> QED  BY <1>4, <1>6, <1>7 DEF PInv

\* The counts after a request for pages that are not held.
LEMMA CountsOnce == 0 + 1 <= 1 /\ \A n \in Nat : ~(n > 0) => n = 0
OBVIOUS

LEMMA CountedIs ==
  ASSUME PInv, NEW S, S \subseteq AllPages, S \cap DOMAIN queryCache = {},
         status = "busy", outcome # "busy", status' = "busy", outcome' = "busy",
         reads' = Counted(S), request' = S, queryCache' = queryCache, reader' = reader
  PROVE  reads' \in [AllPages -> Nat] /\ ReadsCounted'
<1>1. reads \in [AllPages -> Nat]
  BY DEF PInv, PTypes
<1>2. \A p \in AllPages : reads'[p] = IF p \in S THEN reads[p] + 1 ELSE reads[p]
  BY DEF Counted
<1>3. reads' \in [AllPages -> Nat]
  BY <1>1 DEF Counted
<1>4. reader # "by page" =>
        /\ \A p \in S : reads[p] = 0
        /\ \A p \in AllPages : reads[p] <= 1
        /\ \A p \in AllPages : reads[p] > 0 => p \in DOMAIN queryCache
  <2> HAVE reader # "by page"
  <2>1. \A p \in AllPages : reads[p] > 0 => p \in DOMAIN queryCache
    BY DEF PInv, ReadsCounted
  <2>2. \A p \in AllPages : reads[p] <= 1
    BY DEF PInv, ReadsCounted
  <2>3. \A p \in S : reads[p] = 0
    <3> TAKE p \in S
    <3>1. p \in AllPages /\ reads[p] \in Nat /\ p \notin DOMAIN queryCache
      BY <1>1
    <3>2. ~(reads[p] > 0)
      BY <2>1, <3>1
    <3>3. reads[p] \in Nat
      BY <3>1
    <3> QED  BY <3>2, <3>3, CountsOnce, Zenon
  <2> QED  BY <2>1, <2>2, <2>3
<1>5. reader' # "by page" => \A p \in AllPages : reads'[p] <= 1
  <2> SUFFICES ASSUME reader # "by page", NEW p \in AllPages PROVE reads'[p] <= 1
    OBVIOUS
  <2>1. p \in S => reads[p] = 0
    BY <1>4, Zenon
  <2>2. reads[p] <= 1
    BY <1>4, Zenon
  <2>3. reads'[p] = IF p \in S THEN reads[p] + 1 ELSE reads[p]
    BY <1>2, Zenon
  <2>4. CASE p \in S
    <3>1. reads'[p] = 0 + 1
      BY <2>1, <2>3, <2>4, Zenon
    <3> QED  BY <3>1, CountsOnce, Zenon
  <2>5. CASE p \notin S
    <3>1. reads'[p] = reads[p]
      BY <2>3, <2>5, Zenon
    <3> QED  BY <2>2, <3>1, Zenon
  <2> QED  BY <2>4, <2>5
<1>6. DOMAIN queryCache' \subseteq {p \in AllPages : reads'[p] > 0}
  <2> SUFFICES ASSUME NEW p \in DOMAIN queryCache PROVE p \in AllPages /\ reads'[p] > 0
    OBVIOUS
  <2>1. p \in AllPages /\ reads[p] > 0 /\ p \notin S
    BY DEF PInv, ReadsCounted
  <2> QED  BY <1>2, <2>1
<1>7. reader' # "by page" =>
        \A p \in AllPages : reads'[p] > 0 =>
          p \in DOMAIN queryCache' \/ (outcome' = "busy" /\ p \in request')
  <2> SUFFICES ASSUME reader # "by page", NEW p \in AllPages, reads'[p] > 0, p \notin S
               PROVE  p \in DOMAIN queryCache
    OBVIOUS
  <2>1. reads[p] > 0
    BY <1>2
  <2> QED  BY <1>4, <2>1
<1>8. \A p \in request' : reads'[p] > 0
  BY <1>1, <1>2
<1>9. ReadsCounted'
  BY <1>5, <1>6, <1>7, <1>8, Zenon DEF ReadsCounted
<1> QED  BY <1>3, <1>9

\* Page by page: a page is asked for, and comes.
LEMMA ReadPageKeeps ==
  ASSUME PInv, ReadPage PROVE PInv'
<1>1. /\ PageByPage /\ outcome # "busy" /\ NextPage \notin DOMAIN queryCache
      /\ request' = {NextPage} /\ outcome' = "busy" /\ delivered' = {}
      /\ reads' = Counted({NextPage})
      /\ UNCHANGED <<layout, medium, reader, queryCache, ids, status, local, batch>>
  BY DEF ReadPage, Disk!Ask, runVars, callVars
<1>2. /\ status = "busy" /\ medium = "direct" /\ OkIds(layout, ids) /\ Singly
      /\ NextPage \in PagesFor(layout, ids[Len(batch) + 1]) \ DOMAIN local
      /\ NextPage \in AllPages
  BY <1>1, NextPageIs
<1>3. reads' \in [AllPages -> Nat] /\ ReadsCounted'
  <2> DEFINE S == {NextPage}
  <2>1. /\ S \subseteq AllPages /\ S \cap DOMAIN queryCache = {} /\ reads' = Counted(S)
        /\ request' = S
    BY <1>1, <1>2
  <2> HIDE DEF S
  <2> QED  BY <1>1, <1>2, <2>1, CountedIs
<1>4. PTypes' /\ OwnPages' /\ Gathered' /\ Caused' /\ Held'
  BY <1>1, <1>2, <1>3 DEF PInv, PTypes, OwnPages, Gathered, Caused, Held
<1>5. InProgress'
  BY <1>1, <1>2 DEF PInv, InProgress, Singly
<1> QED  BY <1>3, <1>4, <1>5 DEF PInv

LEMMA PageArrivesKeeps ==
  ASSUME PInv, PageArrives PROVE PInv'
<1>1. /\ PageByPage /\ Disk!AnswerPages /\ Hold(With(local))
      /\ queryCache' = IF KeepsPages THEN With(queryCache) ELSE queryCache
      /\ outcome = "busy" /\ outcome' = "ok" /\ delivered' = request /\ request' = request
      /\ UNCHANGED <<layout, medium, reader, ids, reads>>
  BY DEF PageArrives, Disk!AnswerPages, runVars
<1>2. /\ Own(With(local)) /\ DOMAIN With(local) = DOMAIN local \cup request
      /\ Own(With(queryCache)) /\ DOMAIN With(queryCache) = DOMAIN queryCache \cup request
  BY <1>1, WithIs DEF PInv, OwnPages
<1>3. UNCHANGED <<runVars, ids>> /\ outcome' # "busy"
  BY <1>1 DEF runVars
<1>4. /\ Own(local') /\ Gathered' /\ InProgress' /\ Caused' /\ Held'
      /\ status' \in {"busy", "ok", "error"}
  <2>1. DOMAIN With(local) \subseteq PagesFor(layout, ids[Len(batch) + 1])
    <3>1. \E p \in PagesFor(layout, ids[Len(batch) + 1]) \ DOMAIN local : request = {p}
      BY <1>1, NextPageIs DEF PInv, InProgress
    <3> QED  BY <1>1, <1>2, <3>1, NextPageIs
  <2> QED  BY <1>1, <1>2, <1>3, <2>1, HoldKeeps
<1>5. status = "busy" /\ Singly
  BY <1>1, NextPageIs
<1>6. PTypes'
  BY <1>1, <1>4, <1>5 DEF PInv, PTypes
<1>7. OwnPages'
  BY <1>1, <1>2, <1>4, <1>5 DEF PInv, OwnPages, KeepsPages, Singly
<1>8. ReadsCounted'
  <2>1. \A p \in request : p \in AllPages /\ reads[p] > 0
    BY <1>1 DEF PInv, PTypes, ReadsCounted
  <2>2. DOMAIN queryCache' \subseteq DOMAIN queryCache \cup request
    BY <1>1, <1>2
  <2>3. DOMAIN queryCache' \subseteq {p \in AllPages : reads'[p] > 0}
    BY <1>1, <2>1, <2>2 DEF PInv, ReadsCounted
  <2>4. reader # "by page" => queryCache' = With(queryCache)
    BY <1>1, <1>5 DEF Singly, KeepsPages
  <2>5. reader' # "by page" => \A p \in AllPages : reads'[p] > 0 => p \in DOMAIN queryCache'
    <3> SUFFICES ASSUME reader # "by page", NEW p \in AllPages, reads[p] > 0
                 PROVE  p \in DOMAIN queryCache'
      BY <1>1
    <3>1. p \in DOMAIN queryCache \/ p \in request
      BY <1>5 DEF PInv, ReadsCounted
    <3> QED  BY <1>2, <2>4, <3>1
  <2>6. reader' # "by page" => \A p \in AllPages : reads'[p] <= 1
    BY <1>1 DEF PInv, ReadsCounted
  <2> QED  BY <1>3, <2>3, <2>5, <2>6, Zenon DEF ReadsCounted
<1> QED  BY <1>4, <1>6, <1>7, <1>8 DEF PInv

\* Coalesced: the missing pages are asked for, and come.
LEMMA ReadMissingKeeps ==
  ASSUME PInv, ReadMissing PROVE PInv'
<1> DEFINE S == WantedOf(layout, ids) \ DOMAIN queryCache
<1>1. /\ status = "busy" /\ medium = "direct" /\ OkIds(layout, ids) /\ ~Singly
      /\ outcome # "busy" /\ S # {} /\ request' = S /\ outcome' = "busy" /\ delivered' = {}
      /\ reads' = Counted(S)
      /\ UNCHANGED <<layout, medium, reader, queryCache, ids, status, local, batch>>
  BY OkIdsAre DEF ReadMissing, Missing, Coalesced, FromDisk, Singly, Disk!Ask, runVars, callVars, PInv
<1>2. S \subseteq AllPages /\ S \cap DOMAIN queryCache = {}
  BY <1>1, PagesAre DEF PInv
<1>3. request' = WantedOf(layout', ids') \ DOMAIN queryCache'
  BY <1>1
<1> HIDE DEF S
<1>4. reads' \in [AllPages -> Nat] /\ ReadsCounted'
  BY <1>1, <1>2, CountedIs
<1>5. PTypes' /\ OwnPages' /\ Gathered' /\ Caused' /\ Held'
  BY <1>1, <1>2, <1>4 DEF PInv, PTypes, OwnPages, Gathered, Caused, Held
<1>6. InProgress'
  BY <1>1, <1>3 DEF InProgress, Singly
<1> QED  BY <1>4, <1>5, <1>6 DEF PInv

LEMMA PagesArriveKeeps ==
  ASSUME PInv, PagesArrive PROVE PInv'
<1> DEFINE all == IF reader = "reuse" THEN queryCache' ELSE With(NoPages)
<1>1. /\ Coalesced /\ Disk!AnswerPages /\ Gather(all)
      /\ queryCache' = IF reader = "reuse" THEN With(queryCache) ELSE queryCache
      /\ outcome = "busy" /\ outcome' = "ok" /\ delivered' = request /\ request' = request
      /\ UNCHANGED <<layout, medium, reader, ids, local, reads>>
  BY DEF PagesArrive, Disk!AnswerPages, runVars
<1>2. /\ status = "busy" /\ medium = "direct" /\ OkIds(layout, ids) /\ ~Singly
      /\ reader \in {"coalescing", "reuse"}
      /\ request = WantedOf(layout, ids) \ DOMAIN queryCache
  BY <1>1, OkIdsAre DEF Coalesced, FromDisk, Singly, PInv, InProgress
<1>3. /\ Own(With(queryCache)) /\ DOMAIN With(queryCache) = DOMAIN queryCache \cup request
      /\ Own(With(NoPages)) /\ DOMAIN With(NoPages) = request
  BY <1>1, WithIs, NoPagesOwn DEF PInv, OwnPages
<1>4. reader = "coalescing" => DOMAIN queryCache = {}
  BY NoPagesOwn DEF PInv, OwnPages
<1>5. Own(all) /\ WantedOf(layout, ids) \subseteq DOMAIN all
  <2>1. CASE reader = "reuse"
    BY <1>1, <1>2, <1>3, <2>1
  <2>2. CASE reader = "coalescing"
    BY <1>2, <1>3, <1>4, <2>2
  <2> QED  BY <1>2, <2>1, <2>2
<1> HIDE DEF all
<1>6. status' = "ok" /\ batch' = [i \in 1 .. Len(ids) |-> RecordOf(layout, ids[i])]
  BY <1>1, <1>2, <1>5, GatherIs DEF PInv
<1>7. PTypes' /\ Caused' /\ InProgress'
  <2>1. ~Lost(reader, layout, medium, ids)
    BY <1>2 DEF Lost
  <2>2. PTypes' /\ InProgress'
    BY <1>1, <1>6 DEF PInv, PTypes, InProgress
  <2>3. Caused'
    BY <1>1, <1>2, <1>6, <2>1 DEF Caused, OkIds
  <2> QED  BY <2>2, <2>3
<1>8. OwnPages'
  BY <1>1, <1>2, <1>3 DEF PInv, OwnPages
<1>9. Gathered'
  <2>1. layout \in Layouts /\ ids \in Seq(Ids)
    BY DEF PInv, PTypes
  <2>2. /\ batch' \in Seq(Seq(AnyByte)) /\ Len(batch') = Len(ids)
        /\ \A i \in 1 .. Len(batch') : batch'[i] = RecordOf(layout, ids[i])
    BY <1>6, <2>1, BatchIs
  <2>3. Len(ids) <= Len(ids)
    BY <2>1
  <2> QED  BY <1>1, <2>2, <2>3 DEF Gathered
<1>10. Held'
  BY <1>1, <1>2, <1>3 DEF Held
<1>11. ReadsCounted'
  <2>1. \A p \in request : p \in AllPages /\ reads[p] > 0
    BY <1>1 DEF PInv, PTypes, ReadsCounted
  <2>2. DOMAIN queryCache' \subseteq DOMAIN queryCache \cup request
    BY <1>1, <1>3
  <2>3. DOMAIN queryCache' \subseteq {p \in AllPages : reads'[p] > 0}
    BY <1>1, <2>1, <2>2 DEF PInv, ReadsCounted
  <2>4. \A p \in AllPages : reads'[p] <= 1
    BY <1>1, <1>2 DEF PInv, ReadsCounted
  <2>5. reader' # "coalescing" => \A p \in AllPages : reads'[p] > 0 => p \in DOMAIN queryCache'
    <3> SUFFICES ASSUME reader # "coalescing", NEW p \in AllPages, reads[p] > 0
                 PROVE  p \in DOMAIN queryCache'
      BY <1>1
    <3>1. p \in DOMAIN queryCache \/ p \in request
      BY <1>2 DEF PInv, ReadsCounted
    <3> QED  BY <1>1, <1>2, <1>3, <3>1
  <2>6. status' # "busy" /\ outcome' # "busy"
    BY <1>1, <1>6
  <2> QED  BY <2>3, <2>4, <2>5, <2>6, Zenon DEF ReadsCounted
<1> QED  BY <1>7, <1>8, <1>9, <1>10, <1>11 DEF PInv

\* Nothing is missing.
LEMMA GatherCachedKeeps ==
  ASSUME PInv, GatherCached PROVE PInv'
<1>1. /\ Coalesced /\ Missing = {} /\ Gather(queryCache)
      /\ UNCHANGED <<layout, medium, reader, queryCache, ids, local, reads, request, outcome, delivered>>
  BY DEF GatherCached, runVars, diskVars
<1>2. /\ status = "busy" /\ medium = "direct" /\ OkIds(layout, ids) /\ ~Singly
      /\ WantedOf(layout, ids) \subseteq DOMAIN queryCache
      /\ ~Lost(reader, layout, medium, ids)
  BY <1>1, OkIdsAre DEF Coalesced, FromDisk, Singly, PInv, Missing, Lost
<1>3. outcome # "busy"
  BY <1>2 DEF PInv, InProgress
<1>4. status' = "ok" /\ batch' = [i \in 1 .. Len(ids) |-> RecordOf(layout, ids[i])]
  BY <1>1, <1>2, GatherIs DEF PInv, OwnPages
<1> QED  BY <1>1, <1>2, <1>3, <1>4, SuccessKeeps

\* Nothing happens.
LEMMA PayloadStutters ==
  ASSUME PInv, UNCHANGED payloadVars PROVE PInv'
<1>1. UNCHANGED <<layout, medium, reader, queryCache, ids, status, local, batch, reads,
                  request, outcome, delivered>>
  BY DEF payloadVars, runVars, callVars, diskVars
<1>2. PTypes' /\ OwnPages'
  BY <1>1 DEF PInv, PTypes, OwnPages
<1>3. Gathered' /\ InProgress'
  BY <1>1 DEF PInv, Gathered, InProgress, Singly
<1>4. ReadsCounted' /\ Caused' /\ Held'
  BY <1>1 DEF PInv, ReadsCounted, Caused, Held
<1> QED  BY <1>2, <1>3, <1>4 DEF PInv

\* Every step keeps the invariant.
LEMMA PayloadStep == PInv /\ [Next]_payloadVars => PInv'
BY BeginQueryKeeps, ReadRecordsKeeps, FailureKeeps, MemoryKeeps, TakeCachedKeeps,
   ReadPageKeeps, PageArrivesKeeps, ReadMissingKeeps, PagesArriveKeeps, GatherCachedKeeps,
   PayloadStutters, Zenon DEF Next, Serve

\* The invariant implies the properties.
LEMMA PayloadProperties ==
  ASSUME PInv
  PROVE  TypeOK /\ RecordsAreTheirOwn /\ ErrorsHaveACause /\ EachPageReadOnce
<1>1. RecordsAreTheirOwn
  <2> SUFFICES ASSUME status = "ok" PROVE batch = [i \in DOMAIN ids |-> RecordOf(layout, ids[i])]
    BY DEF RecordsAreTheirOwn
  <2>1. batch \in Seq(Seq(AnyByte)) /\ Len(batch) = Len(ids) /\ DOMAIN ids = 1 .. Len(ids)
    BY DEF PInv, PTypes, Gathered
  <2>2. \A i \in 1 .. Len(ids) : batch[i] = RecordOf(layout, ids[i])
    BY <2>1 DEF PInv, Gathered
  <2>3. batch = [i \in 1 .. Len(ids) |-> batch[i]]
    BY <2>1
  <2> QED  BY <2>1, <2>2, <2>3
<1>2. ErrorsHaveACause
  <2>1. Unfindable <=> Lost(reader, layout, medium, ids)
    BY DEF Unfindable, Lost
  <2> QED  BY <2>1, OkIdsAre DEF PInv, Caused, ErrorsHaveACause
<1>3. EachPageReadOnce
  BY DEF PInv, ReadsCounted, EachPageReadOnce
<1>4. TypeOK
  <2>1. queryCache \in Caches /\ local \in Caches
    <3>1. ASSUME NEW cache, Own(cache) PROVE cache \in Caches
      <4> DEFINE S == DOMAIN cache
      <4>1. cache = [p \in S |-> p] /\ S \in SUBSET AllPages
        BY <3>1 DEF Own
      <4> HIDE DEF S
      <4>2. cache \in [S -> AllPages]
        BY <4>1
      <4> QED  BY <4>1, <4>2 DEF Caches
    <3> QED  BY <3>1 DEF PInv, OwnPages
  <2>2. Len(batch) <= Len(ids) /\ \A i \in DOMAIN batch : Len(batch[i]) = layout.bytes
    <3>1. DOMAIN batch = 1 .. Len(batch) /\ Len(batch) <= Len(ids)
      BY DEF PInv, Gathered
    <3>2. \A i \in 1 .. Len(batch) : ids[i] \in Nat
      <4>1. ids \in Seq(Ids) /\ Ids \subseteq Nat /\ Len(batch) \in Nat
        BY LimitsAssumption DEF PInv, PTypes, Gathered, Ids
      <4>2. Len(ids) \in Nat /\ DOMAIN ids = 1 .. Len(ids)
        BY <4>1
      <4>3. \A i \in 1 .. Len(batch) : i \in 1 .. Len(ids)
        BY <3>1, <4>1, <4>2
      <4>4. \A i \in 1 .. Len(ids) : ids[i] \in Ids
        BY <4>1
      <4> QED  BY <4>1, <4>3, <4>4, Zenon
    <3>3. SoundLayout(layout)
      BY OkIdsAre DEF PInv
    <3>4. \A i \in 1 .. Len(batch) : batch[i] = RecordOf(layout, ids[i])
      BY DEF PInv, Gathered
    <3>5. \A i \in 1 .. Len(batch) : Len(RecordOf(layout, ids[i])) = layout.bytes
      BY <3>2, <3>3, RecordIs
    <3>6. \A i \in 1 .. Len(batch) : Len(batch[i]) = layout.bytes
      BY <3>4, <3>5, Zenon
    <3> QED  BY <3>1, <3>6, Zenon
  <2> QED  BY <2>1, <2>2 DEF PInv, PTypes, TypeOK
<1> QED  BY <1>1, <1>2, <1>3, <1>4

-----------------------------------------------------------------------------
(* The theorems of the payload readers *)

\* The invariant of the payload readers.
THEOREM PayloadInvariance == Spec => []PInv
BY PayloadStarts, PayloadStep, PTL DEF Spec

\* TypeOK: the state of the readers stays typed, records as long as the layout says.
THEOREM ReadersTyped == Spec => []TypeOK
BY PayloadInvariance, PayloadProperties, PTL

\* RecordsAreTheirOwn: a call of read_records or read_code that succeeds returns the
\* bytes written for each id, for every layout and whatever the cache holds.
THEOREM RecordsReturned == Spec => []RecordsAreTheirOwn
BY PayloadInvariance, PayloadProperties, PTL

\* ErrorsHaveACause: a call of Ours fails only for an id of no record or after a failed
\* read, for every layout; one of a baseline also, and always, for a large code that is
\* padded in the file and looked for as if it was not.
THEOREM FailuresExplained == Spec => []ErrorsHaveACause
BY PayloadInvariance, PayloadProperties, PTL

\* EachPageReadOnce: a coalesced call, and a query that keeps its pages, reads no page
\* twice, and the cache holds only what was read for this query.
THEOREM PagesReadOnce == Spec => []EachPageReadOnce
BY PayloadInvariance, PayloadProperties, PTL

\* A search makes the reader take its own steps only.
LEMMA SearchCallsReader ==
  ASSUME [StagedNext]_stagedVars PROVE [Next]_payloadVars
<1>1. CASE CallReader
  BY <1>1, Zenon DEF CallReader, Next
<1>2. CASE ReaderWorks
  BY <1>2, Zenon DEF ReaderWorks, Next
<1>3. CASE UNCHANGED payloadVars
  BY <1>3
<1>4. CASE UNCHANGED stagedVars
  BY <1>4 DEF stagedVars
<1>5. ASSUME PayloadError \/ GraphFails \/ ScoreStart \/ Traverse \/ OfferChunk \/ NodeDone \/ FinishRerank
      PROVE  UNCHANGED payloadVars
  BY <1>5, Zenon DEF PayloadError, GraphFails, ScoreStart, Traverse, OfferChunk, NodeDone, FinishRerank
<1> QED  BY <1>1, <1>2, <1>3, <1>4, <1>5, Zenon DEF StagedNext

\* Under the search, whichever calls it makes, the readers keep their promises:
\* the search is given the records it asked for and reads no page twice.
THEOREM SearchReadsRight ==
  StagedSpec => [](RecordsAreTheirOwn /\ ErrorsHaveACause /\ EachPageReadOnce)
<1>1. StagedInit => Init
  BY DEF StagedInit
<1> QED  BY <1>1, PayloadStarts, PayloadStep, SearchCallsReader, PayloadProperties, PTL DEF StagedSpec

-----------------------------------------------------------------------------
(* Lists without the ids of no record *)

KeptId(id) == IF id < NodeCount THEN <<id>> ELSE <<>>

IsTrim(s, f) ==
  f = [i \in 1 .. Len(s) + 1 |-> IF i > Len(s) THEN <<>> ELSE KeptId(s[i]) \o f[i + 1]]

\* The recursion of Known has a solution, and one only.
LEMMA TrimOfEmpty == IsTrim(<<>>, [i \in 1 .. 1 |-> <<>>])
<1> DEFINE f == [i \in 1 .. 1 |-> <<>>]
<1>1. Len(<<>>) = 0 /\ 0 + 1 = 1 /\ \A i \in 1 .. 1 : i > 0
  OBVIOUS
<1>2. f = [i \in 1 .. 0 + 1 |-> IF i > 0 THEN <<>> ELSE KeptId(<<>>[i]) \o f[i + 1]]
  BY <1>1
<1> HIDE DEF f
<1>3. IsTrim(<<>>, f)
  BY <1>1, <1>2 DEF IsTrim
<1> QED  BY <1>3 DEF f

LEMMA TrimSteps ==
  ASSUME NEW s, NEW f, IsTrim(s, f), Len(s) \in Nat
  PROVE  /\ f = [i \in 1 .. Len(s) + 1 |-> f[i]]
         /\ \A i \in 1 .. Len(s) : f[i] = KeptId(s[i]) \o f[i + 1]
         /\ f[Len(s) + 1] = <<>>
<1> DEFINE n == Len(s)
<1>1. f = [i \in 1 .. n + 1 |-> IF i > n THEN <<>> ELSE KeptId(s[i]) \o f[i + 1]]
  BY Zenon DEF IsTrim
<1> HIDE DEF n
<1>2. DOMAIN f = 1 .. n + 1
      /\ \A i \in 1 .. n + 1 : f[i] = IF i > n THEN <<>> ELSE KeptId(s[i]) \o f[i + 1]
  BY <1>1, Zenon
<1>3. n \in Nat
  BY DEF n
<1>4. \A i \in 1 .. n : i \in 1 .. n + 1 /\ ~(i > n)
  BY <1>3
<1>5. n + 1 \in 1 .. n + 1 /\ n + 1 > n
  BY <1>3
<1>6. f = [i \in 1 .. n + 1 |-> f[i]]
  BY <1>1, <1>2, Zenon
<1> QED  BY <1>2, <1>4, <1>5, <1>6, Zenon DEF n

\* One id more in front of a list.
LEMMA TrimGrows ==
  ASSUME NEW s \in Seq(Nat), s # <<>>, NEW g, IsTrim(Tail(s), g)
  PROVE  IsTrim(s, [i \in 1 .. Len(s) + 1 |-> IF i = 1 THEN KeptId(Head(s)) \o g[1] ELSE g[i - 1]])
<1> DEFINE n == Len(s)
           t == Tail(s)
           f == [i \in 1 .. n + 1 |-> IF i = 1 THEN KeptId(Head(s)) \o g[1] ELSE g[i - 1]]
<1>1. n \in Nat /\ n >= 1 /\ Len(t) = n - 1 /\ Head(s) = s[1] /\ \A i \in 1 .. n - 1 : t[i] = s[i + 1]
  OBVIOUS
<1>2. /\ \A i \in 1 .. n - 1 : g[i] = KeptId(t[i]) \o g[i + 1]
      /\ g[n] = <<>>
  <2> HIDE DEF n, t
  <2>1. Len(t) \in Nat /\ Len(t) = n - 1 /\ n - 1 + 1 = n
    BY <1>1
  <2>2. IsTrim(t, g)
    BY DEF t
  <2>3. (\A i \in 1 .. Len(t) : g[i] = KeptId(t[i]) \o g[i + 1]) /\ g[Len(t) + 1] = <<>>
    BY <2>1, <2>2, TrimSteps
  <2> QED  BY <2>1, <2>3
<1> HIDE DEF n, t
<1>3. \A i \in 1 .. n + 1 : f[i] = IF i > n THEN <<>> ELSE KeptId(s[i]) \o f[i + 1]
  <2> TAKE i \in 1 .. n + 1
  <2>1. CASE i = 1
    <3>1. ~(i > n) /\ i + 1 \in 1 .. n + 1 /\ i + 1 # 1 /\ i + 1 - 1 = 1
      BY <1>1, <2>1
    <3>2. f[i] = KeptId(Head(s)) \o g[1]
      BY <2>1
    <3>3. f[i + 1] = g[i + 1 - 1]
      BY <3>1
    <3> QED  BY <1>1, <2>1, <3>1, <3>2, <3>3
  <2>2. CASE i # 1 /\ i # n + 1
    <3>1. /\ ~(i > n) /\ i + 1 \in 1 .. n + 1 /\ i + 1 # 1 /\ i - 1 \in 1 .. n - 1
          /\ i - 1 + 1 = i /\ i + 1 - 1 = i
      BY <1>1, <2>2
    <3>2. f[i] = g[i - 1] /\ f[i + 1] = g[i]
      BY <2>2, <3>1
    <3>3. g[i - 1] = KeptId(s[i]) \o g[i]
      BY <1>1, <1>2, <3>1
    <3> QED  BY <3>1, <3>2, <3>3
  <2>3. CASE i = n + 1
    <3>1. i > n /\ i # 1 /\ i - 1 = n
      BY <1>1, <2>3
    <3> QED  BY <1>2, <3>1
  <2> QED  BY <2>1, <2>2, <2>3
<1>4. DOMAIN f = 1 .. n + 1 /\ f = [i \in 1 .. n + 1 |-> f[i]]
  OBVIOUS
<1> HIDE DEF f
<1>5. f = [i \in 1 .. n + 1 |-> IF i > n THEN <<>> ELSE KeptId(s[i]) \o f[i + 1]]
  BY <1>3, <1>4
<1>6. IsTrim(s, f)
  BY <1>5, Zenon DEF IsTrim, n
<1> QED  BY <1>6 DEF f, n

LEMMA TrimExists ==
  ASSUME NEW s \in Seq(Nat)
  PROVE  \E f : IsTrim(s, f)
<1> DEFINE T == {n \in Nat : \E r \in Seq(Nat) : Len(r) = n /\ ~\E f : IsTrim(r, f)}
<1> SUFFICES ASSUME T # {} PROVE FALSE
  OBVIOUS
<1>1. PICK n \in T : \A j \in T : ~(j < n)
  BY LeastNumber
<1>2. PICK r \in Seq(Nat) : Len(r) = n /\ ~\E f : IsTrim(r, f)
  BY <1>1
<1>3. r # <<>>
  BY <1>2, TrimOfEmpty
<1>4. Tail(r) \in Seq(Nat) /\ Len(Tail(r)) = n - 1 /\ n - 1 \in Nat /\ n - 1 < n
  BY <1>2, <1>3
<1>5. PICK g : IsTrim(Tail(r), g)
  BY <1>1, <1>4
<1> QED  BY <1>2, <1>3, <1>5, TrimGrows

LEMMA TrimUnique ==
  ASSUME NEW s \in Seq(Nat), NEW f, NEW g, IsTrim(s, f), IsTrim(s, g)
  PROVE  f = g
<1> DEFINE n == Len(s)
           T == {k \in Nat : \E i \in 1 .. n + 1 : i + k = n + 1 /\ f[i] # g[i]}
<1>1. n \in Nat
  OBVIOUS
<1>2. /\ f = [i \in 1 .. n + 1 |-> f[i]] /\ g = [i \in 1 .. n + 1 |-> g[i]]
      /\ \A i \in 1 .. n : f[i] = KeptId(s[i]) \o f[i + 1] /\ g[i] = KeptId(s[i]) \o g[i + 1]
      /\ f[n + 1] = g[n + 1]
  BY <1>1, TrimSteps
<1> HIDE DEF n
<1>3. T = {}
  <2> SUFFICES ASSUME T # {} PROVE FALSE
    OBVIOUS
  <2>1. PICK k \in T : \A j \in T : ~(j < k)
    BY LeastNumber
  <2>2. PICK i \in 1 .. n + 1 : i + k = n + 1 /\ f[i] # g[i]
    BY <2>1
  <2>3. i # n + 1
    BY <1>2, <2>2
  <2>4. i \in 1 .. n /\ i + 1 \in 1 .. n + 1 /\ (i + 1) + (k - 1) = n + 1 /\ k - 1 \in Nat /\ k - 1 < k
    BY <1>1, <2>1, <2>2, <2>3
  <2>5. f[i + 1] = g[i + 1]
    BY <2>1, <2>4
  <2> QED  BY <1>2, <2>2, <2>4, <2>5
<1>4. \A i \in 1 .. n + 1 : f[i] = g[i]
  <2> TAKE i \in 1 .. n + 1
  <2>1. n + 1 - i \in Nat /\ i + (n + 1 - i) = n + 1
    BY <1>1
  <2> QED  BY <1>3, <2>1
<1> QED  BY <1>2, <1>4, Zenon

\* Known drops the ids of no record and keeps the others in place.
LEMMA KnownIs ==
  /\ Known(<<>>) = <<>>
  /\ \A s \in Seq(Nat) : s # <<>> => Known(s) = KeptId(Head(s)) \o Known(Tail(s))
<1> DEFINE Trim(s) == CHOOSE f : IsTrim(s, f)
<1>1. \A s : Known(s) = Trim(s)[1]
  BY DEF Known, IsTrim, KeptId
<1>2. \A s \in Seq(Nat) : IsTrim(s, Trim(s))
  BY TrimExists
<1> HIDE DEF Trim
<1>3. Known(<<>>) = <<>>
  <2>1. <<>> \in Seq(Nat)
    OBVIOUS
  <2>2. Trim(<<>>) = [i \in 1 .. 1 |-> <<>>]
    BY <1>2, <2>1, TrimOfEmpty, TrimUnique
  <2> QED  BY <1>1, <2>2
<1>4. ASSUME NEW s \in Seq(Nat), s # <<>>
      PROVE  Known(s) = KeptId(Head(s)) \o Known(Tail(s))
  <2> DEFINE g == Trim(Tail(s))
             f == [i \in 1 .. Len(s) + 1 |-> IF i = 1 THEN KeptId(Head(s)) \o g[1] ELSE g[i - 1]]
  <2>1. Tail(s) \in Seq(Nat) /\ 1 \in 1 .. Len(s) + 1
    BY <1>4
  <2>2. IsTrim(s, f)
    BY <1>2, <1>4, <2>1, TrimGrows
  <2>3. f[1] = KeptId(Head(s)) \o g[1]
    BY <2>1
  <2> HIDE DEF f, g
  <2>4. Trim(s) = f
    BY <1>2, <2>2, TrimUnique
  <2>5. g[1] = Known(Tail(s))
    BY <1>1 DEF g
  <2> QED  BY <1>1, <2>3, <2>4, <2>5
<1> QED  BY <1>3, <1>4

\* What is left of a list is a list of nodes.
LEMMA KnownTyped ==
  ASSUME NEW s \in Seq(Nat) PROVE Known(s) \in Seq(Nat)
<1> DEFINE T == {n \in Nat : \E r \in Seq(Nat) : Len(r) = n /\ Known(r) \notin Seq(Nat)}
<1> SUFFICES ASSUME T # {} PROVE FALSE
  OBVIOUS
<1>1. PICK n \in T : \A j \in T : ~(j < n)
  BY LeastNumber
<1>2. PICK r \in Seq(Nat) : Len(r) = n /\ Known(r) \notin Seq(Nat)
  BY <1>1
<1>3. r # <<>>
  BY <1>2, KnownIs
<1>4. Tail(r) \in Seq(Nat) /\ Len(Tail(r)) = n - 1 /\ n - 1 \in Nat /\ n - 1 < n /\ Head(r) \in Nat
  BY <1>2, <1>3
<1>5. Known(Tail(r)) \in Seq(Nat)
  BY <1>1, <1>4
<1>6. KeptId(Head(r)) \in Seq(Nat)
  BY <1>4 DEF KeptId
<1>7. KeptId(Head(r)) \o Known(Tail(r)) \in Seq(Nat)
  BY <1>5, <1>6
<1> QED  BY <1>2, <1>3, <1>7, KnownIs

-----------------------------------------------------------------------------
(* The search as one of the records in memory *)

Mem == INSTANCE SearchProofs WITH
  EarlyStopHops <- 0, Start <- 0, BatchSize <- NodeCount, batch <- survivors,
  Graphs <- {Trimmed(g) : g \in Graphs}, graph <- GraphB, links <- LinksB,
  pc <- PcB, pool <- PoolB, visited <- VisitedB, scored <- ScoredB

\* The nodes of both searches, and the lists without the ids of no record.
LEMMA NodesAre ==
  /\ Mem!Nodes = 0 .. NodeCount - 1 /\ Search!Nodes = 0 .. NodeCount - 1
  /\ \A g \in Graphs : \A n \in 0 .. NodeCount - 1 :
       g[n] \in Seq(Nat) /\ Trimmed(g)[n] = Known(g[n])
  /\ \A g \in Graphs : Trimmed(g) \in [0 .. NodeCount - 1 -> Seq(Nat)]
<1>1. Mem!Nodes = 0 .. NodeCount - 1 /\ Search!Nodes = 0 .. NodeCount - 1
  BY DEF Mem!Nodes, Search!Nodes
<1>2. ASSUME NEW g \in Graphs
      PROVE  \A n \in 0 .. NodeCount - 1 : g[n] \in Seq(Nat)
  <2>1. g \in [0 .. NodeCount - 1 -> Seq(Nat)]
    BY InputsAssumption
  <2> QED  BY <2>1
<1>3. ASSUME NEW g \in Graphs
      PROVE  Trimmed(g) = [n \in 0 .. NodeCount - 1 |-> Known(g[n])]
  BY <1>1, Zenon DEF Trimmed
<1>4. ASSUME NEW g \in Graphs
      PROVE  Trimmed(g) \in [0 .. NodeCount - 1 -> Seq(Nat)]
  <2>1. \A n \in 0 .. NodeCount - 1 : Known(g[n]) \in Seq(Nat)
    BY <1>2, KnownTyped
  <2> QED  BY <1>3, <2>1
<1>5. \A g \in Graphs : \A n \in 0 .. NodeCount - 1 : Trimmed(g)[n] = Known(g[n])
  BY <1>3
<1> QED  BY <1>1, <1>2, <1>4, <1>5

\* What SearchProofs assumes of its constants.
LEMMA MemSound ==
  /\ NodeCount \in Nat \ {0} /\ L \in Nat \ {0} /\ BeamWidth \in Nat \ {0}
  /\ 0 \in Nat /\ 0 \in 0 .. NodeCount - 1
  /\ Distances \subseteq Nat /\ {Trimmed(g) : g \in Graphs} \subseteq [Mem!Nodes -> Seq(Nat)]
  /\ Bounds \subseteq Nat \cup {Mem!Invalid}
<1>1. {Trimmed(g) : g \in Graphs} \subseteq [Mem!Nodes -> Seq(Nat)]
  BY NodesAre
<1> QED  BY <1>1, SizesAssumption, InputsAssumption DEF Mem!Invalid

\* The operators on pools are the same.
LEMMA SameOperators ==
  /\ \A p, x : Search!Insert(p, x) = Mem!Insert(p, x)
  /\ \A p, x : Search!Gate(p, x) <=> Mem!Gate(p, x)
  /\ \A p : Search!Full(p) <=> Mem!Full(p)
  /\ \A p : Search!Back(p) = Mem!Back(p)
  /\ \A S : Search!Cardinality(S) = Mem!Cardinality(S)
<1>1. \A S : Search!Cardinality(S) = Mem!Cardinality(S)
  BY DEF Search!Cardinality, Mem!Cardinality
<1>2. \A p, x : Search!Position(p, x) = Mem!Position(p, x)
  BY DEF Search!Position, Mem!Position, Search!Less, Mem!Less
<1>3. \A p, x : Search!Insert(p, x) = Mem!Insert(p, x)
  <2>1. \A p, x : Search!Place(p, x) = Mem!Place(p, x)
    BY <1>2 DEF Search!Place, Mem!Place, Search!Full, Mem!Full, Search!NewEntry, Mem!NewEntry
  <2> QED  BY <2>1 DEF Search!Insert, Mem!Insert, Search!Full, Mem!Full,
           Search!Less, Mem!Less, Search!Back, Mem!Back
<1>4. \A p, x : Search!Gate(p, x) <=> Mem!Gate(p, x)
  BY DEF Search!Gate, Mem!Gate, Search!Full, Mem!Full, Search!Back, Mem!Back, Search!Invalid, Mem!Invalid
<1> QED  BY <1>1, <1>3, <1>4 DEF Search!Full, Mem!Full, Search!Back, Mem!Back

\* The pool after n survivors are offered, from a given pool.
OfferedFrom(p, sc, sk, n) ==
  LET after[i \in 0 .. n] ==
        IF i = 0 THEN [pool |-> p, scored |-> sc, skipped |-> sk]
                 ELSE Search!Offer(after[i - 1], survivors[i])
  IN  after[n]

\* Offering is the same in both searches.
LEMMA SameOffered ==
  ASSUME PoolB = pool, ScoredB = scored
  PROVE  \A n : Search!Offered(n) = Mem!Offered(n)
<1>1. \A n : Search!Offered(n) = OfferedFrom(pool, scored, skipped, n)
  BY DEF Search!Offered, OfferedFrom
<1>2. \A n : Mem!Offered(n) = OfferedFrom(PoolB, ScoredB, skipped, n)
  BY DEF Mem!Offered, OfferedFrom, Mem!Offer, Search!Offer, Search!Insert, Mem!Insert,
     Search!Gate, Mem!Gate, Search!Full, Mem!Full, Search!Back, Mem!Back, Search!Invalid, Mem!Invalid,
     Search!Place, Mem!Place, Search!NewEntry, Mem!NewEntry, Search!Less, Mem!Less,
     Search!Position, Mem!Position
<1> QED  BY <1>1, <1>2

Phases ==
  {"start", "select", "visit", "mark", "score", "flush", "done"}

StagedInv ==
  /\ PInv /\ reader # "baseline" /\ layout.count = NodeCount
  /\ Mem!BInv
  /\ graph \in Graphs /\ links \in Seq(Nat) /\ pc \in Phases
  /\ pc = "flush" => fresh = <<>>
  /\ pc = "start" => pool = <<>>
  /\ reading /\ result = "none" => NeedsRecords /\ ids = Needed

\* After the start the mapping leaves the pool and the counters as they are.
LEMMA Begun ==
  ASSUME pc # "start"
  PROVE  PcB = pc /\ PoolB = pool /\ VisitedB = visited /\ ScoredB = scored
BY DEF PcB, PoolB, VisitedB, ScoredB

LEMMA BegunLater ==
  ASSUME pc' # "start"
  PROVE  PcB' = pc' /\ PoolB' = pool' /\ VisitedB' = visited' /\ ScoredB' = scored'
BY DEF PcB, PoolB, VisitedB, ScoredB

\* A round begins alike in both searches.
LEMMA SelectsAlike ==
  ASSUME Search!SelectFrontier, PcB = pc, PoolB = pool, PcB' = pc', PoolB' = pool',
         UNCHANGED <<GraphB, LinksB, VisitedB>>
  PROVE  Mem!SelectFrontier
<1>1. \A i : Mem!InBeam(i) <=> Search!InBeam(i)
  <2> TAKE i
  <2>1. {j \in 1 .. i : ~PoolB[j].expanded} = {j \in 1 .. i : ~pool[j].expanded}
    OBVIOUS
  <2> QED  BY <2>1, SameOperators DEF Search!InBeam, Mem!InBeam
<1> DEFINE beam == {i \in 1 .. Len(pool) : Search!InBeam(i)}
           beamB == {i \in 1 .. Len(PoolB) : Mem!InBeam(i)}
<1>2. beamB = beam
  BY <1>1
<1>3. /\ pc = "select" /\ backBefore' = dist[Search!Back(pool)]
      /\ pool' = [i \in 1 .. Len(pool) |-> [pool[i] EXCEPT !.expanded = @ \/ i \in beam]]
      /\ \E f \in [1 .. Search!Cardinality(beam) -> beam] : Search!TakeInOrder(f)
      /\ pc' = (IF beam = {} THEN "done" ELSE "visit")
      /\ UNCHANGED <<dist, marked, fresh, stall>>
  BY DEF Search!SelectFrontier, Search!input
<1>4. \A f : Search!TakeInOrder(f) => Mem!TakeInOrder(f)
  BY DEF Search!TakeInOrder, Mem!TakeInOrder
<1> HIDE DEF beam
<1>5. /\ PoolB' = [i \in 1 .. Len(PoolB) |-> [PoolB[i] EXCEPT !.expanded = @ \/ i \in beamB]]
      /\ backBefore' = dist[Mem!Back(PoolB)]
      /\ \E f \in [1 .. Mem!Cardinality(beamB) -> beamB] : Mem!TakeInOrder(f)
      /\ PcB' = (IF beamB = {} THEN "done" ELSE "visit")
  <2> HIDE DEF beamB
  <2>1. Mem!Cardinality(beamB) = Search!Cardinality(beam) /\ Mem!Back(PoolB) = Search!Back(pool)
    BY <1>2, SameOperators
  <2> QED  BY <1>2, <1>3, <1>4, <2>1
<1> QED  BY <1>3, <1>5 DEF Mem!SelectFrontier, Mem!input

\* A turn of the loops over the graph is one of the search in memory, but for the
\* ids of no record.
LEMMA TurnIsAlike ==
  ASSUME graph \in Graphs, links \in Seq(Nat), frontier \in Seq(Search!Nodes), Traverse
  PROVE  Mem!BNext \/ UNCHANGED Mem!batchedVars
<1>1. CASE Search!SelectFrontier /\ UNCHANGED <<bound, scored, skipped, survivors>>
  <2>1. pc = "select" /\ pc' \in {"done", "visit"} /\ UNCHANGED <<graph, links, visited>>
    BY <1>1 DEF Search!SelectFrontier, Search!input
  <2>2. /\ PcB = pc /\ PoolB = pool /\ VisitedB = visited /\ ScoredB = scored
        /\ PcB' = pc' /\ PoolB' = pool' /\ VisitedB' = visited' /\ ScoredB' = scored'
    BY <2>1, Begun, BegunLater
  <2>3. UNCHANGED <<GraphB, LinksB, VisitedB, ScoredB>>
    BY <1>1, <2>1, <2>2 DEF GraphB, LinksB
  <2>4. Mem!SelectFrontier
    BY <1>1, <2>2, <2>3, SelectsAlike
  <2> QED  BY <1>1, <2>3, <2>4 DEF Mem!BNext, Mem!Traverse, Mem!stats
<1>2. CASE Search!VisitNode /\ UNCHANGED <<bound, scored, skipped, survivors>>
  <2>1. /\ pc = "visit" /\ frontier # <<>> /\ links' = graph[Head(frontier)]
        /\ frontier' = Tail(frontier) /\ fresh' = <<>> /\ pc' = "mark"
        /\ UNCHANGED <<graph, dist, pool, marked, backBefore, stall, visited>>
    BY <1>2 DEF Search!VisitNode, Search!input, Search!stopVars
  <2>2. /\ PcB = pc /\ PoolB = pool /\ VisitedB = visited /\ ScoredB = scored
        /\ PcB' = pc' /\ PoolB' = pool' /\ VisitedB' = visited' /\ ScoredB' = scored'
    BY <2>1, Begun, BegunLater
  <2>3. Head(frontier) \in 0 .. NodeCount - 1
    <3>1. Head(frontier) \in Search!Nodes
      BY <2>1
    <3> QED  BY <3>1, NodesAre
  <2>4. LinksB' = GraphB[Head(frontier)] /\ GraphB' = GraphB
    <3>1. LinksB' = Known(graph[Head(frontier)])
      BY <2>1 DEF LinksB
    <3>2. GraphB[Head(frontier)] = Known(graph[Head(frontier)])
      BY <2>3, NodesAre DEF GraphB
    <3>3. GraphB' = GraphB
      BY <2>1 DEF GraphB
    <3> QED  BY <3>1, <3>2, <3>3
  <2>5. Mem!VisitNode
    BY <2>1, <2>2, <2>4 DEF Mem!VisitNode, Mem!input, Mem!stopVars
  <2> QED  BY <1>2, <2>1, <2>2, <2>5 DEF Mem!BNext, Mem!Traverse, Mem!stats
<1>3. CASE Search!MarkNeighbor /\ UNCHANGED <<bound, scored, skipped, survivors>>
  <2>1. /\ pc = "mark" /\ links # <<>> /\ Head(links) < NodeCount
        /\ fresh' = (IF Head(links) \in marked THEN fresh ELSE Append(fresh, Head(links)))
        /\ marked' = marked \cup {Head(links)} /\ links' = Tail(links)
        /\ UNCHANGED <<graph, dist, pc, pool, frontier, backBefore, stall, visited>>
    BY <1>3 DEF Search!MarkNeighbor, Search!input, Search!stopVars
  <2>2. /\ PcB = pc /\ PoolB = pool /\ VisitedB = visited /\ ScoredB = scored
        /\ PcB' = pc' /\ PoolB' = pool' /\ VisitedB' = visited' /\ ScoredB' = scored'
    BY <2>1, Begun, BegunLater
  <2>3. LinksB = <<Head(links)>> \o Known(Tail(links)) /\ Known(Tail(links)) \in Seq(Nat)
        /\ Head(links) \in Nat
    <3>1. Tail(links) \in Seq(Nat) /\ Head(links) \in Nat
      BY <2>1
    <3> QED  BY <2>1, <3>1, KnownIs, KnownTyped DEF LinksB, KeptId
  <2>4. LinksB # <<>> /\ Head(LinksB) = Head(links) /\ Tail(LinksB) = Known(Tail(links))
    BY <2>3
  <2>5. LinksB' = Tail(LinksB) /\ GraphB' = GraphB
    BY <2>1, <2>4 DEF LinksB, GraphB
  <2>6. Mem!MarkNeighbor
    BY <2>1, <2>2, <2>4, <2>5 DEF Mem!MarkNeighbor, Mem!input, Mem!stopVars
  <2> QED  BY <1>3, <2>1, <2>2, <2>6 DEF Mem!BNext, Mem!Traverse, Mem!stats
<1>4. CASE SkipMalformed /\ UNCHANGED <<bound, scored, skipped, survivors>>
  <2>1. /\ pc = "mark" /\ links # <<>> /\ Head(links) >= NodeCount /\ links' = Tail(links)
        /\ UNCHANGED <<graph, dist, pc, pool, marked, frontier, fresh, backBefore, stall, visited>>
    BY <1>4 DEF SkipMalformed, inputVars
  <2>2. LinksB' = LinksB
    <3>1. Head(links) \in Nat /\ ~(Head(links) < NodeCount) /\ Tail(links) \in Seq(Nat)
      BY <2>1, SizesAssumption
    <3>2. Known(links) = <<>> \o Known(Tail(links))
      BY <2>1, <3>1, KnownIs DEF KeptId
    <3>3. Known(links) = Known(Tail(links))
      BY <3>1, <3>2, KnownTyped
    <3> QED  BY <2>1, <3>3 DEF LinksB
  <2>3. UNCHANGED <<GraphB, PcB, PoolB, VisitedB, ScoredB>>
    BY <1>4, <2>1 DEF GraphB, PcB, PoolB, VisitedB, ScoredB
  <2> QED  BY <1>4, <2>1, <2>2, <2>3
      DEF Mem!batchedVars, Mem!gatedVars, Mem!vars, Mem!input, Mem!stopVars, Mem!stats
<1>5. CASE Search!MarkDone /\ UNCHANGED <<bound, scored, skipped, survivors>>
  <2>1. /\ pc = "mark" /\ links = <<>> /\ visited' = visited + Len(fresh)
        /\ pc' = (IF fresh = <<>> THEN "visit" ELSE "score")
        /\ UNCHANGED <<graph, dist, pool, marked, frontier, links, fresh, backBefore, stall>>
    BY <1>5 DEF Search!MarkDone, Search!input, Search!stopVars
  <2>2. /\ PcB = pc /\ PoolB = pool /\ VisitedB = visited /\ ScoredB = scored
        /\ PcB' = pc' /\ PoolB' = pool' /\ VisitedB' = visited' /\ ScoredB' = scored'
    BY <2>1, Begun, BegunLater
  <2>3. LinksB = <<>> /\ LinksB' = LinksB /\ GraphB' = GraphB
    BY <2>1, KnownIs DEF LinksB, GraphB
  <2>4. Mem!MarkDone
    BY <2>1, <2>2, <2>3 DEF Mem!MarkDone, Mem!input, Mem!stopVars
  <2> QED  BY <1>5, <2>1, <2>2, <2>4 DEF Mem!BNext, Mem!Traverse, Mem!stats
<1>6. CASE Search!FinishRound /\ UNCHANGED <<bound, scored, skipped, survivors>>
  <2>1. /\ pc = "visit" /\ frontier = <<>> /\ stall' = stall /\ pc' = "select"
        /\ UNCHANGED <<graph, dist, pool, marked, frontier, links, fresh, backBefore, visited>>
    BY <1>6 DEF Search!FinishRound, Search!Stalled, Search!input
  <2>2. /\ PcB = pc /\ PoolB = pool /\ VisitedB = visited /\ ScoredB = scored
        /\ PcB' = pc' /\ PoolB' = pool' /\ VisitedB' = visited' /\ ScoredB' = scored'
    BY <2>1, Begun, BegunLater
  <2>3. LinksB' = LinksB /\ GraphB' = GraphB
    BY <2>1 DEF LinksB, GraphB
  <2>4. Mem!FinishRound
    BY <2>1, <2>2, <2>3 DEF Mem!FinishRound, Mem!Stalled, Mem!input
  <2> QED  BY <1>6, <2>1, <2>2, <2>4 DEF Mem!BNext, Mem!Traverse, Mem!stats
<1>7. CASE Search!SkipSlot
  <2>1. /\ pc = "score" /\ fresh # <<>> /\ Search!Gate(pool, Head(fresh))
        /\ skipped' = skipped + 1 /\ survivors' = survivors /\ fresh' = Tail(fresh)
        /\ pc' = (IF Len(survivors') >= NodeCount \/ Len(fresh) = 1 THEN "flush" ELSE "score")
        /\ UNCHANGED <<graph, dist, bound, pool, marked, frontier, links, backBefore, stall, visited, scored>>
    BY <1>7 DEF Search!SkipSlot, Search!NextSlot, Search!input, Search!stopVars
  <2>2. /\ PcB = pc /\ PoolB = pool /\ VisitedB = visited /\ ScoredB = scored
        /\ PcB' = pc' /\ PoolB' = pool' /\ VisitedB' = visited' /\ ScoredB' = scored'
    BY <2>1, Begun, BegunLater
  <2>3. LinksB' = LinksB /\ GraphB' = GraphB
    BY <2>1 DEF LinksB, GraphB
  <2>4. Mem!Gate(PoolB, Head(fresh))
    BY <2>1, <2>2, SameOperators
  <2> QED  BY <2>1, <2>2, <2>3, <2>4
      DEF Mem!BNext, Mem!SkipSlot, Mem!NextSlot, Mem!input, Mem!stopVars
<1>8. CASE Search!CollectSlot
  <2>1. /\ pc = "score" /\ fresh # <<>> /\ ~Search!Gate(pool, Head(fresh))
        /\ skipped' = skipped /\ survivors' = Append(survivors, Head(fresh)) /\ fresh' = Tail(fresh)
        /\ pc' = (IF Len(survivors') >= NodeCount \/ Len(fresh) = 1 THEN "flush" ELSE "score")
        /\ UNCHANGED <<graph, dist, bound, pool, marked, frontier, links, backBefore, stall, visited, scored>>
    BY <1>8 DEF Search!CollectSlot, Search!NextSlot, Search!input, Search!stopVars
  <2>2. /\ PcB = pc /\ PoolB = pool /\ VisitedB = visited /\ ScoredB = scored
        /\ PcB' = pc' /\ PoolB' = pool' /\ VisitedB' = visited' /\ ScoredB' = scored'
    BY <2>1, Begun, BegunLater
  <2>3. LinksB' = LinksB /\ GraphB' = GraphB
    BY <2>1 DEF LinksB, GraphB
  <2>4. ~Mem!Gate(PoolB, Head(fresh))
    BY <2>1, <2>2, SameOperators
  <2> QED  BY <2>1, <2>2, <2>3, <2>4
      DEF Mem!BNext, Mem!CollectSlot, Mem!NextSlot, Mem!input, Mem!stopVars
<1> QED  BY <1>1, <1>2, <1>3, <1>4, <1>5, <1>6, <1>7, <1>8, Zenon DEF Traverse

-----------------------------------------------------------------------------
(* Every step is one of the search in memory *)

\* The smaller of two numbers is one of them.
LEMMA MinIs ==
  ASSUME NEW a \in Nat, NEW b \in Nat
  PROVE  Min({a, b}) \in {a, b} /\ Min({a, b}) <= a /\ Min({a, b}) <= b
<1>1. \E x \in {a, b} : \A y \in {a, b} : x <= y
  <2>1. CASE a <= b  BY <2>1
  <2>2. CASE ~(a <= b)  BY <2>2
  <2> QED  BY <2>1, <2>2
<1>2. Min({a, b}) \in {a, b} /\ \A y \in {a, b} : Min({a, b}) <= y
  BY <1>1 DEF Min
<1> QED  BY <1>2

\* What the invariant says of the search in memory.
LEMMA StagedTypes ==
  ASSUME StagedInv
  PROVE  /\ frontier \in Seq(Search!Nodes) /\ survivors \in Seq(Search!Nodes)
         /\ Len(survivors) \in Nat /\ Len(survivors) + Len(fresh) < NodeCount
         /\ fresh \in Seq(Search!Nodes) /\ NodeCount \in Nat \ {0}
<1>1. Mem!BTypeOK
  BY DEF StagedInv, Mem!BInv
<1>2. /\ frontier \in Seq(Mem!Nodes) /\ survivors \in Seq(Mem!Nodes) /\ fresh \in Seq(Mem!Nodes)
  BY <1>1 DEF Mem!BTypeOK
<1>3. Mem!Nodes = Search!Nodes
  BY NodesAre
<1>4. Len(survivors) + Len(fresh) < NodeCount
  BY MemSound, Mem!WaitingIsFew DEF StagedInv
<1> QED  BY <1>2, <1>3, <1>4, SizesAssumption

\* A chunk is a part of the waiting survivors.
LEMMA ChunkIs ==
  ASSUME StagedInv
  PROVE  ChunkLen \in 0 .. Len(survivors)
<1>1. ChunkSize \in Nat /\ Len(survivors) \in Nat
  BY StagedTypes, SizesAssumption
<1> QED  BY <1>1, MinIs DEF ChunkLen

\* Nothing of the search in memory changes.
LEMMA QuietStep ==
  ASSUME UNCHANGED <<loopVars, survivors>>
  PROVE  UNCHANGED Mem!batchedVars
<1>1. UNCHANGED <<graph, dist, bound, pc, pool, marked, frontier, links, fresh, backBefore, stall,
                  visited, scored, skipped, survivors>>
  BY DEF loopVars, inputVars
<1>2. UNCHANGED <<GraphB, LinksB, PcB, PoolB, VisitedB, ScoredB>>
  BY <1>1 DEF GraphB, LinksB, PcB, PoolB, VisitedB, ScoredB
<1> QED  BY <1>1, <1>2 DEF Mem!batchedVars, Mem!gatedVars, Mem!vars, Mem!input, Mem!stopVars, Mem!stats

\* A step of the disk search is a step of the search in memory, an offer of a part of
\* its batch, or nothing to it.
LEMMA StepIsAlike ==
  ASSUME StagedInv, [StagedNext]_stagedVars
  PROVE  Mem!BNext \/ UNCHANGED Mem!batchedVars \/ \E c : Mem!FlushPart(c)
<1>1. CASE CallReader \/ ReaderWorks \/ PayloadError \/ GraphFails \/ FinishRerank \/ UNCHANGED stagedVars
  <2>1. UNCHANGED <<loopVars, survivors>>
    BY <1>1 DEF CallReader, ReaderWorks, PayloadError, GraphFails, FinishRerank, stagedVars,
       searchVars, readVars
  <2> QED  BY <2>1, QuietStep
<1>2. CASE ScoreStart
  <2>1. /\ pc = "start" /\ pc' = "select" /\ pool' = StartPool /\ visited' = 1 /\ scored' = 1
        /\ UNCHANGED <<graph, dist, bound, marked, frontier, links, fresh, backBefore, stall,
                       skipped, survivors>>
    BY <1>2 DEF ScoreStart, inputVars
  <2>2. UNCHANGED <<GraphB, LinksB, PcB, PoolB, VisitedB, ScoredB>>
    BY <2>1 DEF GraphB, LinksB, PcB, PoolB, VisitedB, ScoredB, StartPool
  <2> QED  BY <2>1, <2>2
      DEF Mem!batchedVars, Mem!gatedVars, Mem!vars, Mem!input, Mem!stopVars, Mem!stats
<1>3. CASE Traverse
  BY <1>3, TurnIsAlike, StagedTypes DEF StagedInv
<1>4. CASE OfferChunk
  <2>1. /\ pc = "flush" /\ pool' = Search!Offered(ChunkLen).pool
        /\ scored' = Search!Offered(ChunkLen).scored /\ skipped' = Search!Offered(ChunkLen).skipped
        /\ survivors' = SubSeq(survivors, ChunkLen + 1, Len(survivors))
        /\ UNCHANGED <<graph, dist, bound, pc, marked, frontier, links, fresh, backBefore, stall, visited>>
    BY <1>4 DEF OfferChunk, inputVars
  <2>2. /\ PcB = pc /\ PoolB = pool /\ VisitedB = visited /\ ScoredB = scored
        /\ PcB' = pc' /\ PoolB' = pool' /\ VisitedB' = visited' /\ ScoredB' = scored'
    BY <2>1, Begun, BegunLater
  <2>3. Search!Offered(ChunkLen) = Mem!Offered(ChunkLen) /\ ChunkLen \in 0 .. Len(survivors)
    BY <2>2, SameOffered, ChunkIs
  <2>4. UNCHANGED <<GraphB, LinksB>>
    BY <2>1 DEF GraphB, LinksB
  <2>5. Mem!FlushPart(ChunkLen)
    <3> HIDE DEF ChunkLen
    <3> QED  BY <2>1, <2>2, <2>3, <2>4 DEF Mem!FlushPart, Mem!input, Mem!stopVars
  <2> QED  BY <2>5
<1>5. CASE NodeDone
  <2>1. /\ pc = "flush" /\ survivors = <<>> /\ pc' = "visit" /\ fresh = <<>>
        /\ UNCHANGED <<graph, dist, bound, pool, marked, frontier, links, fresh, backBefore, stall,
                       visited, scored, skipped, survivors>>
    BY <1>5 DEF NodeDone, inputVars, readVars, StagedInv
  <2>2. /\ PcB = pc /\ PoolB = pool /\ VisitedB = visited /\ ScoredB = scored
        /\ PcB' = pc' /\ PoolB' = pool' /\ VisitedB' = visited' /\ ScoredB' = scored'
    BY <2>1, Begun, BegunLater
  <2>3. UNCHANGED <<GraphB, LinksB>>
    BY <2>1 DEF GraphB, LinksB
  <2>4. LET end == Mem!Offered(Len(survivors))
        IN  end.pool = PoolB /\ end.scored = ScoredB /\ end.skipped = skipped
    BY <2>1, MemSound, Mem!NothingLate DEF Mem!Late
  <2>5. Mem!FlushDistanceBatch
    BY <2>1, <2>2, <2>3, <2>4 DEF Mem!FlushDistanceBatch, Mem!input, Mem!stopVars
  <2> QED  BY <2>5 DEF Mem!BNext
<1> QED  BY <1>1, <1>2, <1>3, <1>4, <1>5, Zenon DEF StagedNext

\* So the invariant of the search in memory is kept, and a part offered is not seen by
\* the search it is compared with.
LEMMA MemKept ==
  ASSUME StagedInv, [StagedNext]_stagedVars
  PROVE  Mem!BInv' /\ [Mem!Legacy!GNext]_(Mem!Legacy!gatedVars)
<1>1. Mem!BInv
  BY DEF StagedInv
<1>2. CASE \E c : Mem!FlushPart(c)
  <2>1. PICK c : Mem!FlushPart(c)
    BY <1>2
  <2>2. Mem!BInv'
    BY <1>1, <2>1, MemSound, Mem!PartKeepsInv
  <2>3. UNCHANGED Mem!Legacy!gatedVars
    BY <1>1, <2>1, MemSound, Mem!PartIsNotSeen
  <2> QED  BY <2>2, <2>3
<1>3. CASE Mem!BNext \/ UNCHANGED Mem!batchedVars
  <2>1. Mem!BInv'
    BY <1>1, <1>3, MemSound, Mem!BatchedStepKeepsInv
  <2>2. CASE Mem!Traverse /\ UNCHANGED <<bound, Mem!stats, survivors>>
    BY <1>1, <2>1, <2>2, MemSound, Mem!LegacyTraverses
  <2>3. CASE Mem!SkipSlot
    BY <1>1, <2>1, <2>3, MemSound, Mem!LegacySkips
  <2>4. CASE Mem!CollectSlot
    BY <1>1, <2>1, <2>4, MemSound, Mem!LegacyOffers
  <2>5. CASE Mem!FlushDistanceBatch \/ UNCHANGED Mem!batchedVars
    BY <1>1, <2>1, <2>5, MemSound, Mem!LegacyStutters
  <2> QED  BY <1>3, <2>1, <2>2, <2>3, <2>4, <2>5 DEF Mem!BNext
<1> QED  BY <1>2, <1>3, StepIsAlike

-----------------------------------------------------------------------------
(* The invariant of the disk search *)

\* A search asks for what it needs, and asks for nothing else meanwhile.
Calls == reading /\ result = "none" => NeedsRecords /\ ids = Needed

\* The layout, the medium and the reader do not change, nor the ids during a call.
LEMMA RunFixed ==
  ASSUME [StagedNext]_stagedVars
  PROVE  UNCHANGED <<layout, medium, reader>>
<1>1. UNCHANGED runVars
  <2>1. CASE CallReader
    BY <2>1 DEF CallReader, ReadRecords
  <2>2. CASE ReaderWorks
    <3>1. Serve
      BY <2>2 DEF ReaderWorks
    <3> QED  BY <3>1, Zenon DEF Serve, RefuseId, ReadMemory, ReadCodeMemory, ReadFails,
               TakeCached, ReadPage, PageArrives, ReadMissing, PagesArrive, GatherCached
  <2>3. CASE UNCHANGED payloadVars
    BY <2>3 DEF payloadVars
  <2>4. CASE UNCHANGED stagedVars
    BY <2>4 DEF stagedVars, payloadVars
  <2>5. ASSUME PayloadError \/ GraphFails \/ ScoreStart \/ Traverse \/ OfferChunk \/ NodeDone \/ FinishRerank
        PROVE  UNCHANGED payloadVars
    BY <2>5, Zenon DEF PayloadError, GraphFails, ScoreStart, Traverse, OfferChunk, NodeDone, FinishRerank
  <2> QED  BY <2>1, <2>2, <2>3, <2>4, <2>5, Zenon DEF StagedNext
<1> QED  BY <1>1 DEF runVars

LEMMA IdsFixed ==
  ASSUME Serve PROVE ids' = ids
BY Zenon DEF Serve, RefuseId, ReadMemory, ReadCodeMemory, ReadFails, TakeCached, ReadPage,
   PageArrives, ReadMissing, PagesArrive, GatherCached, callVars

\* What the search needs depends on its own state only.
LEMMA NeedsFixed ==
  ASSUME UNCHANGED <<pc, pool, survivors>>
  PROVE  NeedsRecords' = NeedsRecords /\ Needed' = Needed
BY DEF NeedsRecords, Needed, RerankIds, RerankCount, ChunkLen

\* A call is made for what the search needs until it returns.
LEMMA CallsKept ==
  ASSUME StagedInv, [StagedNext]_stagedVars
  PROVE  Calls'
<1>1. CASE CallReader
  <2>1. UNCHANGED <<pc, pool, survivors>> /\ NeedsRecords /\ ids' = Needed
    BY <1>1 DEF CallReader, loopVars
  <2> QED  BY <2>1, NeedsFixed DEF Calls
<1>2. CASE ReaderWorks
  <2>1. UNCHANGED <<pc, pool, survivors, reading, result>> /\ ids' = ids
    BY <1>2, IdsFixed DEF ReaderWorks, searchVars, loopVars, readVars
  <2> QED  BY <2>1, NeedsFixed DEF Calls, StagedInv
<1>3. CASE UNCHANGED stagedVars
  <2>1. UNCHANGED <<pc, pool, survivors, reading, result, ids>>
    BY <1>3 DEF stagedVars, searchVars, loopVars, readVars, payloadVars, callVars
  <2> QED  BY <2>1, NeedsFixed DEF Calls, StagedInv
<1>4. CASE PayloadError \/ ScoreStart \/ OfferChunk \/ FinishRerank \/ GraphFails
  BY <1>4 DEF PayloadError, ScoreStart, OfferChunk, FinishRerank, GraphFails, Calls
<1>5. CASE Traverse
  <2>1. ~reading /\ reading' = reading
    BY <1>5 DEF Traverse
  <2> QED  BY <2>1 DEF Calls
<1>6. CASE NodeDone
  <2>1. result = "none" /\ pc = "flush" /\ survivors = <<>> /\ reading' = reading
    BY <1>6 DEF NodeDone, readVars
  <2>2. ~reading
    BY <2>1 DEF StagedInv, NeedsRecords
  <2> QED  BY <2>1, <2>2 DEF Calls
<1> QED  BY <1>1, <1>2, <1>3, <1>4, <1>5, <1>6, Zenon DEF StagedNext

\* The place in the loops, the list in hand and the empty rest of a node's neighbours.
LEMMA PlaceKept ==
  ASSUME StagedInv, [StagedNext]_stagedVars
  PROVE  /\ graph' \in Graphs /\ links' \in Seq(Nat) /\ pc' \in Phases
         /\ pc' = "flush" => fresh' = <<>>
         /\ pc' = "start" => pool' = <<>>
<1>1. /\ graph \in Graphs /\ links \in Seq(Nat) /\ pc \in Phases
      /\ pc = "flush" => fresh = <<>>
      /\ pc = "start" => pool = <<>>
  BY DEF StagedInv
<1>2. CASE CallReader \/ ReaderWorks \/ PayloadError \/ GraphFails \/ FinishRerank \/ UNCHANGED stagedVars
  <2>1. UNCHANGED <<graph, links, pc, fresh, pool>>
    BY <1>2 DEF CallReader, ReaderWorks, PayloadError, GraphFails, FinishRerank, stagedVars,
       searchVars, loopVars, inputVars
  <2> QED  BY <1>1, <2>1
<1>3. CASE ScoreStart
  BY <1>1, <1>3 DEF ScoreStart, inputVars, Phases
<1>4. CASE OfferChunk
  <2>1. pc' = "flush" /\ pc = "flush" /\ UNCHANGED <<graph, links, fresh>>
    BY <1>4 DEF OfferChunk, inputVars
  <2> QED  BY <1>1, <2>1
<1>5. CASE NodeDone
  <2>1. pc' = "visit" /\ UNCHANGED <<graph, links, fresh>>
    BY <1>5 DEF NodeDone, inputVars
  <2> QED  BY <1>1, <2>1 DEF Phases
<1>6. CASE Traverse
  <2>1. CASE Search!SelectFrontier
    <3>1. pc' \in {"done", "visit"} /\ UNCHANGED <<graph, links>>
      BY <2>1 DEF Search!SelectFrontier, Search!input
    <3> QED  BY <1>1, <3>1 DEF Phases
  <2>2. CASE Search!VisitNode
    <3>1. pc' = "mark" /\ graph' = graph /\ frontier # <<>> /\ links' = graph[Head(frontier)]
      BY <2>2 DEF Search!VisitNode, Search!input
    <3>2. Head(frontier) \in Search!Nodes
      BY <3>1, StagedTypes
    <3>3. graph[Head(frontier)] \in Seq(Nat)
      BY <1>1, <3>2, NodesAre
    <3> QED  BY <1>1, <3>1, <3>3 DEF Phases
  <2>3. CASE Search!MarkNeighbor \/ SkipMalformed
    <3>1. ASSUME NEW l \in Seq(Nat), l # <<>> PROVE Tail(l) \in Seq(Nat)
      BY <3>1
    <3>2. pc = "mark" /\ pc' = pc /\ graph' = graph /\ links # <<>> /\ links' = Tail(links)
      BY <2>3 DEF Search!MarkNeighbor, SkipMalformed, Search!input, inputVars
    <3>3. pc' \in Phases /\ pc' # "flush" /\ pc' # "start"
      BY <3>2 DEF Phases
    <3> QED  BY <1>1, <3>1, <3>2, <3>3
  <2>4. CASE Search!MarkDone \/ Search!FinishRound
    <3>1. pc' \in {"visit", "score", "select", "done"} /\ UNCHANGED <<graph, links>>
      BY <2>4 DEF Search!MarkDone, Search!FinishRound, Search!input
    <3> QED  BY <1>1, <3>1 DEF Phases
  <2>5. CASE Search!SkipSlot \/ Search!CollectSlot
    <3>1. /\ fresh # <<>> /\ fresh' = Tail(fresh) /\ UNCHANGED <<graph, links>>
          /\ pc' = (IF Len(survivors') >= NodeCount \/ Len(fresh) = 1 THEN "flush" ELSE "score")
          /\ survivors' = survivors \/ survivors' = Append(survivors, Head(fresh))
      BY <2>5 DEF Search!SkipSlot, Search!CollectSlot, Search!NextSlot, Search!input
    <3>2. /\ survivors \in Seq(Search!Nodes) /\ fresh \in Seq(Search!Nodes)
          /\ Len(survivors) + Len(fresh) < NodeCount /\ NodeCount \in Nat
      BY StagedTypes
    <3>3. Len(fresh) >= 1 /\ Len(fresh) \in Nat /\ Len(survivors) \in Nat
      BY <3>1, <3>2
    <3>4. Len(survivors') <= Len(survivors) + 1 /\ Len(survivors') \in Nat
      BY <3>1, <3>2, <3>3
    <3>5. ~(Len(survivors') >= NodeCount)
      BY <3>2, <3>3, <3>4
    <3>6. Len(fresh) = 1 => Tail(fresh) = <<>>
      <4> SUFFICES ASSUME Len(fresh) = 1 PROVE Tail(fresh) = <<>>
        OBVIOUS
      <4>1. Tail(fresh) \in Seq(Search!Nodes) /\ Len(Tail(fresh)) = 0
        BY <3>1, <3>2
      <4> QED  BY <4>1, EmptySeq
    <3> QED  BY <1>1, <3>1, <3>5, <3>6 DEF Phases
  <2> QED  BY <1>6, <2>1, <2>2, <2>3, <2>4, <2>5, Zenon DEF Traverse
<1> QED  BY <1>2, <1>3, <1>4, <1>5, <1>6, Zenon DEF StagedNext

\* Every step keeps the invariant, which holds at first.
LEMMA StagedStep ==
  ASSUME StagedInv, [StagedNext]_stagedVars
  PROVE  StagedInv'
<1>1. PInv'
  BY SearchCallsReader, PayloadStep DEF StagedInv
<1>2. reader' # "baseline" /\ layout'.count = NodeCount
  BY RunFixed DEF StagedInv
<1> QED  BY <1>1, <1>2, MemKept, PlaceKept, CallsKept DEF StagedInv, Calls

LEMMA StagedStarts ==
  ASSUME StagedInit
  PROVE  StagedInv /\ Mem!BInit
<1>1. /\ Init /\ reader # "baseline" /\ layout.count = NodeCount
      /\ graph \in Graphs /\ dist \in [Search!Nodes -> Distances] /\ bound \in [Search!Nodes -> Bounds]
      /\ pc = "start" /\ pool = <<>> /\ marked = {0} /\ frontier = <<>> /\ links = <<>> /\ fresh = <<>>
      /\ backBefore = 0 /\ stall = 0 /\ visited = 0 /\ scored = 0 /\ skipped = 0
      /\ survivors = <<>> /\ reading = FALSE
  BY DEF StagedInit, SearchInit
<1>2. /\ GraphB \in {Trimmed(g) : g \in Graphs} /\ LinksB = <<>> /\ PcB = "select"
      /\ PoolB = <<Mem!NewEntry(0)>> /\ VisitedB = 1 /\ ScoredB = 1
  BY <1>1, KnownIs
  DEF GraphB, LinksB, PcB, PoolB, VisitedB, ScoredB, StartPool, Mem!NewEntry
<1>3. Mem!BInit
  BY <1>1, <1>2, NodesAre DEF Mem!BInit, Mem!GInit, Mem!Init
<1>4. Mem!BInv
  BY <1>3, MemSound, Mem!BInitHolds
<1> QED  BY <1>1, <1>3, <1>4, PayloadStarts DEF StagedInv, Phases

\* The invariant of the disk search: that of its reader, that of the search in memory,
\* and that a call is for what the search needs.
THEOREM StagedInvariance == StagedSpec => []StagedInv
BY StagedStarts, StagedStep, PTL DEF StagedSpec

-----------------------------------------------------------------------------
(* The comparison with the gated search *)

\* The search in memory of both modules is the same one.
LEMMA SameLegacy ==
  /\ Mem!Legacy!GInit => Batched!Legacy!GInit
  /\ [Mem!Legacy!GNext]_(Mem!Legacy!gatedVars) => [Batched!Legacy!GNext]_(Batched!Legacy!gatedVars)
<1>1. Mem!Legacy!GInit => Batched!Legacy!GInit
  BY Zenon DEF
     Mem!Offered, Batched!Offered, Mem!Offer, Batched!Offer, Mem!Gate, Batched!Gate,
     Mem!Insert, Batched!Insert, Mem!Full, Batched!Full, Mem!Back, Batched!Back, Mem!Invalid,
     Batched!Invalid, Mem!Place, Batched!Place, Mem!NewEntry, Batched!NewEntry, Mem!Less,
     Batched!Less, Mem!Position, Batched!Position, Mem!Legacy!GInit, Batched!Legacy!GInit,
     Mem!Legacy!Init, Batched!Legacy!Init, Mem!Legacy!stats, Batched!Legacy!stats,
     Mem!Legacy!gatedVars, Batched!Legacy!gatedVars, Mem!Legacy!vars, Batched!Legacy!vars,
     Mem!Legacy!input, Batched!Legacy!input, Mem!Legacy!stopVars, Batched!Legacy!stopVars,
     Mem!Legacy!Nodes, Batched!Legacy!Nodes, Mem!Legacy!NewEntry, Batched!Legacy!NewEntry
<1>2. UNCHANGED Mem!Legacy!gatedVars => UNCHANGED Batched!Legacy!gatedVars
  BY Zenon DEF
     Mem!Offered, Batched!Offered, Mem!Offer, Batched!Offer, Mem!Gate, Batched!Gate,
     Mem!Insert, Batched!Insert, Mem!Full, Batched!Full, Mem!Back, Batched!Back, Mem!Invalid,
     Batched!Invalid, Mem!Place, Batched!Place, Mem!NewEntry, Batched!NewEntry, Mem!Less,
     Batched!Less, Mem!Position, Batched!Position, Mem!Legacy!stats, Batched!Legacy!stats,
     Mem!Legacy!gatedVars, Batched!Legacy!gatedVars, Mem!Legacy!vars, Batched!Legacy!vars,
     Mem!Legacy!input, Batched!Legacy!input, Mem!Legacy!stopVars, Batched!Legacy!stopVars
<1>3. Mem!Legacy!GNext => Batched!Legacy!GNext
  BY Zenon DEF
     Mem!Offered, Batched!Offered, Mem!Offer, Batched!Offer, Mem!Gate, Batched!Gate,
     Mem!Insert, Batched!Insert, Mem!Full, Batched!Full, Mem!Back, Batched!Back, Mem!Invalid,
     Batched!Invalid, Mem!Place, Batched!Place, Mem!NewEntry, Batched!NewEntry, Mem!Less,
     Batched!Less, Mem!Position, Batched!Position, Mem!Legacy!GNext, Batched!Legacy!GNext,
     Mem!Legacy!Traverse, Batched!Legacy!Traverse, Mem!Legacy!SelectFrontier,
     Batched!Legacy!SelectFrontier, Mem!Legacy!InBeam, Batched!Legacy!InBeam,
     Mem!Legacy!Cardinality, Batched!Legacy!Cardinality, Mem!Legacy!TakeInOrder,
     Batched!Legacy!TakeInOrder, Mem!Legacy!VisitNode, Batched!Legacy!VisitNode,
     Mem!Legacy!MarkNeighbor, Batched!Legacy!MarkNeighbor, Mem!Legacy!OutOfRange,
     Batched!Legacy!OutOfRange, Mem!Legacy!MarkDone, Batched!Legacy!MarkDone,
     Mem!Legacy!FinishRound, Batched!Legacy!FinishRound, Mem!Legacy!Stalled,
     Batched!Legacy!Stalled, Mem!Legacy!NextFresh, Batched!Legacy!NextFresh,
     Mem!Legacy!ScoreFresh, Batched!Legacy!ScoreFresh, Mem!Legacy!SkipFresh,
     Batched!Legacy!SkipFresh, Mem!Legacy!ScoreSurvivor, Batched!Legacy!ScoreSurvivor,
     Mem!Legacy!stats, Batched!Legacy!stats, Mem!Legacy!input, Batched!Legacy!input,
     Mem!Legacy!stopVars, Batched!Legacy!stopVars, Mem!Legacy!Gate, Batched!Legacy!Gate,
     Mem!Legacy!Insert, Batched!Legacy!Insert, Mem!Legacy!Full, Batched!Legacy!Full,
     Mem!Legacy!Back, Batched!Legacy!Back, Mem!Legacy!Invalid, Batched!Legacy!Invalid,
     Mem!Legacy!Place, Batched!Legacy!Place, Mem!Legacy!NewEntry, Batched!Legacy!NewEntry,
     Mem!Legacy!Less, Batched!Legacy!Less, Mem!Legacy!Position, Batched!Legacy!Position
<1> QED  BY <1>1, <1>2, <1>3

-----------------------------------------------------------------------------
(* The pages of the pool *)

PoolHeld(p) == \A i \in 1 .. Len(p) : PagesFor(layout, p[i].id) \subseteq DOMAIN queryCache

HeldInv == StagedInv /\ (reader = "reuse" /\ medium = "direct" => PoolHeld(pool))

\* With reuse a query forgets no page.
LEMMA CacheGrows ==
  ASSUME reader = "reuse", [StagedNext]_stagedVars
  PROVE  DOMAIN queryCache \subseteq DOMAIN queryCache'
<1>1. CASE CallReader
  <2>1. ReadRecords /\ KeepsPages
    BY <1>1 DEF CallReader, KeepsPages
  <2> QED  BY <2>1 DEF ReadRecords
<1>2. CASE ReaderWorks
  <2>1. Serve
    BY <1>2 DEF ReaderWorks
  <2>2. CASE PagesArrive
    <3>1. queryCache' = With(queryCache)
      BY <2>2 DEF PagesArrive
    <3> QED  BY <3>1 DEF With
  <2>3. CASE PageArrives
    <3>1. queryCache' = With(queryCache)
      BY <2>3 DEF PageArrives, KeepsPages
    <3> QED  BY <3>1 DEF With
  <2>4. CASE ~PagesArrive /\ ~PageArrives
    <3>1. queryCache' = queryCache
      BY <2>1, <2>4, Zenon DEF Serve, RefuseId, ReadMemory, ReadCodeMemory, ReadFails,
               TakeCached, ReadPage, ReadMissing, GatherCached
    <3> QED  BY <3>1
  <2> QED  BY <2>2, <2>3, <2>4
<1>3. CASE UNCHANGED payloadVars
  BY <1>3 DEF payloadVars
<1>4. CASE UNCHANGED stagedVars
  BY <1>4 DEF stagedVars, payloadVars
<1>5. ASSUME PayloadError \/ GraphFails \/ ScoreStart \/ Traverse \/ OfferChunk \/ NodeDone \/ FinishRerank
      PROVE  UNCHANGED payloadVars
  BY <1>5, Zenon DEF PayloadError, GraphFails, ScoreStart, Traverse, OfferChunk, NodeDone, FinishRerank
<1> QED  BY <1>1, <1>2, <1>3, <1>4, <1>5, Zenon DEF StagedNext

\* The pages of the records just read are held.
LEMMA RecordsHeld ==
  ASSUME StagedInv, HasRecords, reader = "reuse", medium = "direct"
  PROVE  /\ ids = Needed
         /\ \A i \in 1 .. Len(ids) : PagesFor(layout, ids[i]) \subseteq DOMAIN queryCache
<1>1. reading /\ result = "none" /\ status = "ok"
  BY DEF HasRecords
<1>2. ids = Needed
  BY <1>1 DEF StagedInv
<1>3. WantedOf(layout, ids) \subseteq DOMAIN queryCache
  BY <1>1 DEF StagedInv, PInv, Held
<1> QED  BY <1>2, <1>3 DEF WantedOf

\* A node enters the pool with its pages held, and no page is forgotten.
LEMMA HeldStep ==
  ASSUME HeldInv, [StagedNext]_stagedVars
  PROVE  HeldInv'
<1>1. StagedInv /\ StagedInv'
  BY StagedStep DEF HeldInv
<1>2. ASSUME reader = "reuse", medium = "direct"
      PROVE  PoolHeld(pool)'
  <2>1. /\ DOMAIN queryCache \subseteq DOMAIN queryCache' /\ layout' = layout
        /\ \A i \in 1 .. Len(pool) : PagesFor(layout, pool[i].id) \subseteq DOMAIN queryCache
    BY <1>2, CacheGrows, RunFixed DEF HeldInv, PoolHeld
  <2>2. ASSUME \A i \in 1 .. Len(pool') : \E j \in 1 .. Len(pool) : pool'[i].id = pool[j].id
        PROVE  PoolHeld(pool)'
    BY <2>1, <2>2 DEF PoolHeld
  <2>3. CASE UNCHANGED pool
    BY <2>1, <2>3 DEF PoolHeld
  <2>4. CASE ScoreStart
    <3>1. /\ pc = "start" /\ HasRecords /\ pool' = StartPool /\ queryCache' = queryCache
      BY <2>4 DEF ScoreStart, payloadVars
    <3>2. ids = <<0>>
      BY <1>1, <1>2, <3>1, RecordsHeld DEF Needed
    <3>3. PagesFor(layout, 0) \subseteq DOMAIN queryCache
      <4>1. \A i \in 1 .. Len(ids) : PagesFor(layout, ids[i]) \subseteq DOMAIN queryCache
        BY <1>1, <1>2, <3>1, RecordsHeld
      <4>2. Len(ids) = 1 /\ ids[1] = 0 /\ 1 \in 1 .. 1
        BY <3>2
      <4> QED  BY <4>1, <4>2
    <3>4. Len(pool') = 1 /\ pool'[1].id = 0
      BY <3>1 DEF StartPool
    <3> QED  BY <2>1, <3>1, <3>3, <3>4 DEF PoolHeld
  <2>5. CASE Traverse
    <3>1. CASE Search!SelectFrontier
      <4>1. PICK S : pool' = [i \in 1 .. Len(pool) |-> [pool[i] EXCEPT !.expanded = @ \/ i \in S]]
        BY <3>1, Zenon DEF Search!SelectFrontier
      <4>2. PoolB = pool /\ PcB = pc
        BY <3>1, Begun DEF Search!SelectFrontier
      <4>3. pool \in Seq(Mem!Entry)
        BY <1>1, <4>2 DEF StagedInv, Mem!BInv, Mem!BTypeOK
      <4>4. Len(pool) \in Nat /\ \A i \in 1 .. Len(pool) : pool[i] \in Mem!Entry
        BY <4>3
      <4>5. \A i \in 1 .. Len(pool) : pool'[i].id = pool[i].id
        <5> TAKE i \in 1 .. Len(pool)
        <5>1. pool'[i] = [pool[i] EXCEPT !.expanded = pool[i].expanded \/ i \in S]
          BY <4>1
        <5>2. pool[i] = [id |-> pool[i].id, expanded |-> pool[i].expanded]
          BY <4>4 DEF Mem!Entry
        <5> QED  BY <5>1, <5>2
      <4>6. DOMAIN pool' = 1 .. Len(pool)
        BY <4>1
      <4>7. Len(pool') = Len(pool)
        BY <4>1, <4>4
      <4> QED  BY <2>2, <4>5, <4>7
    <3>2. CASE ~Search!SelectFrontier
      <4>1. pool' = pool
        BY <2>5, <3>2, Zenon DEF Traverse, Search!VisitNode, Search!MarkNeighbor, SkipMalformed,
           Search!MarkDone, Search!FinishRound, Search!SkipSlot, Search!CollectSlot, Search!NextSlot
      <4> QED  BY <2>3, <4>1
    <3> QED  BY <3>1, <3>2
  <2>6. CASE OfferChunk
    <3>1. /\ pc = "flush" /\ HasRecords /\ pool' = Search!Offered(ChunkLen).pool
          /\ queryCache' = queryCache
      BY <2>6 DEF OfferChunk, payloadVars
    <3>2. PoolB = pool /\ Search!Offered(ChunkLen) = Mem!Offered(ChunkLen)
      BY <3>1, Begun, SameOffered
    <3>3. ChunkLen \in 0 .. Len(survivors) /\ Len(survivors) \in Nat
      BY <1>1, ChunkIs, StagedTypes
    <3>4. ids = SubSeq(survivors, 1, ChunkLen)
      BY <1>1, <1>2, <3>1, RecordsHeld DEF Needed
    <3> HIDE DEF ChunkLen
    <3>5. Mem!OfferedOk(ChunkLen, Mem!Offered(ChunkLen))
      BY <1>1, <3>3, MemSound, Mem!OfferedIsOk DEF StagedInv
    <3>6. Mem!Ids(pool') \subseteq Mem!Ids(pool) \cup {survivors[i] : i \in 1 .. ChunkLen}
      BY <3>1, <3>2, <3>5 DEF Mem!OfferedOk
    <3>7. Len(ids) = ChunkLen /\ \A i \in 1 .. ChunkLen : ids[i] = survivors[i]
      <4>1. survivors \in Seq(Search!Nodes)
        BY <1>1, StagedTypes
      <4> QED  BY <3>3, <3>4, <4>1
    <3>8. \A i \in 1 .. Len(ids) : PagesFor(layout, ids[i]) \subseteq DOMAIN queryCache
      BY <1>1, <1>2, <3>1, RecordsHeld
    <3>9. ASSUME NEW i \in 1 .. Len(pool')
          PROVE  PagesFor(layout, pool'[i].id) \subseteq DOMAIN queryCache
      <4>1. pool'[i].id \in Mem!Ids(pool) \cup {survivors[k] : k \in 1 .. ChunkLen}
        BY <3>6 DEF Mem!Ids
      <4>2. CASE pool'[i].id \in Mem!Ids(pool)
        BY <2>1, <4>2 DEF Mem!Ids
      <4>3. CASE pool'[i].id \in {survivors[k] : k \in 1 .. ChunkLen}
        BY <3>7, <3>8, <4>3
      <4> QED  BY <4>1, <4>2, <4>3
    <3> QED  BY <2>1, <3>1, <3>9 DEF PoolHeld
  <2>7. CASE CallReader \/ ReaderWorks \/ PayloadError \/ GraphFails \/ NodeDone \/ FinishRerank
            \/ UNCHANGED stagedVars
    <3>1. UNCHANGED pool
      BY <2>7 DEF CallReader, ReaderWorks, PayloadError, GraphFails, NodeDone, FinishRerank,
         stagedVars, searchVars, loopVars
    <3> QED  BY <2>3, <3>1
  <2> QED  BY <2>4, <2>5, <2>6, <2>7, Zenon DEF StagedNext
<1> QED  BY <1>1, <1>2, RunFixed DEF HeldInv

\* At first the pool is empty.
LEMMA HeldStarts == StagedInit => HeldInv
<1> SUFFICES ASSUME StagedInit PROVE HeldInv
  OBVIOUS
<1>1. pool = <<>>
  BY DEF StagedInit, SearchInit
<1> QED  BY <1>1, StagedStarts DEF HeldInv, PoolHeld

\* The invariant implies the property.
LEMMA HeldTells == HeldInv => PoolPagesHeld
<1> SUFFICES ASSUME HeldInv, reader = "reuse", medium = "direct", NEW i \in DOMAIN pool
             PROVE  PagesFor(layout, pool[i].id) \subseteq DOMAIN queryCache
  BY DEF PoolPagesHeld
<1>1. pc # "start"
  BY DEF HeldInv, StagedInv
<1>2. pool \in Seq(Mem!Entry)
  BY <1>1, Begun DEF HeldInv, StagedInv, Mem!BInv, Mem!BTypeOK
<1>3. i \in 1 .. Len(pool)
  BY <1>2
<1> QED  BY <1>3 DEF HeldInv, PoolHeld

\* PoolPagesHeld: the final rerank of a query that reuses its pages reads none.
THEOREM RerankReadsNothing == StagedSpec => []PoolPagesHeld
BY HeldStarts, HeldStep, HeldTells, PTL DEF StagedSpec

\* SameAsGatedSearch: search_ours_disk_graph is the gated search of the records in
\* memory, whatever it reads, how, and in how many chunks, until a read fails.
THEOREM StagesChangeNothing == StagedSpec => SameAsGatedSearch
<1>1. StagedInit => Mem!Legacy!GInit
  BY StagedStarts, MemSound, Mem!LegacyInit
<1> QED  BY <1>1, SameLegacy, MemKept, StagedInvariance, PTL
         DEF StagedSpec, SameAsGatedSearch, Batched!ParityWithLegacy, Batched!Legacy!GSpec
=============================================================================
