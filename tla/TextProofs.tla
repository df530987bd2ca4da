---------------------------- MODULE TextProofs -----------------------------
(***************************************************************************)
(* The texts of packets, for every size of a block, every base of numerals *)
(* and every width of an int: what padding and unpadding a text give, what *)
(* the writer makes of strings, ints and objects, and what the grammar     *)
(* says of a text that is put together from others.                        *)
(*                                                                         *)
(* What a recursive function or a fold computes is shown by induction      *)
(* over the naturals (Induction), which holds because finite sets can be   *)
(* counted: first there is a function that satisfies the equation, so the  *)
(* one chosen by the definition does; then its values follow one by one.   *)
(***************************************************************************)
EXTENDS JsonWriter, SequenceTheorems, FiniteSetTheorems, TLAPS

\* A padded text has at least one byte of padding and at most a block.
LEMMA RemainRange == \A length \in Nat : Remain(length) \in 1 .. BLOCK
<1>1. TAKE length \in Nat
<1>2. BLOCK \in Nat /\ BLOCK > 0
  BY PayloadAssumption
<1>3. length % BLOCK \in 0 .. BLOCK - 1
  BY <1>2
<1> QED
  BY <1>2, <1>3 DEF Remain

\* What is padded is the text, and then as often as there are bytes of padding their number.
LEMMA PaddedShape ==
  ASSUME NEW Byte, NEW text \in Seq(Byte)
  PROVE  LET p == PaddingDataPKCS7(text)
             r == Remain(Len(text))
         IN  /\ r \in 1 .. BLOCK
             /\ Len(p) = Len(text) + r
             /\ \A k \in 1 .. Len(text) : p[k] = text[k]
             /\ \A k \in Len(text) + 1 .. Len(p) : p[k] = PadByte[r]
<1> DEFINE r == Remain(Len(text))
<1>1. Len(text) \in Nat /\ r \in 1 .. BLOCK /\ BLOCK \in Nat
  BY RemainRange, PayloadAssumption
<1>2. Len(text) + r \in Nat
  BY <1>1
<1> QED
  BY <1>1, <1>2 DEF PaddingDataPKCS7

\* A text ends in one padding at most: UnPaddingDataPKCS7 takes off the one there is.
LEMMA OnePadding ==
  ASSUME NEW Byte, NEW buf \in Seq(Byte), NEW i \in 1 .. BLOCK, EndsIn(buf, i)
  PROVE  /\ \A j \in 1 .. BLOCK : EndsIn(buf, j) => j = i
         /\ UnPaddingDataPKCS7(buf) = Len(buf) - i
<1>1. BLOCK \in Nat /\ \A m, n \in 1 .. BLOCK : PadByte[m] = PadByte[n] => m = n
  BY PayloadAssumption
<1>2. Len(buf) \in Nat
  OBVIOUS
<1>3. ASSUME NEW j \in 1 .. BLOCK, EndsIn(buf, j)
      PROVE  j = i
  <2>1. 0 \in 0 .. i - 1 /\ 0 \in 0 .. j - 1
    BY <1>1
  <2>2. buf[Len(buf) - 0] = PadByte[i] /\ buf[Len(buf) - 0] = PadByte[j]
    BY <2>1, <1>3 DEF EndsIn
  <2> QED
    BY <1>1, <2>2
<1> DEFINE Found(m) == EndsIn(buf, m) /\ \A j \in 1 .. m - 1 : ~EndsIn(buf, j)
<1>4. Found(i)
  BY <1>1, <1>3
<1>5. (CHOOSE m \in 1 .. BLOCK : Found(m)) = i
  BY <1>3, <1>4
<1> QED
  BY <1>3, <1>5 DEF UnPaddingDataPKCS7

\* Every padded text is given back: UnPaddingDataPKCS7 (aes.c:520-540) of what
\* PaddingDataPKCS7 (502-518) made of a text is the text's length, whatever bytes the text
\* ends in.
THEOREM PaddingUndone ==
  ASSUME NEW Byte, NEW text \in Seq(Byte)
  PROVE  UnPaddingDataPKCS7(PaddingDataPKCS7(text)) = Len(text)
<1> DEFINE p == PaddingDataPKCS7(text)
           r == Remain(Len(text))
           All == Byte \cup {PadByte[i] : i \in 1 .. BLOCK}
<1>1. /\ r \in 1 .. BLOCK
      /\ Len(p) = Len(text) + r
      /\ \A k \in 1 .. Len(text) : p[k] = text[k]
      /\ \A k \in Len(text) + 1 .. Len(p) : p[k] = PadByte[r]
  BY PaddedShape
<1>2. Len(text) \in Nat /\ BLOCK \in Nat
  BY PayloadAssumption
<1>3. p \in Seq(All)
  <2>1. Len(text) + r \in Nat
    BY <1>1, <1>2
  <2>2. \A k \in 1 .. Len(text) + r : p[k] \in All
    BY <1>1, <1>2
  <2>3. p = [k \in 1 .. Len(text) + r |-> p[k]]
    BY DEF PaddingDataPKCS7
  <2> HIDE DEF p, r, All
  <2> QED
    BY <2>1, <2>2, <2>3
<1>4. EndsIn(p, r)
  <2>1. \A j \in 0 .. r - 1 : Len(p) - j \in Len(text) + 1 .. Len(p)
    BY <1>1, <1>2
  <2> QED
    BY <1>1, <2>1 DEF EndsIn
<1> HIDE DEF p, r, All
<1>5. UnPaddingDataPKCS7(p) = Len(p) - r
  BY <1>1, <1>3, <1>4, OnePadding
<1> QED
  BY <1>1, <1>2, <1>5 DEF p

-----------------------------------------------------------------------------
\* Multiples and remainders of a block whose size is not known.
LEMMA Multiple ==
  ASSUME NEW B \in Nat \ {0}, NEW d \in Int, d >= 1
  PROVE  B * d >= B
<1>1. d - 1 \in Nat /\ B \in Nat
  OBVIOUS
<1>2. B * (d - 1) >= 0
  BY <1>1
<1>3. B * d = B * (d - 1) + B
  OBVIOUS
<1> QED
  BY <1>1, <1>2, <1>3

LEMMA Rest ==
  ASSUME NEW B \in Nat \ {0}, NEW a \in Int, NEW x \in 0 .. B - 1
  PROVE  (B * a + x) % B = x
<1> DEFINE n == B * a + x
           q == n \div B
           y == n % B
<1>1. n \in Int /\ q \in Int /\ y \in 0 .. B - 1
  OBVIOUS
<1>2. n = B * q + y
  OBVIOUS
<1>3. B * (a - q) = y - x /\ B * (q - a) = x - y
  <2>1. B * (a - q) = B * a - B * q /\ B * (q - a) = B * q - B * a
    BY <1>1
  <2> QED
    BY <1>1, <1>2, <2>1
<1>4. ~(a - q >= 1) /\ ~(q - a >= 1)
  <2> HIDE DEF q, y
  <2> QED
    BY <1>1, <1>3, Multiple
<1>5. a = q
  BY <1>1, <1>4
<1> QED
  BY <1>1, <1>2, <1>5

\* Padding fills the last block.
LEMMA WholeBlocks == \A length \in Nat : (length + Remain(length)) % BLOCK = 0
<1>1. TAKE length \in Nat
<1> DEFINE q == length \div BLOCK
<1>2. BLOCK \in Nat \ {0} /\ q \in Int
  BY PayloadAssumption
<1>3. length = BLOCK * q + (length % BLOCK)
  BY <1>2
<1>4. length % BLOCK \in Int
  BY <1>2
<1>5. length + Remain(length) = BLOCK * q + BLOCK
  BY <1>2, <1>3, <1>4 DEF Remain
<1>6. BLOCK * (q + 1) + 0 = BLOCK * q + BLOCK
  BY <1>2
<1>7. 0 \in 0 .. BLOCK - 1 /\ q + 1 \in Int
  BY <1>2
<1> HIDE DEF q
<1>8. (BLOCK * (q + 1) + 0) % BLOCK = 0
  BY <1>2, <1>7, Rest
<1> QED
  BY <1>5, <1>6, <1>8

\* The padding of what is left of whole blocks is what was taken off.
LEMMA RemainOfRest ==
  ASSUME NEW length \in Nat \ {0}, length % BLOCK = 0, NEW i \in 1 .. BLOCK
  PROVE  length >= BLOCK /\ Remain(length - i) = i
<1> DEFINE q == length \div BLOCK
<1>1. BLOCK \in Nat \ {0} /\ q \in Int
  BY PayloadAssumption
<1>2. length = BLOCK * q
  BY <1>1
<1> HIDE DEF q
<1>3. q >= 1
  <2>1. SUFFICES ASSUME 0 - q >= 0
                 PROVE  FALSE
    BY <1>1
  <2>2. BLOCK * (0 - q) >= 0
    BY <1>1, <2>1
  <2>3. BLOCK * (0 - q) = 0 - BLOCK * q
    BY <1>1
  <2> QED
    BY <1>1, <1>2, <2>2, <2>3
<1>4. BLOCK * q >= BLOCK
  BY <1>1, <1>3, Multiple
<1>5. BLOCK * (q - 1) = BLOCK * q - BLOCK
  BY <1>1
<1>6. BLOCK * q \in Int
  BY <1>1
<1>7. length - i = BLOCK * (q - 1) + (BLOCK - i)
  BY <1>1, <1>2, <1>5, <1>6
<1>8. BLOCK - i \in 0 .. BLOCK - 1 /\ q - 1 \in Int
  BY <1>1
<1>9. (length - i) % BLOCK = BLOCK - i
  BY <1>1, <1>7, <1>8, Rest, ZenonT(40)
<1> QED
  BY <1>1, <1>2, <1>4, <1>9 DEF Remain

\* The server refuses a packet by the length DecryptData returns (net_connect.cc:308) exactly
\* if nobody padded a text into it: a padding that is wrong is told from one that is right by
\* this length alone, for every size of a block.  An empty text is refused as well.
THEOREM RefusesUnpadded ==
  ASSUME NEW Byte, NEW packet \in Seq(Byte)
  PROVE  DecryptData(packet) \in {0, Len(packet)}
           <=> ~ \E text \in Seq(Byte) : text # <<>> /\ PaddingDataPKCS7(text) = packet
<1>1. Len(packet) \in Nat /\ BLOCK \in Nat \ {0}
  BY PayloadAssumption
<1>2. ASSUME NEW text \in Seq(Byte), text # <<>>, PaddingDataPKCS7(text) = packet
      PROVE  DecryptData(packet) \notin {0, Len(packet)}
  <2>1. Len(text) \in Nat \ {0}
    BY <1>2
  <2>2. Remain(Len(text)) \in 1 .. BLOCK /\ Len(packet) = Len(text) + Remain(Len(text))
    BY <1>2, PaddedShape
  <2>3. Len(packet) % BLOCK = 0
    BY <2>1, <2>2, WholeBlocks
  <2>4. UnPaddingDataPKCS7(packet) = Len(text)
    BY <1>2, PaddingUndone
  <2>5. packet # <<>>
    BY <1>1, <2>1, <2>2
  <2> QED
    BY <1>1, <2>1, <2>2, <2>3, <2>4, <2>5 DEF DecryptData
<1>3. ASSUME DecryptData(packet) \notin {0, Len(packet)}
      PROVE  \E text \in Seq(Byte) : text # <<>> /\ PaddingDataPKCS7(text) = packet
  <2>1. /\ Len(packet) % BLOCK = 0 /\ packet # <<>>
        /\ UnPaddingDataPKCS7(packet) \notin {0, Len(packet)}
    BY <1>3 DEF DecryptData
  <2>2. PICK i \in 1 .. BLOCK : EndsIn(packet, i)
    BY <2>1 DEF UnPaddingDataPKCS7
  <2>3. UnPaddingDataPKCS7(packet) = Len(packet) - i
    BY <2>2, OnePadding
  <2>4. Len(packet) \in Nat \ {0}
    BY <1>1, <2>1
  <2>5. Len(packet) >= BLOCK /\ Remain(Len(packet) - i) = i
    BY <2>1, <2>4, RemainOfRest
  <2> DEFINE n == Len(packet) - i
             text == SubSeq(packet, 1, n)
  <2>6. n \in Nat \ {0} /\ n + i = Len(packet) /\ i \in Nat \ {0}
    BY <1>1, <2>1, <2>2, <2>3, <2>5
  <2>7. text \in Seq(Byte) /\ Len(text) = n /\ \A k \in 1 .. n : text[k] = packet[k]
    <3> HIDE DEF n
    <3>1. n \in 0 .. Len(packet)
      BY <1>1, <2>6
    <3> QED
      BY <3>1
  <2>8. \A k \in n + 1 .. Len(packet) : packet[k] = PadByte[i]
    <3> HIDE DEF n
    <3>1. \A j \in 0 .. i - 1 : packet[Len(packet) - j] = PadByte[i]
      BY <2>2 DEF EndsIn
    <3>2. TAKE k \in n + 1 .. Len(packet)
    <3>3. Len(packet) - k \in 0 .. i - 1 /\ Len(packet) - (Len(packet) - k) = k
      BY <1>1, <2>6
    <3>4. packet[Len(packet) - (Len(packet) - k)] = PadByte[i]
      BY <3>1, <3>3
    <3> QED
      BY <3>3, <3>4
  <2>9. PaddingDataPKCS7(text) = packet
    <3>1. Remain(n) = i
      BY <2>5
    <3> HIDE DEF text, n
    <3>2. PaddingDataPKCS7(text) = [k \in 1 .. Len(packet) |-> IF k <= n THEN text[k] ELSE PadByte[i]]
      BY <2>6, <2>7, <3>1 DEF PaddingDataPKCS7
    <3>3. \A k \in 1 .. Len(packet) : (IF k <= n THEN text[k] ELSE PadByte[i]) = packet[k]
      BY <2>6, <2>7, <2>8, <1>1
    <3>4. packet = [k \in 1 .. Len(packet) |-> packet[k]]
      OBVIOUS
    <3> QED
      BY <3>2, <3>3, <3>4
  <2>10. text # <<>>
    BY <2>6, <2>7
  <2> QED
    BY <2>7, <2>9, <2>10
<1> QED
  BY <1>2, <1>3

-----------------------------------------------------------------------------
\* Induction over the naturals, for a set: a least number outside it would map the finite
\* set of its like into a smaller part of itself.
LEMMA Induction ==
  ASSUME NEW P, 0 \in P, \A n \in Nat : n \in P => n + 1 \in P
  PROVE  Nat \subseteq P
<1> SUFFICES ASSUME NEW m \in Nat, m \notin P PROVE FALSE
  OBVIOUS
<1> DEFINE B == {k \in 0 .. m : k \notin P}
           C == {k \in B : k + 1 \in B}
           f == [k \in B |-> k - 1]
<1>1. IsFiniteSet(B) /\ IsFiniteSet(C)
  <2>1. IsFiniteSet(0 .. m)
    BY FS_Interval
  <2> QED
    BY <2>1, FS_Subset
<1>2. \A k \in B : k - 1 \in C
  <2> SUFFICES ASSUME NEW k \in B PROVE k - 1 \in C
    OBVIOUS
  <2>1. k # 0 /\ k - 1 \in Nat /\ (k - 1) + 1 = k
    OBVIOUS
  <2>2. k - 1 \notin P
    BY <2>1
  <2> QED
    BY <2>1, <2>2
<1>3. m \in B /\ m \notin C
  OBVIOUS
<1>4. f \in Injection(B, C)
  <2>1. f \in [B -> C]
    BY <1>2
  <2>2. \A x, y \in B : f[x] = f[y] => x = y
    OBVIOUS
  <2> QED
    BY <2>1, <2>2 DEF Injection, IsInjective
<1>5. Cardinality(B) <= Cardinality(C)
  BY <1>1, <1>4, FS_Injection
<1>6. C \in SUBSET B /\ Cardinality(C) <= Cardinality(B) /\ (Cardinality(B) = Cardinality(C) => B = C)
  BY <1>1, FS_Subset
<1>7. Cardinality(B) \in Nat /\ Cardinality(C) \in Nat
  BY <1>1, FS_CardinalityType
<1> QED
  BY <1>3, <1>5, <1>6, <1>7

\* Course-of-values induction.
LEMMA StrongInduction ==
  ASSUME NEW P, \A n \in Nat : (\A k \in 0 .. n - 1 : k \in P) => n \in P
  PROVE  Nat \subseteq P
<1> DEFINE Q == {n \in Nat : \A k \in 0 .. n - 1 : k \in P}
<1>1. 0 \in Q
  OBVIOUS
<1>2. ASSUME NEW n \in Nat, n \in Q PROVE n + 1 \in Q
  <2>1. n \in P
    BY <1>2
  <2>2. \A k \in 0 .. (n + 1) - 1 : k \in 0 .. n - 1 \/ k = n
    OBVIOUS
  <2> QED
    BY <1>2, <2>1, <2>2
<1>3. Nat \subseteq Q
  <2> HIDE DEF Q
  <2> QED
    BY <1>1, <1>2, Induction
<1> SUFFICES ASSUME NEW n \in Nat PROVE n \in P
  OBVIOUS
<1>4. n + 1 \in Q /\ n \in 0 .. (n + 1) - 1
  BY <1>3
<1> QED
  BY <1>4

-----------------------------------------------------------------------------
(* Sequences of any elements, and their parts.                             *)

Sequence(s) == \E S : s \in Seq(S)

LEMMA Joins ==
  ASSUME NEW s, NEW u, Sequence(s), Sequence(u)
  PROVE  /\ Sequence(s \o u) /\ Len(s) \in Nat /\ Len(u) \in Nat /\ Len(s \o u) = Len(s) + Len(u)
         /\ \A i \in 1 .. Len(s) : (s \o u)[i] = s[i]
         /\ \A i \in 1 .. Len(u) : (s \o u)[Len(s) + i] = u[i]
<1>1. PICK S : s \in Seq(S)
  BY DEF Sequence
<1>2. PICK T : u \in Seq(T)
  BY DEF Sequence
<1> DEFINE V == S \cup T
<1>3. s \in Seq(V) /\ u \in Seq(V)
  BY <1>1, <1>2, SeqMonotonic
<1> HIDE DEF V
<1>4. s \o u \in Seq(V) /\ Len(s) \in Nat /\ Len(u) \in Nat
  BY <1>3, ConcatProperties, LenProperties
<1>5. /\ Len(s \o u) = Len(s) + Len(u)
      /\ \A i \in 1 .. Len(s) + Len(u) : (s \o u)[i] = IF i <= Len(s) THEN s[i] ELSE u[i - Len(s)]
  BY <1>3, ConcatProperties
<1>6. \A i \in 1 .. Len(s) : (s \o u)[i] = s[i]
  BY <1>4, <1>5
<1>7. \A i \in 1 .. Len(u) : (s \o u)[Len(s) + i] = u[i]
  BY <1>4, <1>5
<1> QED
  BY <1>4, <1>5, <1>6, <1>7 DEF Sequence

\* Two sequences with the same elements are the same.
LEMMA SameElements ==
  ASSUME NEW s, NEW u, Sequence(s), Sequence(u), Len(s) = Len(u), \A i \in 1 .. Len(s) : s[i] = u[i]
  PROVE  s = u
<1>1. PICK S : s \in Seq(S)
  BY DEF Sequence
<1>2. PICK T : u \in Seq(T)
  BY DEF Sequence
<1> DEFINE V == S \cup T
<1>3. s \in Seq(V) /\ u \in Seq(V)
  BY <1>1, <1>2, SeqMonotonic
<1> HIDE DEF V
<1> QED
  BY <1>3, SeqEqual

LEMMA Single == \A x : Sequence(<<x>>) /\ Len(<<x>>) = 1 /\ <<x>>[1] = x
<1> TAKE x
<1>1. <<x>> \in Seq({x})
  OBVIOUS
<1> QED
  BY <1>1 DEF Sequence

LEMMA AppendAny ==
  ASSUME NEW s, Sequence(s), NEW x
  PROVE  /\ Sequence(Append(s, x)) /\ Len(s) \in Nat /\ Len(Append(s, x)) = Len(s) + 1
         /\ Append(s, x)[Len(s) + 1] = x
         /\ \A i \in 1 .. Len(s) : Append(s, x)[i] = s[i]
<1>1. PICK S : s \in Seq(S)
  BY DEF Sequence
<1> DEFINE T == S \cup {x}
<1>2. s \in Seq(T) /\ x \in T
  BY <1>1, SeqMonotonic
<1> HIDE DEF T
<1> QED
  BY <1>2, AppendProperties, LenProperties DEF Sequence

LEMMA SubSeqAny ==
  ASSUME NEW s, Sequence(s), NEW m \in 1 .. Len(s) + 1, NEW n \in m - 1 .. Len(s)
  PROVE  /\ Sequence(SubSeq(s, m, n)) /\ Len(SubSeq(s, m, n)) = n - m + 1
         /\ \A i \in 1 .. n - m + 1 : SubSeq(s, m, n)[i] = s[m + i - 1]
<1>1. PICK S : s \in Seq(S)
  BY DEF Sequence
<1>2. SubSeq(s, m, n) \in Seq(S)
  BY <1>1, SubSeqProperties
<1>3. Len(s) \in Nat /\ m - 1 <= n /\ m \in Nat \ {0} /\ n \in Nat
  BY <1>1, LenProperties
<1>4. /\ Len(SubSeq(s, m, n)) = IF m <= n THEN n - m + 1 ELSE 0
      /\ \A i \in 1 .. n - m + 1 : SubSeq(s, m, n)[i] = s[m + i - 1]
  BY <1>1, <1>3, SubSeqProperties
<1>5. Len(SubSeq(s, m, n)) = n - m + 1
  <2>1. CASE m <= n
    BY <1>4, <2>1
  <2>2. CASE ~(m <= n)
    <3>1. m = n + 1
      BY <1>3, <2>2
    <3> QED
      BY <1>3, <1>4, <3>1
  <2> QED
    BY <2>1, <2>2
<1>6. Sequence(SubSeq(s, m, n))
  BY <1>2 DEF Sequence
<1> QED
  BY <1>4, <1>5, <1>6

-----------------------------------------------------------------------------
\* What is written of a byte of a string.
Element(c) == IF c \in DOMAIN Escaped THEN Escaped[c] ELSE <<c>>

\* The fold of WriteString.
Inside(chars) ==
  FoldLeft(LAMBDA text, c : text \o IF c \in DOMAIN Escaped THEN Escaped[c] ELSE <<c>>, <<>>, chars)

LEMMA MaxOf ==
  ASSUME NEW n \in Nat, NEW s \in SUBSET (1 .. n), s # {}
  PROVE  Max(s) \in s /\ \A y \in s : Max(s) >= y
<1> DEFINE P == {k \in Nat : \A u \in SUBSET (1 .. k) : u # {} => \E x \in u : \A y \in u : x >= y}
<1>1. 0 \in P
  <2>1. 1 .. 0 = {}
    OBVIOUS
  <2> QED
    BY <2>1
<1>2. ASSUME NEW k \in Nat, k \in P PROVE k + 1 \in P
  <2> SUFFICES ASSUME NEW u \in SUBSET (1 .. k + 1), u # {} PROVE \E x \in u : \A y \in u : x >= y
    OBVIOUS
  <2>1. CASE k + 1 \in u
    BY <2>1
  <2>2. CASE k + 1 \notin u
    <3>1. u \in SUBSET (1 .. k)
      BY <2>2
    <3> QED
      BY <1>2, <3>1
  <2> QED
    BY <2>1, <2>2
<1>3. n \in P
  <2> HIDE DEF P
  <2> QED
    BY <1>1, <1>2, Induction
<1> QED
  BY <1>3 DEF Max

\* A function that FoldLeft computes when it joins the sequences of e.
Pieces(g, e, s) == IF s = {} THEN <<>> ELSE g[s \ {Max(s)}] \o e[Max(s)]

PiecesTo(g, e, N, k) == /\ g = [s \in SUBSET (1 .. N) |-> g[s]]
                           /\ \A s \in SUBSET (1 .. k) : g[s] = Pieces(g, e, s)

LEMMA PiecesExist ==
  ASSUME NEW e, NEW N \in Nat
  PROVE  \E g : g = [s \in SUBSET (1 .. N) |-> Pieces(g, e, s)]
<1> DEFINE P == {k \in Nat : k <= N => \E g : PiecesTo(g, e, N, k)}
<1>1. 0 \in P
  <2> DEFINE g == [s \in SUBSET (1 .. N) |-> <<>>]
  <2>1. g = [s \in SUBSET (1 .. N) |-> g[s]]
    OBVIOUS
  <2>2. \A s \in SUBSET (1 .. 0) : s = {} /\ s \in SUBSET (1 .. N)
    OBVIOUS
  <2>3. \A s \in SUBSET (1 .. 0) : g[s] = Pieces(g, e, s)
    BY <2>2 DEF Pieces
  <2>4. PiecesTo(g, e, N, 0)
    BY <2>1, <2>3 DEF PiecesTo
  <2> HIDE DEF g
  <2> QED
    BY <2>4
<1>2. ASSUME NEW k \in Nat, k \in P PROVE k + 1 \in P
  <2>0. ASSUME k + 1 <= N PROVE \E g : PiecesTo(g, e, N, k + 1)
    <3>0. k <= N /\ k + 1 \in Nat
      BY <2>0
    <3>1. PICK g : PiecesTo(g, e, N, k)
      BY <1>2, <3>0
    <3> DEFINE h == [s \in SUBSET (1 .. N) |-> Pieces(g, e, s)]
    <3>2. h = [s \in SUBSET (1 .. N) |-> h[s]]
      OBVIOUS
    <3>3. ASSUME NEW s \in SUBSET (1 .. k) PROVE h[s] = g[s]
      <4>1. s \in SUBSET (1 .. N)
        BY <3>0
      <4> QED
        BY <3>1, <4>1 DEF PiecesTo
    <3>4. ASSUME NEW s \in SUBSET (1 .. k + 1) PROVE h[s] = Pieces(h, e, s)
      <4>1. s \in SUBSET (1 .. N)
        BY <2>0
      <4>2. CASE s = {}
        BY <4>1, <4>2 DEF Pieces
      <4>3. CASE s # {}
        <5>1. Max(s) \in s /\ \A y \in s : Max(s) >= y
          BY <3>0, <4>3, MaxOf
        <5>2. s \ {Max(s)} \in SUBSET (1 .. k)
          <6> SUFFICES ASSUME NEW y \in s, y # Max(s) PROVE y \in 1 .. k
            OBVIOUS
          <6>1. Max(s) \in 1 .. k + 1 /\ y \in 1 .. k + 1 /\ Max(s) >= y
            BY <5>1
          <6> QED
            BY <6>1, <3>0
        <5>3. h[s \ {Max(s)}] = g[s \ {Max(s)}]
          BY <3>3, <5>2
        <5>4. h[s] = Pieces(g, e, s)
          BY <4>1
        <5> QED
          BY <4>3, <5>3, <5>4 DEF Pieces
      <4> QED
        BY <4>2, <4>3
    <3>5. PiecesTo(h, e, N, k + 1)
      BY <3>2, <3>4 DEF PiecesTo
    <3> HIDE DEF h
    <3> QED
      BY <3>5
  <2> QED
    BY <2>0
<1>3. N \in P
  <2> HIDE DEF P
  <2> QED
    BY <1>1, <1>2, Induction
<1>4. PICK g : PiecesTo(g, e, N, N)
  BY <1>3
<1>5. g = [s \in SUBSET (1 .. N) |-> Pieces(g, e, s)]
  BY <1>4 DEF PiecesTo
<1> QED
  BY <1>5

\* The function that it computes.
FoldBody(g, chars, s) ==
  IF s = {} THEN <<>> ELSE g[s \ {Max(s)}] \o Element(chars[Max(s)])

LEMMA FoldExists ==
  ASSUME NEW chars, NEW N \in Nat
  PROVE  \E g : g = [s \in SUBSET (1 .. N) |-> FoldBody(g, chars, s)]
<1> DEFINE e == [k \in 1 .. N |-> Element(chars[k])]
<1>1. PICK g : g = [s \in SUBSET (1 .. N) |-> Pieces(g, e, s)]
  BY PiecesExist
<1>2. ASSUME NEW s \in SUBSET (1 .. N) PROVE Pieces(g, e, s) = FoldBody(g, chars, s)
  <2>1. CASE s = {}
    BY <2>1 DEF Pieces, FoldBody
  <2>2. CASE s # {}
    <3>1. Max(s) \in 1 .. N
      BY <2>2, MaxOf
    <3> QED
      BY <2>2, <3>1 DEF Pieces, FoldBody
  <2> QED
    BY <2>1, <2>2
<1>3. [s \in SUBSET (1 .. N) |-> Pieces(g, e, s)] = [s \in SUBSET (1 .. N) |-> FoldBody(g, chars, s)]
  BY <1>2
<1> QED
  BY <1>1, <1>3

\* What is written of the first k bytes of a string.
LEMMA InsideSteps ==
  ASSUME NEW chars, Sequence(chars)
  PROVE  \E f : /\ f[0] = <<>> /\ Inside(chars) = f[Len(chars)]
                /\ \A k \in 1 .. Len(chars) : f[k] = f[k - 1] \o Element(chars[k])
<1> DEFINE N == Len(chars)
           iter == CHOOSE g : g = [s \in SUBSET (1 .. N) |-> FoldBody(g, chars, s)]
           f == [k \in 0 .. N |-> iter[1 .. k]]
<1>1. N \in Nat /\ DOMAIN chars = 1 .. N
  BY LenProperties DEF Sequence
<1>2. iter = [s \in SUBSET (1 .. N) |-> FoldBody(iter, chars, s)]
  BY <1>1, FoldExists
<1>3. Inside(chars) = iter[1 .. N]
  BY <1>1 DEF Inside, FoldLeft, MapThenFoldSet, FoldBody, Element
<1> HIDE DEF iter, N
<1>4. f[0] = <<>>
  <2>1. 1 .. 0 = {} /\ 0 \in 0 .. N /\ {} \in SUBSET (1 .. N)
    BY <1>1
  <2>2. iter[{}] = FoldBody(iter, chars, {})
    BY <1>2, <2>1
  <2> QED
    BY <2>1, <2>2 DEF FoldBody
<1>5. ASSUME NEW k \in 1 .. N PROVE f[k] = f[k - 1] \o Element(chars[k])
  <2>1. /\ k \in Nat /\ 1 .. k \in SUBSET (1 .. N) /\ 1 .. k # {} /\ k \in 0 .. N /\ k - 1 \in 0 .. N
        /\ k \in 1 .. k
    BY <1>1
  <2>2. Max(1 .. k) \in 1 .. k /\ \A y \in 1 .. k : Max(1 .. k) >= y
    BY <2>1, MaxOf
  <2>3. Max(1 .. k) = k
    BY <2>1, <2>2
  <2>4. (1 .. k) \ {k} = 1 .. k - 1
    BY <2>1
  <2>5. iter[1 .. k] = FoldBody(iter, chars, 1 .. k)
    BY <1>2, <2>1
  <2> QED
    BY <2>1, <2>3, <2>4, <2>5 DEF FoldBody
<1> HIDE DEF f
<1>6. Inside(chars) = f[Len(chars)]
  BY <1>1, <1>3 DEF f, N
<1> QED
  BY <1>4, <1>5, <1>6 DEF N

-----------------------------------------------------------------------------
\* What a width is: an even number, of two digits at least.
LEMMA WidthEven ==
  /\ Width \in Nat /\ Half \in Nat /\ Width = 2 * Half /\ Half >= 1 /\ Width >= 4 /\ BASE <= Half
  /\ BASE \in Nat /\ BASE >= 2
<1>1. Width \in {2 * n : n \in 1 .. Width} /\ BASE \in 2 .. 10 /\ 2 * BASE <= Width
  BY TextAssumption
<1>2. PICK n \in 1 .. Width : Width = 2 * n
  BY <1>1
<1>3. n \in Nat /\ n = Width \div 2
  BY <1>2
<1> QED
  BY <1>1, <1>2, <1>3 DEF Half

NumeralBody(g, u) == IF u < BASE THEN <<Digit[u]>> ELSE Append(g[u \div BASE], Digit[u % BASE])

NumeralsTo(g, k) == /\ g = [u \in 0 .. Width - 1 |-> g[u]]
                    /\ \A u \in 0 .. k - 1 : g[u] = NumeralBody(g, u)

LEMMA Shorter ==
  ASSUME NEW u \in Nat, u >= BASE
  PROVE  u \div BASE \in 0 .. u - 1 /\ u % BASE \in 0 .. BASE - 1
         /\ u = (u \div BASE) * BASE + (u % BASE) /\ u \div BASE > 0
<1>1. BASE \in Nat /\ BASE >= 2
  BY WidthEven
<1> DEFINE q == u \div BASE
           r == u % BASE
<1>2. q \in Int /\ r \in 0 .. BASE - 1 /\ u = BASE * q + r
  BY <1>1
<1> HIDE DEF q, r
<1>3. q > 0
  <2>1. ASSUME q = 0 PROVE FALSE
    <3>1. BASE * q = 0
      BY <1>1, <2>1
    <3> QED
      BY <1>1, <1>2, <3>1
  <2>2. ASSUME q < 0 PROVE FALSE
    <3>1. -q \in Int /\ -q >= 1
      BY <1>2, <2>2
    <3>2. BASE * (-q) >= BASE
      BY <1>1, <3>1, Multiple
    <3>3. BASE * (-q) = -(BASE * q)
      BY <1>1, <1>2
    <3> QED
      BY <1>1, <1>2, <3>2, <3>3
  <2> QED
    BY <1>2, <2>1, <2>2
<1>4. q < u
  <2>1. BASE - 1 \in Int /\ BASE - 1 >= 1 /\ q \in Nat \ {0}
    BY <1>1, <1>2, <1>3
  <2> DEFINE z == q * (BASE - 1)
             y == BASE * q
  <2>2. z >= q
    BY <2>1, Multiple
  <2>3. y = z + q /\ y \in Int /\ z \in Int
    BY <1>1, <1>2
  <2>4. u = y + r
    BY <1>2
  <2> HIDE DEF z, y
  <2> QED
    BY <1>1, <1>2, <1>3, <2>2, <2>3, <2>4
<1>5. BASE * q = q * BASE
  BY <1>1, <1>2
<1>6. q \in 0 .. u - 1 /\ r \in 0 .. BASE - 1 /\ u = q * BASE + r /\ q > 0
  BY <1>2, <1>3, <1>4, <1>5
<1> QED
  BY <1>6 DEF q, r

LEMMA NumeralsExist == u32toa = [u \in 0 .. Width - 1 |-> NumeralBody(u32toa, u)]
<1> DEFINE P == {k \in Nat : k <= Width => \E g : NumeralsTo(g, k)}
<1>0. Width \in Nat /\ BASE \in Nat
  BY WidthEven
<1>1. 0 \in P
  <2> DEFINE g == [u \in 0 .. Width - 1 |-> <<>>]
  <2>1. g = [u \in 0 .. Width - 1 |-> g[u]]
    OBVIOUS
  <2>2. NumeralsTo(g, 0)
    BY <2>1 DEF NumeralsTo
  <2> HIDE DEF g
  <2> QED
    BY <2>2
<1>2. ASSUME NEW k \in Nat, k \in P PROVE k + 1 \in P
  <2>0. ASSUME k + 1 <= Width PROVE \E g : NumeralsTo(g, k + 1)
    <3>0. k <= Width
      BY <1>0, <2>0
    <3>1. PICK g : NumeralsTo(g, k)
      BY <1>2, <3>0
    <3> DEFINE h == [u \in 0 .. Width - 1 |-> NumeralBody(g, u)]
    <3>2. h = [u \in 0 .. Width - 1 |-> h[u]]
      OBVIOUS
    <3>3. ASSUME NEW u \in 0 .. k - 1 PROVE h[u] = g[u]
      <4>1. u \in 0 .. Width - 1
        BY <1>0, <3>0
      <4> QED
        BY <3>1, <4>1 DEF NumeralsTo
    <3>4. ASSUME NEW u \in 0 .. (k + 1) - 1 PROVE h[u] = NumeralBody(h, u)
      <4>1. u \in 0 .. Width - 1 /\ u \in Nat
        BY <1>0, <2>0
      <4>2. CASE u < BASE
        BY <4>1, <4>2 DEF NumeralBody
      <4>3. CASE u >= BASE
        <5>1. u \div BASE \in 0 .. k - 1
          BY <4>1, <4>3, Shorter
        <5>2. h[u \div BASE] = g[u \div BASE]
          BY <3>3, <5>1
        <5>3. h[u] = NumeralBody(g, u)
          BY <4>1
        <5> QED
          BY <4>3, <5>2, <5>3 DEF NumeralBody
      <4> QED
        BY <1>0, <4>1, <4>2, <4>3
    <3>5. NumeralsTo(h, k + 1)
      BY <3>2, <3>4 DEF NumeralsTo
    <3> HIDE DEF h
    <3> QED
      BY <3>5
  <2> QED
    BY <2>0
<1>3. Width \in P
  <2> HIDE DEF P
  <2> QED
    BY <1>0, <1>1, <1>2, Induction
<1>4. PICK g : NumeralsTo(g, Width)
  BY <1>0, <1>3
<1>5. g = [u \in 0 .. Width - 1 |-> NumeralBody(g, u)]
  BY <1>4 DEF NumeralsTo
<1> DEFINE c == CHOOSE f : f = [u \in 0 .. Width - 1 |-> NumeralBody(f, u)]
<1>6. c = [u \in 0 .. Width - 1 |-> NumeralBody(c, u)]
  BY <1>5
<1>7. u32toa = c
  BY DEF u32toa, NumeralBody
<1> QED
  BY <1>6, <1>7

\* What the digits of a numeral are: D[j] is the number that the first j of them stand for.
Numeral(t, u, n, D) ==
  /\ n \in Nat \ {0} /\ D \in [0 .. n -> Nat] /\ D[0] = 0 /\ D[n] = u
  /\ \A j \in 1 .. n : D[j] = D[j - 1] * BASE + (D[j] % BASE) /\ D[j] <= u
  /\ n > 1 => D[1] # 0
  /\ t \in Seq(Char) /\ Len(t) = n /\ \A j \in 1 .. n : t[j] = Digit[D[j] % BASE]

LEMMA DigitChar == \A d \in 0 .. BASE - 1 : Digit[d] \in Digits /\ Digit[d] \in Char
BY DEF Digits, Char

LEMMA OneDigit ==
  ASSUME NEW u \in 0 .. BASE - 1
  PROVE  \E D : Numeral(<<Digit[u]>>, u, 1, D)
<1> DEFINE D == [j \in 0 .. 1 |-> IF j = 0 THEN 0 ELSE u]
           t == <<Digit[u]>>
<1>1. BASE \in Nat /\ BASE >= 2
  BY WidthEven
<1>2. u % BASE = u
  BY <1>1
<1>3. D \in [0 .. 1 -> Nat] /\ D[0] = 0 /\ D[1] = u
  BY <1>1
<1>4. t \in Seq(Char) /\ Len(t) = 1 /\ t[1] = Digit[u]
  BY DigitChar
<1>5. \A j \in 1 .. 1 : j = 1
  OBVIOUS
<1>6. u = 0 * BASE + u
  BY <1>1
<1>7. D[1] = D[1 - 1] * BASE + (D[1] % BASE) /\ D[1] <= u
  BY <1>1, <1>2, <1>3, <1>6
<1> HIDE DEF D, t
<1>9. \A j \in 1 .. 1 : /\ D[j] = D[j - 1] * BASE + (D[j] % BASE) /\ D[j] <= u
                         /\ t[j] = Digit[D[j] % BASE]
  <2> SUFFICES ASSUME NEW j \in 1 .. 1 
               PROVE  /\ D[j] = D[j - 1] * BASE + (D[j] % BASE) /\ D[j] <= u
                      /\ t[j] = Digit[D[j] % BASE]
    OBVIOUS
  <2>1. j = 1
    OBVIOUS
  <2>2. t[1] = Digit[D[1] % BASE]
    BY <1>2, <1>3, <1>4
  <2> QED
    BY <1>7, <2>1, <2>2
<1>10. 1 \in Nat \ {0} /\ ~(1 > 1)
  OBVIOUS
<1>8. Numeral(t, u, 1, D)
  BY <1>3, <1>4, <1>9, <1>10, Zenon DEF Numeral
<1> QED
  BY <1>8 DEF t

LEMMA MoreDigits ==
  ASSUME NEW u \in Nat, u >= BASE, NEW t, NEW n, NEW D, Numeral(t, u \div BASE, n, D)
  PROVE  \E m, E : Numeral(Append(t, Digit[u % BASE]), u, m, E)
<1> DEFINE m == n + 1
           E == [j \in 0 .. m |-> IF j = m THEN u ELSE D[j]]
           w == Append(t, Digit[u % BASE])
           q == u \div BASE
           r == u % BASE
<1>1. BASE \in Nat /\ BASE >= 2
  BY WidthEven
<1>2. q \in 0 .. u - 1 /\ r \in 0 .. BASE - 1 /\ u = q * BASE + r /\ q > 0
  BY Shorter, Zenon
<1> HIDE DEF q, r
<1>3. /\ n \in Nat \ {0} /\ D \in [0 .. n -> Nat] /\ D[0] = 0 /\ D[n] = q
      /\ \A j \in 1 .. n : D[j] = D[j - 1] * BASE + (D[j] % BASE) /\ D[j] <= q
      /\ n > 1 => D[1] # 0
      /\ t \in Seq(Char) /\ Len(t) = n /\ \A j \in 1 .. n : t[j] = Digit[D[j] % BASE]
  BY DEF Numeral, q
<1>4. E \in [0 .. m -> Nat] /\ E[m] = u /\ \A j \in 0 .. n : E[j] = D[j]
  BY <1>3
<1>5. Digit[r] \in Char
  BY <1>2, DigitChar
<1>6. w \in Seq(Char) /\ Len(w) = m /\ w[m] = Digit[r] /\ \A j \in 1 .. n : w[j] = t[j]
  BY <1>3, <1>5 DEF r
<1> HIDE DEF E, w
<1>7. ASSUME NEW j \in 1 .. m
      PROVE  E[j] = E[j - 1] * BASE + (E[j] % BASE) /\ E[j] <= u /\ w[j] = Digit[E[j] % BASE]
  <2>1. CASE j = m
    <3>1. E[j - 1] = q /\ E[j] = u
      BY <1>3, <1>4, <2>1
    <3>2. u % BASE = r
      BY DEF r
    <3>3. E[j] = E[j - 1] * BASE + (E[j] % BASE) /\ w[j] = Digit[E[j] % BASE]
      BY <1>2, <1>6, <2>1, <3>1, <3>2, Zenon
    <3> QED
      BY <3>1, <3>3
  <2>2. CASE j # m
    <3>1. j \in 1 .. n /\ j - 1 \in 0 .. n /\ j \in 0 .. n
      BY <1>3, <2>2
    <3>2. E[j] = D[j] /\ E[j - 1] = D[j - 1] /\ w[j] = t[j]
      BY <1>4, <1>6, <3>1
    <3>3. D[j] <= q /\ D[j] \in Nat
      BY <1>3, <3>1
    <3>4. D[j] = D[j - 1] * BASE + (D[j] % BASE) /\ t[j] = Digit[D[j] % BASE]
      BY <1>3, <3>1
    <3>5. D[j] <= u
      BY <1>2, <3>3
    <3> QED
      BY <3>2, <3>4, <3>5, Zenon
  <2> QED
    BY <2>1, <2>2
<1>8. E[1] # 0
  <2>1. CASE n > 1
    BY <1>3, <1>4, <2>1
  <2>2. CASE n = 1
    BY <1>2, <1>3, <1>4, <2>2
  <2> QED
    BY <1>3, <2>1, <2>2
<1>9. E[0] = 0 /\ m \in Nat \ {0}
  BY <1>3, <1>4
<1>10. Numeral(w, u, m, E)
  <2> HIDE DEF m
  <2> QED
    BY <1>4, <1>6, <1>7, <1>8, <1>9 DEF Numeral
<1> QED
  BY <1>10 DEF w

LEMMA NumeralOf == \A u \in 0 .. Width - 1 : \E n, D : Numeral(u32toa[u], u, n, D)
<1> DEFINE P == {u \in Nat : u <= Width - 1 => \E n, D : Numeral(u32toa[u], u, n, D)}
<1>0. Width \in Nat /\ BASE \in Nat
  BY WidthEven
<1>1. ASSUME NEW u \in Nat, \A k \in 0 .. u - 1 : k \in P PROVE u \in P
  <2>0. ASSUME u <= Width - 1 PROVE \E n, D : Numeral(u32toa[u], u, n, D)
    <3>1. u \in 0 .. Width - 1
      BY <1>0, <2>0
    <3>2. u32toa[u] = NumeralBody(u32toa, u)
      BY <3>1, NumeralsExist
    <3>3. CASE u < BASE
      <4>1. u32toa[u] = <<Digit[u]>> /\ u \in 0 .. BASE - 1
        BY <1>0, <3>2, <3>3 DEF NumeralBody
      <4> QED
        BY <4>1, OneDigit
    <3>4. CASE u >= BASE
      <4>1. u \div BASE \in 0 .. u - 1
        BY <3>4, Shorter
      <4>2. u \div BASE \in P /\ u \div BASE <= Width - 1
        BY <1>0, <1>1, <2>0, <4>1
      <4>3. PICK n, D : Numeral(u32toa[u \div BASE], u \div BASE, n, D)
        BY <4>2
      <4>4. u32toa[u] = Append(u32toa[u \div BASE], Digit[u % BASE])
        BY <1>0, <3>2, <3>4 DEF NumeralBody
      <4> QED
        BY <3>4, <4>3, <4>4, MoreDigits
    <3> QED
      BY <1>0, <3>3, <3>4
  <2> QED
    BY <2>0
<1>2. Nat \subseteq P
  <2> HIDE DEF P
  <2> QED
    BY <1>1, StrongInduction
<1>3. \A u \in 0 .. Width - 1 : u \in Nat /\ u <= Width - 1
  BY <1>0
<1> QED
  BY <1>2, <1>3

-----------------------------------------------------------------------------
\* A string with its quotes: o[k] is the place behind the first k bytes.
Spelled(x, chars, o) ==
  /\ chars \in Seq(Char \cup Blanks) /\ x \in Seq(Char)
  /\ o \in [0 .. Len(chars) -> Nat] /\ o[0] = 2 /\ o[Len(chars)] = Len(x)
  /\ x[1] = "quote" /\ x[Len(x)] = "quote"
  /\ \A k \in 1 .. Len(chars) :
       IF chars[k] \in DOMAIN Escaped
       THEN o[k] = o[k - 1] + 2 /\ x[o[k - 1]] = "\\" /\ x[o[k - 1] + 1] = Escaped[chars[k]][2]
       ELSE o[k] = o[k - 1] + 1 /\ x[o[k - 1]] = chars[k]

\* An int with its sign.
Sign(i) == IF i < 0 THEN 1 ELSE 0
Counts(x, i, n, D) ==
  \E t : /\ Numeral(t, IF i < 0 THEN -i ELSE i, n, D)
         /\ x \in Seq(Char) /\ Len(x) = Sign(i) + n
         /\ i < 0 => x[1] = "-"
         /\ \A j \in 1 .. n : x[Sign(i) + j] = t[j]

\* The text x stands for the value v, a string or an int.
Lexeme(x, v) ==
  \/ /\ v[1] = "string" /\ v = <<"string", v[2]>>
     /\ \E o : Spelled(x, v[2], o)
  \/ /\ v[1] = "int" /\ v = <<"int", <<v[2][1]>>>> /\ v[2][1] \in -Half .. Half - 1
     /\ \E n, D : Counts(x, v[2][1], n, D)

LEMMA Glue ==
  ASSUME NEW w, NEW a, NEW e, Sequence(a), Sequence(e), w = a \o e
  PROVE  /\ Sequence(w) /\ Len(a) \in Nat /\ Len(e) \in Nat /\ Len(w) = Len(a) + Len(e) /\ Len(w) \in Nat
         /\ \A i \in 1 .. Len(a) : w[i] = a[i]
         /\ \A i \in 1 .. Len(e) : w[Len(a) + i] = e[i]
BY Joins

LEMMA EscapedShape ==
  /\ DOMAIN Escaped = {"quote", "\\", "lf"}
  /\ \A c \in DOMAIN Escaped : /\ Escaped[c] \in Seq(Char) /\ Len(Escaped[c]) = 2 /\ Escaped[c][1] = "\\"
                               /\ Escaped[c][2] = IF c = "lf" THEN "n" ELSE c
<1>1. "\\" \in Char /\ "n" \in Char /\ "quote" \in Char
  BY DEF Char, Marks
<1>2. Escaped["lf"] = <<"\\", "n">> /\ Escaped["quote"] = <<"\\", "quote">> /\ Escaped["\\"] = <<"\\", "\\">>
  BY DEF Escaped
<1>3. \A c \in {"quote", "\\", "lf"} : c = "lf" \/ c = "quote" \/ c = "\\"
  OBVIOUS
<1>4. DOMAIN Escaped = {"quote", "\\", "lf"}
  BY DEF Escaped
<1>5. \A c \in DOMAIN Escaped : Escaped[c] = <<"\\", IF c = "lf" THEN "n" ELSE c>>
                                /\ (IF c = "lf" THEN "n" ELSE c) \in Char
  BY <1>1, <1>2, <1>3, <1>4
<1>6. ASSUME NEW c \in DOMAIN Escaped
      PROVE  /\ Escaped[c] \in Seq(Char) /\ Len(Escaped[c]) = 2 /\ Escaped[c][1] = "\\"
             /\ Escaped[c][2] = IF c = "lf" THEN "n" ELSE c
  <2> DEFINE d == IF c = "lf" THEN "n" ELSE c
             b == "\\"
  <2>1. b \in Char /\ d \in Char /\ Escaped[c] = <<b, d>>
    BY <1>1, <1>5
  <2> HIDE DEF d, b
  <2>2. Escaped[c] \in Seq(Char) /\ Len(Escaped[c]) = 2 /\ Escaped[c][1] = b /\ Escaped[c][2] = d
    BY <2>1
  <2> QED
    BY <2>2 DEF b, d
<1> QED
  BY <1>4, <1>6

LEMMA ElementShape ==
  ASSUME NEW c \in Char \cup Blanks
  PROVE  /\ Element(c) \in Seq(Char)
         /\ IF c \in DOMAIN Escaped
            THEN Len(Element(c)) = 2 /\ Element(c)[1] = "\\" /\ Element(c)[2] = Escaped[c][2]
            ELSE Len(Element(c)) = 1 /\ Element(c)[1] = c
<1>1. CASE c \in DOMAIN Escaped
  BY <1>1, EscapedShape DEF Element
<1>2. CASE c \notin DOMAIN Escaped
  <2>1. c # "lf"
    BY <1>2, EscapedShape
  <2>2. c \in Char
    BY <2>1 DEF Blanks
  <2>3. Element(c) = <<c>>
    BY <1>2 DEF Element
  <2> QED
    BY <1>2, <2>2, <2>3
<1> QED
  BY <1>1, <1>2

\* A string is written with its escapes.
LEMMA StringLexeme ==
  ASSUME NEW chars \in Seq(Char \cup Blanks)
  PROVE  LET x == <<"quote">> \o Inside(chars) \o <<"quote">>
         IN  x \in Seq(Char) /\ Lexeme(x, <<"string", chars>>)
<1> DEFINE N == Len(chars)
           x == <<"quote">> \o Inside(chars) \o <<"quote">>
<1>1. Sequence(chars) /\ N \in Nat /\ \A k \in 1 .. N : chars[k] \in Char \cup Blanks
  BY DEF Sequence
<1>2. PICK f : /\ f[0] = <<>> /\ Inside(chars) = f[N]
               /\ \A k \in 1 .. N : f[k] = f[k - 1] \o Element(chars[k])
  BY <1>1, InsideSteps
<1> HIDE DEF N
<1>3. \A k \in 0 .. N : f[k] \in Seq(Char) /\ Len(f[k]) \in Nat
  <2> DEFINE P == {k \in Nat : k <= N => f[k] \in Seq(Char)}
  <2>1. 0 \in P
    <3>1. f[0] = <<>> /\ <<>> \in Seq(Char)
      BY <1>2
    <3> QED
      BY <3>1
  <2>2. ASSUME NEW k \in Nat, k \in P PROVE k + 1 \in P
    <3>1. ASSUME k + 1 <= N PROVE f[k + 1] \in Seq(Char)
      <4>1. k + 1 \in 1 .. N /\ f[k] \in Seq(Char) /\ (k + 1) - 1 = k
        BY <1>1, <2>2, <3>1
      <4>2. Element(chars[k + 1]) \in Seq(Char)
        BY <1>1, <4>1, ElementShape
      <4>3. f[k + 1] = f[k] \o Element(chars[k + 1])
        BY <1>2, <4>1
      <4> QED
        BY <4>1, <4>2, <4>3, ConcatProperties
    <3> QED
      BY <3>1
  <2>3. Nat \subseteq P
    <3> HIDE DEF P
    <3> QED
      BY <2>1, <2>2, Induction
  <2> QED
    BY <1>1, <2>3
<1>4. ASSUME NEW k \in 1 .. N
      PROVE  /\ Len(f[k]) = Len(f[k - 1]) + Len(Element(chars[k])) /\ Len(Element(chars[k])) \in Nat
             /\ Len(f[k - 1]) \in Nat /\ Len(f[k]) \in Nat
             /\ \A i \in 1 .. Len(f[k - 1]) : f[k][i] = f[k - 1][i]
             /\ \A i \in 1 .. Len(Element(chars[k])) : f[k][Len(f[k - 1]) + i] = Element(chars[k])[i]
  <2>1. k - 1 \in 0 .. N /\ k \in 0 .. N
    BY <1>1
  <2>2. Sequence(f[k - 1]) /\ Sequence(Element(chars[k]))
    BY <1>1, <1>3, <2>1, ElementShape DEF Sequence
  <2> DEFINE a == f[k - 1]
             e == Element(chars[k])
             w == f[k]
  <2>3. w = a \o e
    BY <1>2
  <2> HIDE DEF a, e, w
  <2>4. Sequence(a) /\ Sequence(e)
    BY <2>2 DEF a, e
  <2>5. /\ Len(a) \in Nat /\ Len(e) \in Nat /\ Len(w) = Len(a) + Len(e) /\ Len(w) \in Nat
        /\ \A i \in 1 .. Len(a) : w[i] = a[i]
        /\ \A i \in 1 .. Len(e) : w[Len(a) + i] = e[i]
    BY <2>3, <2>4, Glue
  <2> QED
    BY <2>5 DEF a, e, w
\* What is written of a prefix stays.
<1>5. \A k \in 0 .. N : Len(f[k]) <= Len(f[N]) /\ \A i \in 1 .. Len(f[k]) : f[N][i] = f[k][i]
  <2> DEFINE P == {d \in Nat : d <= N => /\ Len(f[N - d]) <= Len(f[N])
                                         /\ \A i \in 1 .. Len(f[N - d]) : f[N][i] = f[N - d][i]}
  <2>1. 0 \in P
    BY <1>1, <1>3
  <2>2. ASSUME NEW d \in Nat, d \in P PROVE d + 1 \in P
    <3>1. ASSUME d + 1 <= N
          PROVE  /\ Len(f[N - (d + 1)]) <= Len(f[N])
                 /\ \A i \in 1 .. Len(f[N - (d + 1)]) : f[N][i] = f[N - (d + 1)][i]
      <4> DEFINE k == N - d
      <4>1. k \in 1 .. N /\ N - (d + 1) = k - 1 /\ N \in 0 .. N
        BY <1>1, <3>1
      <4>2. Len(f[k]) <= Len(f[N]) /\ \A i \in 1 .. Len(f[k]) : f[N][i] = f[k][i]
        BY <1>1, <2>2, <3>1
      <4> HIDE DEF k
      <4>5. /\ Len(f[k]) = Len(f[k - 1]) + Len(Element(chars[k])) /\ Len(Element(chars[k])) \in Nat
            /\ Len(f[k - 1]) \in Nat /\ Len(f[k]) \in Nat
            /\ \A i \in 1 .. Len(f[k - 1]) : f[k][i] = f[k - 1][i]
        BY <1>4, <4>1
      <4>6. Len(f[N]) \in Nat
        BY <1>3, <4>1
      <4> DEFINE l == Len(f[k - 1])
                 m == Len(f[k])
                 z == Len(f[N])
                 e == Len(Element(chars[k]))
      <4>7. m = l + e /\ e \in Nat /\ l \in Nat /\ m \in Nat /\ z \in Nat /\ m <= z
        BY <4>2, <4>5, <4>6
      <4>8. (\A i \in 1 .. l : f[k][i] = f[k - 1][i]) /\ (\A i \in 1 .. m : f[N][i] = f[k][i])
        BY <4>2, <4>5
      <4>9. l <= z /\ \A i \in 1 .. l : f[N][i] = f[k - 1][i]
        <5> HIDE DEF l, m, z, e
        <5>1. l <= z /\ \A i \in 1 .. l : i \in 1 .. m
          BY <4>7
        <5> QED
          BY <4>8, <5>1
      <4> QED
        BY <4>1, <4>9
    <3> QED
      BY <3>1
  <2>3. Nat \subseteq P
    <3> HIDE DEF P
    <3> QED
      BY <2>1, <2>2, Induction
  <2> SUFFICES ASSUME NEW k \in 0 .. N
               PROVE  Len(f[k]) <= Len(f[N]) /\ \A i \in 1 .. Len(f[k]) : f[N][i] = f[k][i]
    OBVIOUS
  <2>4. N - k \in Nat /\ N - k <= N /\ N - (N - k) = k
    BY <1>1
  <2>5. N - k \in P
    BY <2>3, <2>4
  <2> QED
    BY <2>4, <2>5
<1> DEFINE o == [k \in 0 .. N |-> Len(f[k]) + 2]
<1>6. N \in 0 .. N /\ 0 \in 0 .. N
  BY <1>1
<1>7. /\ x \in Seq(Char) /\ Len(x) = Len(f[N]) + 2 /\ x[1] = "quote" /\ x[Len(x)] = "quote"
      /\ \A i \in 1 .. Len(f[N]) : x[1 + i] = f[N][i]
  <2> DEFINE q == <<"quote">>
             h == q \o f[N]
  <2>1. q \in Seq(Char) /\ Len(q) = 1 /\ q[1] = "quote"
    <3>1. "quote" \in Char
      BY DEF Char, Marks
    <3> QED
      BY <3>1
  <2>2. f[N] \in Seq(Char) /\ Len(f[N]) \in Nat
    BY <1>3, <1>6
  <2>3. x = h \o q
    BY <1>2
  <2> HIDE DEF q, x
  <2>4. h \in Seq(Char) /\ Len(h) = 1 + Len(f[N]) /\ h[1] = "quote" /\ \A i \in 1 .. Len(f[N]) : h[1 + i] = f[N][i]
    <3>1. Sequence(q) /\ Sequence(f[N])
      BY <2>1, <2>2 DEF Sequence
    <3>2. 1 \in 1 .. Len(q)
      BY <2>1
    <3>3. /\ Len(h) = Len(q) + Len(f[N]) /\ \A i \in 1 .. Len(q) : h[i] = q[i]
          /\ \A i \in 1 .. Len(f[N]) : h[Len(q) + i] = f[N][i]
      BY <3>1, Glue
    <3>4. h \in Seq(Char)
      BY <2>1, <2>2, ConcatProperties
    <3> HIDE DEF h
    <3> QED
      BY <2>1, <3>2, <3>3, <3>4
  <2> HIDE DEF h
  <2>5. Sequence(h) /\ Sequence(q)
    BY <2>1, <2>4 DEF Sequence
  <2>6. /\ Len(x) = Len(h) + 1 /\ \A i \in 1 .. Len(h) : x[i] = h[i]
        /\ x[Len(h) + 1] = "quote"
    <3>1. 1 \in 1 .. Len(q)
      BY <2>1
    <3>2. /\ Len(x) = Len(h) + Len(q) /\ \A i \in 1 .. Len(h) : x[i] = h[i]
          /\ \A i \in 1 .. Len(q) : x[Len(h) + i] = q[i]
      BY <2>3, <2>5, Glue
    <3> QED
      BY <2>1, <3>1, <3>2
  <2>7. x \in Seq(Char)
    BY <2>1, <2>3, <2>4, ConcatProperties
  <2>8. \A i \in 1 .. Len(f[N]) : 1 + i \in 1 .. Len(h)
    BY <2>2, <2>4
  <2>9. 1 \in 1 .. Len(h)
    BY <2>2, <2>4
  <2> QED
    BY <2>2, <2>4, <2>6, <2>7, <2>8, <2>9
<1> HIDE DEF x
<1>8. /\ o \in [0 .. N -> Nat] /\ o[0] = 2 /\ o[N] = Len(x)
      /\ \A k \in 0 .. N : o[k] = Len(f[k]) + 2
  <2>1. \A k \in 0 .. N : Len(f[k]) + 2 \in Nat
    BY <1>3
  <2>2. Len(f[0]) = 0
    BY <1>2
  <2> QED
    BY <1>6, <1>7, <2>1, <2>2
<1> HIDE DEF o
<1>9. ASSUME NEW k \in 1 .. N
      PROVE  IF chars[k] \in DOMAIN Escaped
             THEN o[k] = o[k - 1] + 2 /\ x[o[k - 1]] = "\\" /\ x[o[k - 1] + 1] = Escaped[chars[k]][2]
             ELSE o[k] = o[k - 1] + 1 /\ x[o[k - 1]] = chars[k]
  <2>1. k \in 0 .. N /\ k - 1 \in 0 .. N
    BY <1>1
  <2> DEFINE e == Element(chars[k])
             l == Len(f[k - 1])
  <2>2. o[k] = Len(f[k]) + 2 /\ o[k - 1] = l + 2 /\ l \in Nat /\ Len(f[N]) \in Nat
    BY <1>3, <1>6, <1>8, <2>1
  <2>3. Len(f[k]) = l + Len(e) /\ Len(e) \in Nat /\ \A i \in 1 .. Len(e) : f[k][l + i] = e[i]
    BY <1>4
  <2>4. Len(f[k]) <= Len(f[N]) /\ \A i \in 1 .. Len(f[k]) : f[N][i] = f[k][i]
    BY <1>5, <2>1
  <2>5. /\ IF chars[k] \in DOMAIN Escaped
           THEN Len(e) = 2 /\ e[1] = "\\" /\ e[2] = Escaped[chars[k]][2]
           ELSE Len(e) = 1 /\ e[1] = chars[k]
    BY <1>1, ElementShape
  <2> HIDE DEF e, l
  <2>6. ASSUME NEW i \in 1 .. Len(e) PROVE x[l + 1 + i] = e[i]
    <3>1. l + i \in 1 .. Len(f[k]) /\ l + i \in 1 .. Len(f[N]) /\ 1 + (l + i) = l + 1 + i
      BY <2>2, <2>3, <2>4
    <3>2. x[1 + (l + i)] = f[N][l + i] /\ f[N][l + i] = f[k][l + i]
      BY <1>7, <2>4, <3>1
    <3> QED
      BY <2>3, <3>1, <3>2
  <2>7. CASE chars[k] \in DOMAIN Escaped
    <3>0. Len(e) = 2 /\ e[1] = "\\" /\ e[2] = Escaped[chars[k]][2]
      BY <2>5, <2>7
    <3>1. 1 \in 1 .. Len(e) /\ 2 \in 1 .. Len(e) /\ l + 1 + 1 = o[k - 1] /\ l + 1 + 2 = o[k - 1] + 1
      BY <2>2, <3>0
    <3>2. x[o[k - 1]] = "\\" /\ x[o[k - 1] + 1] = Escaped[chars[k]][2]
      BY <3>0, <2>6, <3>1
    <3> QED
      BY <2>2, <2>3, <3>0, <2>7, <3>2
  <2>8. CASE chars[k] \notin DOMAIN Escaped
    <3>0. Len(e) = 1 /\ e[1] = chars[k]
      BY <2>5, <2>8
    <3>1. 1 \in 1 .. Len(e) /\ l + 1 + 1 = o[k - 1]
      BY <2>2, <3>0
    <3>2. x[o[k - 1]] = chars[k]
      BY <3>0, <2>6, <3>1
    <3> QED
      BY <2>2, <2>3, <3>0, <2>8, <3>2
  <2> QED
    BY <2>7, <2>8
<1>10. Spelled(x, chars, o)
  BY <1>7, <1>8, <1>9 DEF Spelled, N
<1>11. Lexeme(x, <<"string", chars>>)
  BY <1>10 DEF Lexeme
<1> QED
  BY <1>7, <1>11 DEF x

\* An int is written with its sign.
LEMMA IntLexeme ==
  ASSUME NEW i \in -Half .. Half - 1
  PROVE  i32toa(i) \in Seq(Char) /\ Lexeme(i32toa(i), <<"int", <<i>>>>)
<1> DEFINE a == IF i < 0 THEN -i ELSE i
           x == i32toa(i)
<1>1. Half \in Nat /\ Width = 2 * Half /\ Half >= 1 /\ i \in Int
  BY WidthEven
<1>2. a \in 0 .. Width - 1
  BY <1>1
<1>3. PICK n, D : Numeral(u32toa[a], a, n, D)
  BY <1>2, NumeralOf
<1> DEFINE t == u32toa[a]
<1>4. t \in Seq(Char) /\ Len(t) = n /\ n \in Nat \ {0} /\ Sequence(t)
  BY <1>3 DEF Numeral, Sequence
<1>5. x = IF i < 0 THEN <<"-">> \o t ELSE t
  BY DEF i32toa
<1> HIDE DEF x, t, a
<1>6. /\ x \in Seq(Char) /\ Len(x) = Sign(i) + n
      /\ i < 0 => x[1] = "-"
      /\ \A j \in 1 .. n : x[Sign(i) + j] = t[j]
  <2>1. CASE i < 0
    <3> DEFINE m == <<"-">>
    <3>1. m \in Seq(Char) /\ Len(m) = 1 /\ m[1] = "-" /\ Sequence(m)
      BY Single DEF Char, Marks
    <3>2. x = m \o t /\ Sign(i) = 1 /\ 1 \in 1 .. 1
      BY <1>5, <2>1 DEF Sign
    <3> HIDE DEF m
    <3>3. x \in Seq(Char)
      BY <1>4, <3>1, <3>2, ConcatProperties
    <3>4. /\ Len(x) = 1 + Len(t) /\ \A k \in 1 .. 1 : x[k] = m[k]
          /\ \A j \in 1 .. Len(t) : x[1 + j] = t[j]
      <4>1. Sequence(m) /\ Sequence(t) /\ x = m \o t
        BY <1>4, <3>1, <3>2
      <4>2. /\ Len(x) = Len(m) + Len(t) /\ \A k \in 1 .. Len(m) : x[k] = m[k]
            /\ \A j \in 1 .. Len(t) : x[Len(m) + j] = t[j]
        BY <4>1, Glue
      <4> QED
        BY <3>1, <4>2
    <3> QED
      BY <1>4, <3>1, <3>2, <3>3, <3>4
  <2>2. CASE ~(i < 0)
    BY <1>4, <1>5, <2>2 DEF Sign
  <2> QED
    BY <2>1, <2>2
<1>7. Counts(x, i, n, D)
  BY <1>3, <1>6 DEF Counts, a, t
<1>8. Lexeme(x, <<"int", <<i>>>>)
  <2> DEFINE v == <<"int", <<i>>>>
  <2>1. v[1] = "int" /\ v[2] = <<i>> /\ v[2][1] = i
    OBVIOUS
  <2> QED
    BY <1>7, <2>1 DEF Lexeme
<1> QED
  BY <1>6, <1>8 DEF x

-----------------------------------------------------------------------------
Mark(i) == IF i % 2 = 0 THEN ":" ELSE ","

\* The bytes b begin an object of the values vals, names and values in turn: x[i] is the text
\* of the i-th, and s[i] where it begins.
Framed(b, vals, x, s) ==
  /\ Sequence(vals) /\ Sequence(x) /\ Len(x) = Len(vals)
  /\ s \in [1 .. Len(vals) + 1 -> Nat] /\ s[1] = 2 /\ b[1] = "{"
  /\ \A i \in 1 .. Len(vals) :
       /\ x[i] \in Seq(Char) /\ Lexeme(x[i], vals[i]) /\ s[i + 1] = s[i] + Len(x[i]) + 1
       /\ \A k \in 1 .. Len(x[i]) : b[s[i] + k - 1] = x[i][k]
       /\ i > 1 => b[s[i] - 1] = Mark(i)

Writer == [os : Seq(Char), levels : Seq([inArray : BOOLEAN, valueCount : Nat])]

\* The writer is in such an object, with its values so far.
Written(w, vals, x, s) ==
  /\ w \in Writer /\ Len(w.levels) = 1
  /\ w.levels[1].inArray = FALSE /\ w.levels[1].valueCount = Len(vals)
  /\ Framed(w.os, vals, x, s)
  /\ Len(w.os) = IF Len(vals) = 0 THEN 1 ELSE s[Len(vals) + 1] - 2

LEMMA PutIs == \A a, b, t : Put([os |-> a, levels |-> b], t) = [os |-> a \o t, levels |-> b]
<1> TAKE a, b, t
<1> DEFINE w == [os |-> a, levels |-> b]
           c == w.os \o t
<1>1. Put(w, t) = [w EXCEPT !.os = c]
  BY DEF Put
<1>2. c = a \o t
  OBVIOUS
<1>3. [w EXCEPT !.os = c] = [os |-> c, levels |-> b]
  <2> HIDE DEF c
  <2> QED
    OBVIOUS
<1> QED
  BY <1>1, <1>2, <1>3

LEMMA LevelsIs ==
  \A a, b, c : [[os |-> a, levels |-> b] EXCEPT !.levels = c] = [os |-> a, levels |-> c]
OBVIOUS

LEMMA SingleSeq == \A S : \A x \in S : <<x>> \in Seq(S) /\ Len(<<x>>) = 1 /\ <<x>>[1] = x
OBVIOUS

LEMMA AppendNone == \A x : Append(<<>>, x) = <<x>>
OBVIOUS

LEMMA StartWritten == Written(StartObject(NewWriter), <<>>, <<>>, [i \in 1 .. 1 |-> 2])
<1> DEFINE w == StartObject(NewWriter)
           level == [inArray |-> FALSE, valueCount |-> 0]
           q == <<"{">>
           s == [i \in 1 .. 1 |-> 2]
<1>0. NewWriter = [os |-> <<>>, levels |-> <<>>]
  BY DEF NewWriter
<1>1. Prefix(NewWriter) = NewWriter
  BY <1>0 DEF Prefix
<1>5. "{" \in Char
  BY DEF Char, Marks
<1>6. q \in Seq(Char) /\ Len(q) = 1 /\ q[1] = "{"
  BY <1>5, SingleSeq, Zenon
<1>7. <<level>> \in Seq([inArray : BOOLEAN, valueCount : Nat]) /\ Len(<<level>>) = 1 /\ <<level>>[1] = level
  OBVIOUS
<1> HIDE DEF q
<1>2. <<>> \o q = q
  BY <1>6, ConcatEmptySeq
<1>3. Put(NewWriter, q) = [os |-> q, levels |-> <<>>]
  BY <1>0, <1>2, PutIs
<1>4. w = [os |-> q, levels |-> <<level>>]
  <2> DEFINE c == Append(Put(NewWriter, q).levels, level)
  <2>1. w = [Put(NewWriter, q) EXCEPT !.levels = c]
    BY <1>1 DEF StartObject, q
  <2>2. c = <<level>>
    <3>1. Put(NewWriter, q).levels = <<>>
      BY <1>3
    <3> HIDE DEF level
    <3> QED
      BY <3>1, AppendNone
  <2> HIDE DEF c, w, level
  <2> QED
    BY <1>3, <2>1, <2>2, LevelsIs
<1> HIDE DEF w
<1>8. w \in Writer /\ w.os = q /\ w.levels = <<level>>
  <2> HIDE DEF level
  <2> QED
    BY <1>4, <1>6, <1>7 DEF Writer
<1>9. Sequence(<<>>) /\ Len(<<>>) = 0
  BY DEF Sequence
<1>10. s \in [1 .. 0 + 1 -> Nat] /\ s[1] = 2 /\ \A i \in 1 .. 0 : FALSE
  OBVIOUS
<1> HIDE DEF s
<1>11. Framed(w.os, <<>>, <<>>, s)
  BY <1>6, <1>8, <1>9, <1>10 DEF Framed
<1>12. Len(w.levels) = 1 /\ w.levels[1].inArray = FALSE /\ w.levels[1].valueCount = 0
  <2>1. level.inArray = FALSE /\ level.valueCount = 0
    OBVIOUS
  <2> HIDE DEF level
  <2> QED
    BY <1>7, <1>8, <2>1
<1>13. Written(w, <<>>, <<>>, s)
  BY <1>6, <1>8, <1>9, <1>11, <1>12 DEF Written
<1> QED
  BY <1>13 DEF s, w

\* What Prefix writes.
LEMMA PrefixWrites ==
  ASSUME NEW w \in Writer, Len(w.levels) = 1, w.levels[1].inArray = FALSE
  PROVE  LET n == w.levels[1].valueCount
         IN  /\ Prefix(w) \in Writer /\ Len(Prefix(w).levels) = 1
             /\ Prefix(w).levels[1].inArray = FALSE /\ Prefix(w).levels[1].valueCount = n + 1
             /\ Prefix(w).os = w.os \o IF n = 0 THEN <<>> ELSE <<Mark(n + 1)>>
<1> DEFINE Level == [inArray : BOOLEAN, valueCount : Nat]
           level == w.levels[1]
           n == level.valueCount
           mark == IF n = 0 THEN <<>> ELSE IF level.inArray \/ n % 2 = 0 THEN <<",">> ELSE <<":">>
           more == [level EXCEPT !.valueCount = n + 1]
           os == w.os
           levels == w.levels
           p == Put(w, mark)
<1>1. w = [os |-> os, levels |-> levels] /\ os \in Seq(Char) /\ levels \in Seq(Level) /\ Len(levels) = 1
  BY DEF Writer
<1>2. level \in Level /\ levels # <<>>
  <2> HIDE DEF Level
  <2>1. \A k \in 1 .. Len(levels) : levels[k] \in Level
    BY <1>1
  <2>2. 1 \in 1 .. Len(levels)
    BY <1>1
  <2> QED
    BY <1>1, <2>1, <2>2
<1>3. n \in Nat /\ more \in Level /\ more.inArray = FALSE /\ more.valueCount = n + 1
  BY <1>2
<1>4. Last(levels) = level
  BY <1>1 DEF Last
<1>5. n % 2 = 0 <=> (n + 1) % 2 # 0
  BY <1>3
<1>6. mark = IF n = 0 THEN <<>> ELSE <<Mark(n + 1)>>
  BY <1>5 DEF Mark
<1>7. p = [os |-> os \o mark, levels |-> levels]
  <2> HIDE DEF mark, os, levels
  <2> QED
    BY <1>1, PutIs
<1>8. Prefix(w) = [p EXCEPT !.levels[1].valueCount = @ + 1]
  BY <1>1, <1>2, <1>4 DEF Prefix
<1>9. Prefix(w) = [p EXCEPT !.levels = [levels EXCEPT ![1] = more]]
  <2>1. p.levels = levels
    <3> HIDE DEF p, mark, os, levels
    <3> QED
      BY <1>7
  <2>2. [p EXCEPT !.levels[1].valueCount = @ + 1]
          = [p EXCEPT !.levels = [p.levels EXCEPT ![1] = [p.levels[1] EXCEPT !.valueCount = p.levels[1].valueCount + 1]]]
    OBVIOUS
  <2> HIDE DEF p
  <2> QED
    BY <1>8, <2>1, <2>2
<1>10. Prefix(w) = [os |-> os \o mark, levels |-> [levels EXCEPT ![1] = more]]
  <2> HIDE DEF p, mark, os, levels, more
  <2> QED
    BY <1>7, <1>9, LevelsIs
<1>11. [levels EXCEPT ![1] = more] \in Seq(Level) /\ Len([levels EXCEPT ![1] = more]) = 1
      /\ [levels EXCEPT ![1] = more][1] = more
  <2> HIDE DEF levels, more, Level
  <2> QED
    BY <1>1, <1>3
<1>12. mark \in Seq(Char)
  <2>1. Mark(n + 1) \in Char
    BY DEF Mark, Char, Marks
  <2>2. <<Mark(n + 1)>> \in Seq(Char)
    BY <2>1, SingleSeq
  <2>3. <<>> \in Seq(Char)
    OBVIOUS
  <2> HIDE DEF mark, n
  <2> QED
    BY <1>6, <2>2, <2>3
<1>13. os \o mark \in Seq(Char)
  BY <1>1, <1>12, ConcatProperties
<1> DEFINE o == os \o mark
           l == [levels EXCEPT ![1] = more]
<1>14. Prefix(w) \in Writer /\ Prefix(w).os = o /\ Prefix(w).levels = l
  <2>1. Prefix(w) = [os |-> o, levels |-> l] /\ o \in Seq(Char) /\ l \in Seq(Level)
    BY <1>10, <1>11, <1>13
  <2> HIDE DEF o, l
  <2> QED
    BY <2>1 DEF Writer
<1>15. Prefix(w).os = os \o IF n = 0 THEN <<>> ELSE <<Mark(n + 1)>>
  <2> HIDE DEF os, n, mark
  <2> QED
    BY <1>6, <1>14
<1> QED
  BY <1>3, <1>11, <1>14, <1>15

LEMMA LexemeLong ==
  ASSUME NEW x \in Seq(Char), NEW v, Lexeme(x, v)
  PROVE  Len(x) \in Nat \ {0}
<1>1. Len(x) \in Nat
  OBVIOUS
<1>2. ASSUME NEW o, NEW chars, Spelled(x, chars, o) PROVE Len(x) # 0
  <2>1. chars \in Seq(Char \cup Blanks) /\ Len(chars) \in Nat /\ o \in [0 .. Len(chars) -> Nat] /\ o[0] = 2
        /\ o[Len(chars)] = Len(x)
    BY <1>2 DEF Spelled
  <2> DEFINE P == {k \in Nat : k <= Len(chars) => o[k] >= 2}
  <2>2. 0 \in P
    BY <2>1
  <2>3. ASSUME NEW k \in Nat, k \in P PROVE k + 1 \in P
    <3>1. ASSUME k + 1 <= Len(chars) PROVE o[k + 1] >= 2
      <4>1. k + 1 \in 1 .. Len(chars) /\ k \in 0 .. Len(chars) /\ (k + 1) - 1 = k
        BY <2>1, <3>1
      <4>2. o[k] \in Nat /\ o[k] >= 2
        BY <2>1, <2>3, <3>1, <4>1
      <4>3. o[k + 1] = o[k] + 2 \/ o[k + 1] = o[k] + 1
        BY <1>2, <4>1 DEF Spelled
      <4> QED
        BY <4>2, <4>3
    <3> QED
      BY <3>1
  <2>4. Nat \subseteq P
    <3> HIDE DEF P
    <3> QED
      BY <2>2, <2>3, Induction
  <2>5. Len(chars) \in P
    BY <2>1, <2>4
  <2> QED
    BY <2>1, <2>5
<1>3. ASSUME NEW i, NEW n, NEW D, Counts(x, i, n, D) PROVE Len(x) # 0
  BY <1>3 DEF Counts, Sign, Numeral
<1> QED
  BY <1>1, <1>2, <1>3 DEF Lexeme

\* The values are written one behind the other.
LEMMA FrameOrder ==
  ASSUME NEW b, NEW vals, NEW x, NEW s, Framed(b, vals, x, s)
  PROVE  LET n == Len(vals)
         IN  /\ n \in Nat /\ s[n + 1] \in Nat /\ s[n + 1] >= 2
             /\ \A i \in 1 .. n : s[i] \in Nat /\ s[i] >= 2 /\ s[i] + Len(x[i]) <= s[n + 1] - 1
<1> DEFINE n == Len(vals)
<1>2. Sequence(vals) /\ \A i \in 1 .. n : x[i] \in Seq(Char) /\ s[i + 1] = s[i] + Len(x[i]) + 1
  BY DEF Framed
<1>3. n \in Nat
  BY <1>2, LenProperties DEF Sequence
<1>21. s \in [1 .. n + 1 -> Nat] /\ s[1] = 2
  BY DEF Framed
<1> HIDE DEF n
<1>22. \A i \in 1 .. n : Len(x[i]) \in Nat /\ s[i + 1] = s[i] + Len(x[i]) + 1
  <2> SUFFICES ASSUME NEW i \in 1 .. n PROVE Len(x[i]) \in Nat /\ s[i + 1] = s[i] + Len(x[i]) + 1
    OBVIOUS
  <2>1. x[i] \in Seq(Char) /\ s[i + 1] = s[i] + Len(x[i]) + 1
    BY <1>2
  <2> QED
    BY <2>1, LenProperties
<1>7. s[n + 1] \in Nat /\ s[n + 1] >= 2 /\ \A i \in 1 .. n : s[i] \in Nat /\ s[i] >= 2 /\ s[i] + Len(x[i]) <= s[n + 1] - 1
  <2> DEFINE P == {k \in Nat : k <= n => /\ s[k + 1] >= 2
                                         /\ \A i \in 1 .. k : s[i] >= 2 /\ s[i] + Len(x[i]) <= s[k + 1] - 1}
  <2>1. 0 \in P
    BY <1>21
  <2>2. ASSUME NEW k \in Nat, k \in P PROVE k + 1 \in P
    <3>1. ASSUME k + 1 <= n
          PROVE  /\ s[(k + 1) + 1] >= 2
                 /\ \A i \in 1 .. k + 1 : s[i] >= 2 /\ s[i] + Len(x[i]) <= s[(k + 1) + 1] - 1
      <4>1. k + 1 \in 1 .. n /\ k + 1 \in 1 .. n + 1 /\ k + 2 \in 1 .. n + 1 /\ (k + 1) + 1 = k + 2
        BY <1>3, <3>1
      <4>2. s[k + 1] >= 2 /\ \A i \in 1 .. k : s[i] >= 2 /\ s[i] + Len(x[i]) <= s[k + 1] - 1
        BY <1>3, <2>2, <3>1
      <4>3. s[k + 2] = s[k + 1] + Len(x[k + 1]) + 1 /\ Len(x[k + 1]) \in Nat
        BY <1>22, <4>1
      <4>4. s[k + 1] \in Nat /\ s[k + 2] \in Nat
        BY <1>21, <4>1
      <4>5. ASSUME NEW i \in 1 .. k PROVE s[i] + Len(x[i]) <= s[k + 2] - 1
        <5>1. i \in 1 .. n /\ i \in 1 .. n + 1
          BY <1>3, <3>1
        <5>2. s[i] \in Nat /\ Len(x[i]) \in Nat
          BY <1>21, <1>22, <5>1
        <5>3. s[i] + Len(x[i]) <= s[k + 1] - 1
          BY <4>2
        <5>4. s[k + 1] <= s[k + 2]
          BY <4>3, <4>4
        <5> QED
          BY <4>4, <5>2, <5>3, <5>4, SMTT(40)
      <4>6. \A i \in 1 .. k + 1 : i \in 1 .. k \/ i = k + 1
        OBVIOUS
      <4>7. s[k + 1] + Len(x[k + 1]) <= s[k + 2] - 1 /\ s[k + 2] >= 2
        BY <4>2, <4>3, <4>4
      <4> QED
        BY <4>1, <4>2, <4>5, <4>6, <4>7
    <3> QED
      BY <3>1
  <2>3. Nat \subseteq P
    <3> HIDE DEF P
    <3> QED
      BY <2>1, <2>2, Induction
  <2>4. n + 1 \in 1 .. n + 1 /\ \A i \in 1 .. n : i \in 1 .. n + 1
    BY <1>3
  <2>5. n \in P /\ n <= n
    BY <1>3, <2>3
  <2> QED
    BY <1>21, <2>4, <2>5
<1> QED
  BY <1>3, <1>7 DEF n

\* One more value.
LEMMA WriteOne ==
  ASSUME NEW w, NEW vals, NEW x, NEW s, Written(w, vals, x, s),
         NEW l \in Seq(Char), NEW v, Lexeme(l, v)
  PROVE  LET u == Put(Prefix(w), l)
         IN  \E r : Written(u, Append(vals, v), Append(x, l), r)
<1> DEFINE n == Len(vals)
           p == Prefix(w)
           u == Put(p, l)
           r == [i \in 1 .. n + 2 |-> IF i = n + 2 THEN s[n + 1] + Len(l) + 1 ELSE s[i]]
           vv == Append(vals, v)
           xx == Append(x, l)
<1>1. /\ w \in Writer /\ Len(w.levels) = 1
      /\ w.levels[1].inArray = FALSE /\ w.levels[1].valueCount = n
      /\ Framed(w.os, vals, x, s)
      /\ Len(w.os) = IF n = 0 THEN 1 ELSE s[n + 1] - 2
  BY DEF Written
<1>2. /\ Sequence(vals) /\ Sequence(x) /\ Len(x) = n
      /\ s \in [1 .. n + 1 -> Nat] /\ s[1] = 2 /\ w.os[1] = "{"
      /\ \A i \in 1 .. n :
           /\ x[i] \in Seq(Char) /\ Lexeme(x[i], vals[i]) /\ s[i + 1] = s[i] + Len(x[i]) + 1
           /\ \A k \in 1 .. Len(x[i]) : w.os[s[i] + k - 1] = x[i][k]
           /\ i > 1 => w.os[s[i] - 1] = Mark(i)
  BY <1>1 DEF Framed
<1>3. /\ Sequence(vv) /\ n \in Nat /\ Len(vv) = n + 1 /\ vv[n + 1] = v /\ \A i \in 1 .. n : vv[i] = vals[i]
      /\ Sequence(xx) /\ Len(xx) = n + 1 /\ xx[n + 1] = l /\ \A i \in 1 .. n : xx[i] = x[i]
  <2>0. Sequence(vals) /\ Sequence(x)
    BY <1>2
  <2>1. /\ Sequence(Append(vals, v)) /\ Len(vals) \in Nat /\ Len(Append(vals, v)) = Len(vals) + 1
        /\ Append(vals, v)[Len(vals) + 1] = v
        /\ \A i \in 1 .. Len(vals) : Append(vals, v)[i] = vals[i]
    BY <2>0, AppendAny
  <2>2. /\ Sequence(Append(x, l)) /\ Len(Append(x, l)) = Len(x) + 1
        /\ Append(x, l)[Len(x) + 1] = l
        /\ \A i \in 1 .. Len(x) : Append(x, l)[i] = x[i]
    BY <2>0, AppendAny
  <2> QED
    BY <1>2, <2>1, <2>2
<1> HIDE DEF n, vv, xx
<1>21. s \in [1 .. n + 1 -> Nat] /\ s[1] = 2
  BY <1>2
<1>22. \A i \in 1 .. n : Len(x[i]) \in Nat /\ s[i + 1] = s[i] + Len(x[i]) + 1
  <2> SUFFICES ASSUME NEW i \in 1 .. n PROVE Len(x[i]) \in Nat /\ s[i + 1] = s[i] + Len(x[i]) + 1
    OBVIOUS
  <2>1. x[i] \in Seq(Char) /\ s[i + 1] = s[i] + Len(x[i]) + 1
    BY <1>2
  <2> QED
    BY <2>1, LenProperties
<1>4. w.os \in Seq(Char) /\ Len(w.os) \in Nat /\ Sequence(w.os) /\ Len(l) \in Nat /\ Sequence(l)
  BY <1>1 DEF Writer, Sequence
<1> DEFINE mark == IF n = 0 THEN <<>> ELSE <<Mark(n + 1)>>
<1>5. /\ p \in Writer /\ Len(p.levels) = 1
      /\ p.levels[1].inArray = FALSE /\ p.levels[1].valueCount = n + 1
      /\ p.os = w.os \o mark
  BY <1>1, PrefixWrites
<1>6. /\ u \in Writer /\ Len(u.levels) = 1 /\ u.levels[1].inArray = FALSE /\ u.levels[1].valueCount = n + 1
      /\ u.os = p.os \o l
  <2>1. p.os \o l \in Seq(Char)
    BY <1>5, ConcatProperties DEF Writer
  <2>2. p = [os |-> p.os, levels |-> p.levels]
    BY <1>5 DEF Writer
  <2> HIDE DEF p
  <2>3. u = [os |-> p.os \o l, levels |-> p.levels]
    BY <2>2, PutIs
  <2> DEFINE o == p.os \o l
             levels == p.levels
  <2>4. u \in Writer /\ u.os = o /\ u.levels = levels
    <3>1. u = [os |-> o, levels |-> levels] /\ o \in Seq(Char) /\ levels \in Seq([inArray : BOOLEAN, valueCount : Nat])
      BY <1>5, <2>1, <2>3 DEF Writer
    <3> HIDE DEF o, levels, u
    <3> QED
      BY <3>1 DEF Writer
  <2> HIDE DEF u
  <2> QED
    BY <1>5, <2>4
<1> HIDE DEF p, u
<1>7. s[n + 1] \in Nat /\ s[n + 1] >= 2 /\ \A i \in 1 .. n : s[i] \in Nat /\ s[i] >= 2 /\ s[i] + Len(x[i]) <= s[n + 1] - 1
  BY <1>1, FrameOrder DEF n
<1>8. /\ Sequence(p.os) /\ Len(p.os) = s[n + 1] - 1 /\ \A i \in 1 .. Len(w.os) : p.os[i] = w.os[i]
      /\ n > 0 => p.os[s[n + 1] - 1] = Mark(n + 1)
  <2>1. CASE n = 0
    <3>1. mark = <<>> /\ p.os = w.os
      BY <1>4, <1>5, <2>1, ConcatProperties
    <3>2. Len(w.os) = 1 /\ s[n + 1] = 2
      BY <1>1, <1>21, <2>1
    <3> QED
      BY <1>4, <2>1, <3>1, <3>2
  <2>2. CASE n # 0
    <3>1. Sequence(mark) /\ Len(mark) = 1 /\ mark[1] = Mark(n + 1)
      BY <2>2, Single
    <3> HIDE DEF mark
    <3>2. /\ Sequence(p.os) /\ Len(p.os) = Len(w.os) + Len(mark)
          /\ \A i \in 1 .. Len(w.os) : p.os[i] = w.os[i]
          /\ \A i \in 1 .. Len(mark) : p.os[Len(w.os) + i] = mark[i]
      <4>1. p.os = w.os \o mark /\ Sequence(w.os)
        BY <1>4, <1>5
      <4> DEFINE a == w.os
      <4>2. Sequence(a) /\ Sequence(mark)
        BY <3>1, <4>1
      <4> HIDE DEF a
      <4>3. /\ Sequence(a \o mark) /\ Len(a \o mark) = Len(a) + Len(mark)
            /\ \A i \in 1 .. Len(a) : (a \o mark)[i] = a[i]
            /\ \A i \in 1 .. Len(mark) : (a \o mark)[Len(a) + i] = mark[i]
        BY <4>2, Joins
      <4> QED
        BY <4>1, <4>3 DEF a
    <3>3. 1 \in 1 .. Len(mark) /\ Len(w.os) = s[n + 1] - 2 /\ Len(w.os) + 1 = s[n + 1] - 1
      BY <1>1, <1>7, <2>2, <3>1
    <3> QED
      BY <1>7, <3>1, <3>2, <3>3
  <2> QED
    BY <2>1, <2>2
<1>9. /\ Len(u.os) = s[n + 1] - 1 + Len(l) /\ \A i \in 1 .. Len(p.os) : u.os[i] = p.os[i]
      /\ \A i \in 1 .. Len(l) : u.os[s[n + 1] - 1 + i] = l[i]
  <2>0. Sequence(p.os) /\ Sequence(l) /\ u.os = p.os \o l
    BY <1>4, <1>6, <1>8
  <2>1. /\ Len(u.os) = Len(p.os) + Len(l) /\ \A i \in 1 .. Len(p.os) : u.os[i] = p.os[i]
        /\ \A i \in 1 .. Len(l) : u.os[Len(p.os) + i] = l[i]
    BY <2>0, Glue
  <2> QED
    BY <1>8, <2>1
<1>10. /\ r \in [1 .. (n + 1) + 1 -> Nat] /\ r[n + 2] = s[n + 1] + Len(l) + 1 /\ \A i \in 1 .. n + 1 : r[i] = s[i]
  <2>1. s[n + 1] + Len(l) + 1 \in Nat /\ (n + 1) + 1 = n + 2
    BY <1>3, <1>4, <1>7
  <2>2. \A i \in 1 .. n + 2 : i # n + 2 => i \in 1 .. n + 1
    BY <1>3
  <2>3. n + 2 \in 1 .. n + 2 /\ \A i \in 1 .. n + 1 : i \in 1 .. n + 2 /\ i # n + 2
    BY <1>3
  <2> QED
    BY <1>2, <2>1, <2>2, <2>3
<1> HIDE DEF r
\* What was written stays.
<1>11. \A i \in 1 .. s[n + 1] - 2 : n > 0 => u.os[i] = w.os[i]
  <2> SUFFICES ASSUME NEW i \in 1 .. s[n + 1] - 2, n > 0 PROVE u.os[i] = w.os[i]
    OBVIOUS
  <2>1. i \in 1 .. Len(w.os) /\ i \in 1 .. Len(p.os)
    BY <1>1, <1>7, <1>8
  <2> QED
    BY <1>8, <1>9, <2>1
<1>12. u.os[1] = "{"
  <2>1. Len(w.os) >= 1 /\ Len(w.os) <= Len(p.os) /\ Len(p.os) \in Nat
    <3>1. CASE n = 0
      <4>1. Len(w.os) = 1 /\ s[n + 1] = 2
        BY <1>1, <1>21, <3>1
      <4> QED
        BY <1>8, <4>1
    <3>2. CASE n # 0
      <4>1. 1 \in 1 .. n
        BY <1>3, <3>2
      <4>2. s[1] + Len(x[1]) <= s[n + 1] - 1 /\ Lexeme(x[1], vals[1]) /\ x[1] \in Seq(Char)
        BY <1>2, <1>7, <4>1
      <4>3. Len(x[1]) \in Nat \ {0}
        BY <4>2, LexemeLong
      <4>4. Len(w.os) = s[n + 1] - 2
        BY <1>1, <3>2
      <4> QED
        BY <1>21, <1>7, <1>8, <4>2, <4>3, <4>4
    <3> QED
      BY <3>1, <3>2
  <2>2. 1 \in 1 .. Len(w.os) /\ 1 \in 1 .. Len(p.os)
    BY <1>4, <2>1
  <2>3. w.os[1] = "{"
    BY <1>2
  <2>4. u.os[1] = p.os[1] /\ p.os[1] = w.os[1]
    BY <1>8, <1>9, <2>2
  <2> QED
    BY <2>3, <2>4
<1>13. ASSUME NEW i \in 1 .. n + 1
       PROVE  /\ xx[i] \in Seq(Char) /\ Lexeme(xx[i], vv[i]) /\ r[i + 1] = r[i] + Len(xx[i]) + 1
              /\ \A k \in 1 .. Len(xx[i]) : u.os[r[i] + k - 1] = xx[i][k]
              /\ i > 1 => u.os[r[i] - 1] = Mark(i)
  <2>1. CASE i = n + 1
    <3>1. r[i] = s[n + 1] /\ r[i + 1] = s[n + 1] + Len(l) + 1 /\ xx[i] = l /\ vv[i] = v
      BY <1>3, <1>10, <2>1
    <3>2. ASSUME NEW k \in 1 .. Len(l) PROVE u.os[s[n + 1] + k - 1] = l[k]
      <4>1. s[n + 1] + k - 1 = s[n + 1] - 1 + k
        BY <1>7
      <4> QED
        BY <1>9, <4>1
    <3>3. ASSUME i > 1 PROVE u.os[s[n + 1] - 1] = Mark(i)
      <4>1. n > 0 /\ s[n + 1] - 1 \in 1 .. Len(p.os)
        BY <1>3, <1>7, <1>8, <2>1, <3>3
      <4> QED
        BY <1>8, <1>9, <2>1, <4>1
    <3> QED
      BY <3>1, <3>2, <3>3
  <2>2. CASE i # n + 1
    <3>1. i \in 1 .. n /\ i \in 1 .. n + 1 /\ i + 1 \in 1 .. n + 1 /\ n > 0
      BY <1>3, <2>2
    <3>2. r[i] = s[i] /\ r[i + 1] = s[i + 1] /\ xx[i] = x[i] /\ vv[i] = vals[i]
      BY <1>3, <1>10, <3>1
    <3>3. /\ x[i] \in Seq(Char) /\ Lexeme(x[i], vals[i]) /\ s[i + 1] = s[i] + Len(x[i]) + 1
          /\ \A k \in 1 .. Len(x[i]) : w.os[s[i] + k - 1] = x[i][k]
          /\ i > 1 => w.os[s[i] - 1] = Mark(i)
      BY <1>2, <3>1
    <3>4. s[i] \in Nat /\ s[i] >= 2 /\ s[i] + Len(x[i]) <= s[n + 1] - 1 /\ Len(x[i]) \in Nat
      BY <1>7, <3>1, <3>3
    <3>5. ASSUME NEW k \in 1 .. Len(x[i]) PROVE u.os[s[i] + k - 1] = x[i][k]
      <4>1. s[i] + k - 1 \in 1 .. s[n + 1] - 2
        BY <1>7, <3>4, SMTT(40)
      <4> QED
        BY <1>11, <3>1, <3>3, <4>1
    <3>6. ASSUME i > 1 PROVE u.os[s[i] - 1] = Mark(i)
      <4>1. s[i] - 1 \in 1 .. s[n + 1] - 2
        BY <1>7, <3>4, SMTT(40)
      <4> QED
        BY <1>11, <3>1, <3>3, <3>6, <4>1
    <3> QED
      BY <3>2, <3>3, <3>5, <3>6
  <2> QED
    BY <2>1, <2>2
<1>14. Framed(u.os, vv, xx, r)
  <2>1. r[1] = 2
    <3>1. 1 \in 1 .. n + 1
      BY <1>3
    <3> QED
      BY <1>21, <1>10, <3>1
  <2> QED
    BY <1>3, <1>10, <1>12, <1>13, <2>1 DEF Framed
<1>15. Len(u.os) = r[(n + 1) + 1] - 2 /\ n + 1 # 0
  <2>1. (n + 1) + 1 = n + 2
    BY <1>3
  <2> QED
    BY <1>3, <1>4, <1>7, <1>9, <1>10, <2>1
<1>16. Written(u, vv, xx, r)
  BY <1>3, <1>6, <1>14, <1>15 DEF Written
<1> QED
  BY <1>16 DEF vv, xx, u, p

\* The bytes b are an object of the values vals, as the writer writes it, and then a NUL.
Whole(b, vals, x, s) ==
  /\ Framed(b, vals, x, s)
  /\ Len(vals) > 0 /\ Len(vals) % 2 = 0 /\ \A i \in 1 .. Len(vals) : i % 2 = 1 => vals[i][1] = "string"
  /\ b[s[Len(vals) + 1] - 1] = "}" /\ b[s[Len(vals) + 1]] = NUL

\* The text t is such an object.
ObjectText(t, vals, x, s) ==
  /\ t \in Seq(Char) /\ Framed(t, vals, x, s)
  /\ Len(vals) > 0 /\ Len(vals) % 2 = 0 /\ \A i \in 1 .. Len(vals) : i % 2 = 1 => vals[i][1] = "string"
  /\ Len(t) = s[Len(vals) + 1] - 1 /\ t[Len(t)] = "}"

\* Whatever follows the NUL.
LEMMA TextWhole ==
  ASSUME NEW t, NEW vals, NEW x, NEW s, ObjectText(t, vals, x, s),
         NEW b, \A k \in 1 .. Len(t) : b[k] = t[k], b[Len(t) + 1] = NUL
  PROVE  Whole(b, vals, x, s)
<1> DEFINE n == Len(vals)
<1>1. /\ t \in Seq(Char) /\ Framed(t, vals, x, s)
      /\ n > 0 /\ n % 2 = 0 /\ \A i \in 1 .. n : i % 2 = 1 => vals[i][1] = "string"
      /\ Len(t) = s[n + 1] - 1 /\ t[Len(t)] = "}"
  BY DEF ObjectText
<1>2. /\ n \in Nat /\ s[n + 1] \in Nat /\ s[n + 1] >= 2
      /\ \A i \in 1 .. n : s[i] \in Nat /\ s[i] >= 2 /\ s[i] + Len(x[i]) <= s[n + 1] - 1
  BY <1>1, FrameOrder
<1>0. Len(t) = s[n + 1] - 1
  BY <1>1, Zenon
<1>3. /\ Sequence(vals) /\ Sequence(x) /\ Len(x) = n
      /\ s \in [1 .. n + 1 -> Nat] /\ s[1] = 2 /\ t[1] = "{"
      /\ \A i \in 1 .. n :
           /\ x[i] \in Seq(Char) /\ Lexeme(x[i], vals[i]) /\ s[i + 1] = s[i] + Len(x[i]) + 1
           /\ \A k \in 1 .. Len(x[i]) : t[s[i] + k - 1] = x[i][k]
           /\ i > 1 => t[s[i] - 1] = Mark(i)
  BY <1>1 DEF Framed
<1> HIDE DEF n
<1>4. ASSUME NEW i \in 1 .. n
      PROVE  /\ \A k \in 1 .. Len(x[i]) : b[s[i] + k - 1] = x[i][k]
             /\ i > 1 => b[s[i] - 1] = Mark(i)
  <2>1. s[i] \in Nat /\ s[i] >= 2 /\ s[i] + Len(x[i]) <= s[n + 1] - 1
    BY <1>2
  <2>2. x[i] \in Seq(Char)
    BY <1>3
  <2>3. Len(x[i]) \in Nat
    BY <2>2, LenProperties
  <2>4. ASSUME NEW k \in 1 .. Len(x[i]) PROVE b[s[i] + k - 1] = x[i][k]
    <3>1. s[i] + k - 1 \in 1 .. Len(t)
      BY <1>0, <1>2, <2>1, <2>3, SMTT(40)
    <3>2. t[s[i] + k - 1] = x[i][k]
      BY <1>3
    <3> QED
      BY <3>1, <3>2
  <2>5. ASSUME i > 1 PROVE b[s[i] - 1] = Mark(i)
    <3>1. s[i] - 1 \in 1 .. Len(t)
      BY <1>0, <1>2, <2>1, <2>3, SMTT(40)
    <3>2. t[s[i] - 1] = Mark(i)
      BY <1>3, <2>5
    <3> QED
      BY <3>1, <3>2
  <2> QED
    BY <2>4, <2>5
<1>5. 1 \in 1 .. Len(t) /\ Len(t) \in 1 .. Len(t) /\ Len(t) + 1 = s[n + 1]
  BY <1>0, <1>2
<1>6. b[1] = "{" /\ b[s[n + 1] - 1] = "}" /\ b[s[n + 1]] = NUL
  BY <1>1, <1>3, <1>5
<1>7. Framed(b, vals, x, s)
  BY <1>3, <1>4, <1>6 DEF Framed, n
<1> QED
  BY <1>1, <1>6, <1>7 DEF Whole, n

\* The object is closed.
LEMMA EndWritten ==
  ASSUME NEW w, NEW vals, NEW x, NEW s, Written(w, vals, x, s),
         Len(vals) > 0, Len(vals) % 2 = 0, \A i \in 1 .. Len(vals) : i % 2 = 1 => vals[i][1] = "string"
  PROVE  ObjectText(EndObject(w).os, vals, x, s)
<1> DEFINE n == Len(vals)
           t == EndObject(w).os
           q == <<"}">>
           o == w.os
<1>1. w \in Writer /\ Framed(o, vals, x, s)
  BY DEF Written
<1>0. Len(o) = s[n + 1] - 2
  BY DEF Written
<1>2. /\ n \in Nat /\ s[n + 1] \in Nat /\ s[n + 1] >= 2
      /\ \A i \in 1 .. n : s[i] \in Nat /\ s[i] >= 2 /\ s[i] + Len(x[i]) <= s[n + 1] - 1
  BY <1>1, FrameOrder
<1>3. /\ Sequence(vals) /\ Sequence(x) /\ Len(x) = n
      /\ s \in [1 .. n + 1 -> Nat] /\ s[1] = 2 /\ o[1] = "{"
      /\ \A i \in 1 .. n :
           /\ x[i] \in Seq(Char) /\ Lexeme(x[i], vals[i]) /\ s[i + 1] = s[i] + Len(x[i]) + 1
           /\ \A k \in 1 .. Len(x[i]) : o[s[i] + k - 1] = x[i][k]
           /\ i > 1 => o[s[i] - 1] = Mark(i)
  BY <1>1 DEF Framed
<1>4. w = [os |-> o, levels |-> w.levels] /\ o \in Seq(Char)
  BY <1>1 DEF Writer
<1>5. q \in Seq(Char) /\ Len(q) = 1 /\ q[1] = "}"
  <2>1. "}" \in Char
    BY DEF Char, Marks
  <2> QED
    BY <2>1, SingleSeq, Zenon
<1>6. t = o \o q
  <2> DEFINE p == Put(w, q)
             c == Front(p.levels)
  <2>1. p = [os |-> o \o q, levels |-> w.levels]
    <3> DEFINE z == w.levels
    <3>1. w = [os |-> o, levels |-> z]
      BY <1>4
    <3> HIDE DEF z, o, q
    <3> QED
      BY <3>1, PutIs
  <2>2. EndObject(w) = [p EXCEPT !.levels = c]
    BY DEF EndObject
  <2> HIDE DEF p, c, o, q
  <2>3. EndObject(w) = [os |-> o \o q, levels |-> c]
    BY <2>1, <2>2, LevelsIs
  <2> QED
    BY <2>3
<1> HIDE DEF n, t, q, o
<1>7. /\ Len(t) = Len(o) + Len(q) /\ Len(o) \in Nat
      /\ \A i \in 1 .. Len(o) : t[i] = o[i]
      /\ \A i \in 1 .. Len(q) : t[Len(o) + i] = q[i]
  <2>1. Sequence(o) /\ Sequence(q)
    BY <1>4, <1>5 DEF Sequence
  <2> QED
    BY <1>6, <2>1, Joins
<1>8. t \in Seq(Char)
  BY <1>4, <1>5, <1>6, ConcatProperties
<1>9. Len(t) = s[n + 1] - 1 /\ t[Len(t)] = "}"
  <2>0. Len(q) = 1
    BY <1>5, Zenon
  <2>1. 1 \in 1 .. Len(q)
    BY <2>0
  <2>2. t[Len(o) + 1] = "}" /\ Len(t) = Len(o) + 1
    BY <1>5, <1>7, <2>1
  <2>3. Len(t) = Len(o) + 1
    BY <1>7, <2>0
  <2>4. Len(t) = s[n + 1] - 1
    BY <1>0, <1>2, <2>3
  <2> QED
    BY <2>2, <2>4, Zenon
<1>10. ASSUME NEW i \in 1 .. n
      PROVE  /\ \A k \in 1 .. Len(x[i]) : t[s[i] + k - 1] = x[i][k]
             /\ i > 1 => t[s[i] - 1] = Mark(i)
  <2>1. s[i] \in Nat /\ s[i] >= 2 /\ s[i] + Len(x[i]) <= s[n + 1] - 1
    BY <1>2
  <2>2. x[i] \in Seq(Char)
    BY <1>3
  <2>3. Len(x[i]) \in Nat
    BY <2>2, LenProperties
  <2>4. ASSUME NEW k \in 1 .. Len(x[i]) PROVE t[s[i] + k - 1] = x[i][k]
    <3>1. s[i] + k - 1 \in 1 .. Len(o)
      <4> DEFINE a == s[i]
                 l == Len(x[i])
                 e == s[n + 1]
                 m == Len(o)
      <4>1. a \in Nat /\ a >= 2 /\ l \in Nat /\ e \in Nat /\ a + l <= e - 1 /\ m = e - 2
        BY <1>0, <1>2, <2>1, <2>3, Zenon
      <4>2. k \in 1 .. l
        OBVIOUS
      <4> HIDE DEF a, l, e, m
      <4>3. a + k - 1 \in 1 .. m
        BY <4>1, <4>2
      <4> QED
        BY <4>3 DEF a, m
    <3>2. o[s[i] + k - 1] = x[i][k]
      BY <1>3
    <3> QED
      BY <1>7, <3>1, <3>2
  <2>5. ASSUME i > 1 PROVE t[s[i] - 1] = Mark(i)
    <3>1. s[i] - 1 \in 1 .. Len(o)
      BY <1>0, <1>2, <2>1, <2>3, SMTT(40)
    <3>2. o[s[i] - 1] = Mark(i)
      BY <1>3, <2>5
    <3> QED
      BY <1>7, <3>1, <3>2
  <2> QED
    BY <2>4, <2>5
<1>11. t[1] = "{"
  <2>1. 1 \in 1 .. n
    BY <1>2 DEF n
  <2>2. s[1] + Len(x[1]) <= s[n + 1] - 1 /\ Lexeme(x[1], vals[1]) /\ x[1] \in Seq(Char)
    BY <1>2, <1>3, <2>1
  <2>3. Len(x[1]) \in Nat \ {0}
    BY <2>2, LexemeLong
  <2>4. 1 \in 1 .. Len(o)
    <3>1. s[1] = 2 /\ s[n + 1] \in Nat
      BY <1>2, <1>3
    <3> QED
      BY <1>0, <2>2, <2>3, <3>1
  <2> QED
    BY <1>3, <1>7, <2>4
<1>12. Framed(t, vals, x, s)
  BY <1>3, <1>10, <1>11 DEF Framed, n
<1> QED
  BY <1>8, <1>9, <1>12 DEF ObjectText, n, t

LEMMA WriteStringIs ==
  \A w, chars : WriteString(w, chars) = Put(Prefix(w), <<"quote">> \o Inside(chars) \o <<"quote">>)
BY DEF WriteString, Inside

\* A member whose value is an int, and one whose value is a string.
LEMMA WriteIntMember ==
  ASSUME NEW w, NEW vals, NEW x, NEW s, Written(w, vals, x, s),
         NEW name \in Seq(Char \cup Blanks), NEW i \in -Half .. Half - 1
  PROVE  \E y, r : Written(WriteInt(WriteString(w, name), i),
                           Append(Append(vals, <<"string", name>>), <<"int", <<i>>>>), y, r)
<1> DEFINE l == <<"quote">> \o Inside(name) \o <<"quote">>
           v == <<"string", name>>
           u == Put(Prefix(w), l)
<1>1. l \in Seq(Char) /\ Lexeme(l, v)
  BY StringLexeme
<1>2. WriteString(w, name) = u
  BY WriteStringIs
<1> HIDE DEF l, v, u
<1>3. PICK r : Written(u, Append(vals, v), Append(x, l), r)
  BY <1>1, WriteOne DEF u
<1> DEFINE m == i32toa(i)
           n == <<"int", <<i>>>>
<1>4. m \in Seq(Char) /\ Lexeme(m, n)
  BY IntLexeme
<1>5. WriteInt(u, i) = Put(Prefix(u), m)
  BY DEF WriteInt
<1> HIDE DEF m, n
<1>6. \E q : Written(Put(Prefix(u), m), Append(Append(vals, v), n), Append(Append(x, l), m), q)
  BY <1>3, <1>4, WriteOne
<1> QED
  BY <1>2, <1>5, <1>6 DEF v, n

LEMMA WriteStringMember ==
  ASSUME NEW w, NEW vals, NEW x, NEW s, Written(w, vals, x, s),
         NEW name \in Seq(Char \cup Blanks), NEW chars \in Seq(Char \cup Blanks)
  PROVE  \E y, r : Written(WriteString(WriteString(w, name), chars),
                           Append(Append(vals, <<"string", name>>), <<"string", chars>>), y, r)
<1> DEFINE l == <<"quote">> \o Inside(name) \o <<"quote">>
           v == <<"string", name>>
           u == Put(Prefix(w), l)
<1>1. l \in Seq(Char) /\ Lexeme(l, v)
  BY StringLexeme
<1>2. WriteString(w, name) = u
  BY WriteStringIs
<1> HIDE DEF l, v, u
<1>3. PICK r : Written(u, Append(vals, v), Append(x, l), r)
  BY <1>1, WriteOne DEF u
<1> DEFINE m == <<"quote">> \o Inside(chars) \o <<"quote">>
           n == <<"string", chars>>
<1>4. m \in Seq(Char) /\ Lexeme(m, n)
  BY StringLexeme
<1>5. WriteString(u, chars) = Put(Prefix(u), m)
  BY WriteStringIs
<1> HIDE DEF m, n
<1>6. \E q : Written(Put(Prefix(u), m), Append(Append(vals, v), n), Append(Append(x, l), m), q)
  BY <1>3, <1>4, WriteOne
<1> QED
  BY <1>2, <1>5, <1>6 DEF v, n

\* A member more.
EndsInTwo(w, vals, a, b) ==
  /\ Sequence(w) /\ Len(vals) \in Nat /\ Len(w) = Len(vals) + 2
  /\ \A i \in 1 .. Len(vals) : w[i] = vals[i]
  /\ w[Len(vals) + 1] = a /\ w[Len(vals) + 2] = b

LEMMA TwoMore ==
  \A vals, a, b :
    Sequence(vals) => /\ Append(Append(vals, a), b) = vals \o <<a, b>>
                      /\ EndsInTwo(vals \o <<a, b>>, vals, a, b)
<1> TAKE vals, a, b
<1> HAVE Sequence(vals)
<1> DEFINE c == Append(vals, a)
           d == Append(c, b)
           e == <<a, b>>
           f == vals \o e
           n == Len(vals)
<1>1. n \in Nat /\ Sequence(c) /\ Len(c) = n + 1 /\ c[n + 1] = a /\ \A i \in 1 .. n : c[i] = vals[i]
  BY AppendAny
<1>2. Sequence(e) /\ Len(e) = 2 /\ e[1] = a /\ e[2] = b
  <2>1. e \in Seq({a, b})
    OBVIOUS
  <2> QED
    BY <2>1 DEF Sequence
<1> HIDE DEF c, e, n
<1>3. Sequence(d) /\ Len(d) = Len(c) + 1 /\ d[Len(c) + 1] = b /\ \A i \in 1 .. Len(c) : d[i] = c[i]
  BY <1>1, AppendAny
<1>4. /\ Sequence(f) /\ Len(f) = n + 2 /\ \A i \in 1 .. n : f[i] = vals[i]
      /\ \A i \in 1 .. Len(e) : f[n + i] = e[i]
  <2>1. Sequence(vals) /\ Sequence(e)
    BY <1>2
  <2>2. /\ Sequence(vals \o e) /\ Len(vals \o e) = Len(vals) + Len(e)
        /\ \A i \in 1 .. Len(vals) : (vals \o e)[i] = vals[i]
        /\ \A i \in 1 .. Len(e) : (vals \o e)[Len(vals) + i] = e[i]
    BY <2>1, Joins
  <2> QED
    BY <1>2, <2>2 DEF n
<1> HIDE DEF d, f
<1>5. f[n + 1] = a /\ f[n + 2] = b
  <2>1. 1 \in 1 .. Len(e) /\ 2 \in 1 .. Len(e)
    BY <1>2
  <2> QED
    BY <1>2, <1>4, <2>1
<1>6. d[n + 1] = a /\ d[n + 2] = b /\ Len(d) = n + 2 /\ \A i \in 1 .. n : d[i] = vals[i]
  <2>1. n + 1 \in 1 .. Len(c) /\ Len(c) + 1 = n + 2 /\ \A i \in 1 .. n : i \in 1 .. Len(c)
    BY <1>1
  <2> QED
    BY <1>1, <1>3, <2>1
<1>7. \A i \in 1 .. n + 2 : i \in 1 .. n \/ i = n + 1 \/ i = n + 2
  BY <1>1
<1>8. d = f
  BY <1>3, <1>4, <1>5, <1>6, <1>7, SameElements
<1> QED
  <2>1. EndsInTwo(f, vals, a, b)
    BY <1>1, <1>4, <1>5 DEF EndsInTwo, n
  <2> QED
    BY <1>8, <2>1 DEF d, c, f, e

-----------------------------------------------------------------------------
(* The grammar: how a text's value follows from those of its parts.        *)

RowsBody(g, n, chars, max) ==
  IF n = 0 THEN [k \in 0 .. max |-> {}]
  ELSE [g[n - 1] EXCEPT ![n - 1] = Row(g[n - 1], n - 1, chars, max)]

RowsTo(g, chars, max, k) == /\ g = [n \in 0 .. max + 1 |-> g[n]]
                            /\ \A n \in 0 .. k - 1 : g[n] = RowsBody(g, n, chars, max)

LEMMA RowsExist ==
  ASSUME NEW chars, NEW max \in Nat
  PROVE  \E g : g = [n \in 0 .. max + 1 |-> RowsBody(g, n, chars, max)]
<1> DEFINE P == {k \in Nat : k <= max + 2 => \E g : RowsTo(g, chars, max, k)}
<1>1. 0 \in P
  <2> DEFINE g == [n \in 0 .. max + 1 |-> <<>>]
  <2>1. g = [n \in 0 .. max + 1 |-> g[n]]
    OBVIOUS
  <2>2. RowsTo(g, chars, max, 0)
    BY <2>1 DEF RowsTo
  <2> HIDE DEF g
  <2> QED
    BY <2>2
<1>2. ASSUME NEW k \in Nat, k \in P PROVE k + 1 \in P
  <2>0. ASSUME k + 1 <= max + 2 PROVE \E g : RowsTo(g, chars, max, k + 1)
    <3>1. PICK g : RowsTo(g, chars, max, k)
      BY <1>2, <2>0
    <3> DEFINE h == [n \in 0 .. max + 1 |-> RowsBody(g, n, chars, max)]
    <3>2. h = [n \in 0 .. max + 1 |-> h[n]]
      OBVIOUS
    <3>3. ASSUME NEW n \in 0 .. k - 1 PROVE h[n] = g[n]
      <4>1. n \in 0 .. max + 1
        BY <2>0
      <4> QED
        BY <3>1, <4>1 DEF RowsTo
    <3>4. ASSUME NEW n \in 0 .. (k + 1) - 1 PROVE h[n] = RowsBody(h, n, chars, max)
      <4>1. n \in 0 .. max + 1 /\ h[n] = RowsBody(g, n, chars, max)
        BY <2>0
      <4>2. CASE n = 0
        BY <4>1, <4>2 DEF RowsBody
      <4>3. CASE n # 0
        <5>1. n - 1 \in 0 .. k - 1
          BY <4>3
        <5>2. h[n - 1] = g[n - 1]
          BY <3>3, <5>1
        <5> HIDE DEF h
        <5> QED
          BY <4>1, <4>3, <5>2 DEF RowsBody
      <4> QED
        BY <4>2, <4>3
    <3>5. RowsTo(h, chars, max, k + 1)
      BY <3>2, <3>4 DEF RowsTo
    <3> HIDE DEF h
    <3> QED
      BY <3>5
  <2> QED
    BY <2>0
<1>3. max + 2 \in P
  <2> HIDE DEF P
  <2> QED
    BY <1>1, <1>2, Induction
<1>4. PICK g : RowsTo(g, chars, max, max + 2)
  BY <1>3
<1>5. g = [n \in 0 .. max + 1 |-> RowsBody(g, n, chars, max)]
  BY <1>4 DEF RowsTo
<1> QED
  BY <1>5

\* A row is built from the shorter ones, whatever stands for the longer.
LEMMA GrammarRow ==
  ASSUME NEW chars, NEW max \in Nat, NEW n \in 0 .. max
  PROVE  LET T == Grammar(chars, max)
         IN  \E S : (\A k \in 0 .. n - 1 : S[k] = T[k]) /\ T[n] = Row(S, n, chars, max)
<1> DEFINE R == CHOOSE g : g = [k \in 0 .. max + 1 |-> RowsBody(g, k, chars, max)]
           T == Grammar(chars, max)
<1>1. R = [k \in 0 .. max + 1 |-> RowsBody(R, k, chars, max)]
  BY RowsExist
<1>2. T = R[max + 1]
  BY DEF Grammar, RowsBody
<1> HIDE DEF R, T
<1>3. R[0] = [k \in 0 .. max |-> {}]
  BY <1>1 DEF RowsBody
<1>4. \A k \in 0 .. max : R[k + 1] = [R[k] EXCEPT ![k] = Row(R[k], k, chars, max)]
  <2> TAKE k \in 0 .. max
  <2>1. k + 1 \in 0 .. max + 1 /\ k + 1 # 0 /\ (k + 1) - 1 = k
    OBVIOUS
  <2>2. R[k + 1] = RowsBody(R, k + 1, chars, max)
    BY <1>1, <2>1
  <2> QED
    BY <2>1, <2>2 DEF RowsBody
<1> DEFINE P == {j \in Nat : j <= max + 1 =>
                   DOMAIN R[j] = 0 .. max /\ \A k \in 0 .. j - 1 : R[j][k] = Row(R[k], k, chars, max)}
<1>5. 0 \in P
  BY <1>3
<1>6. ASSUME NEW j \in Nat, j \in P PROVE j + 1 \in P
  <2> SUFFICES ASSUME j + 1 <= max + 1
               PROVE  /\ DOMAIN R[j + 1] = 0 .. max
                      /\ \A k \in 0 .. (j + 1) - 1 : R[j + 1][k] = Row(R[k], k, chars, max)
    OBVIOUS
  <2> DEFINE X == Row(R[j], j, chars, max)
  <2>1. j \in 0 .. max /\ DOMAIN R[j] = 0 .. max /\ R[j + 1] = [R[j] EXCEPT ![j] = X]
    BY <1>4, <1>6
  <2> HIDE DEF X
  <2>2. \A k \in 0 .. max : R[j + 1][k] = IF k = j THEN X ELSE R[j][k]
    BY <2>1
  <2>3. DOMAIN R[j + 1] = 0 .. max
    BY <2>1
  <2>4. ASSUME NEW k \in 0 .. (j + 1) - 1 PROVE R[j + 1][k] = Row(R[k], k, chars, max)
    <3>1. k \in 0 .. max /\ (k # j => k \in 0 .. j - 1)
      BY <2>1
    <3>2. CASE k = j
      BY <2>2, <3>1, <3>2 DEF X
    <3>3. CASE k # j
      BY <1>6, <2>1, <2>2, <3>1, <3>3
    <3> QED
      BY <3>2, <3>3
  <2> QED
    BY <2>3, <2>4
<1>7. \A j \in 0 .. max + 1 : \A k \in 0 .. j - 1 : R[j][k] = Row(R[k], k, chars, max)
  <2>1. Nat \subseteq P
    <3> HIDE DEF P
    <3> QED
      BY <1>5, <1>6, Induction
  <2> QED
    BY <2>1
<1>8. \A k \in 0 .. n - 1 : R[n][k] = T[k]
  <2> TAKE k \in 0 .. n - 1
  <2>1. n \in 0 .. max + 1 /\ k \in 0 .. (max + 1) - 1 /\ max + 1 \in 0 .. max + 1
    OBVIOUS
  <2>2. R[n][k] = Row(R[k], k, chars, max)
    BY <1>7, <2>1
  <2>3. R[max + 1][k] = Row(R[k], k, chars, max)
    BY <1>7, <2>1
  <2> QED
    BY <1>2, <2>2, <2>3
<1>9. T[n] = Row(R[n], n, chars, max)
  <2>1. n \in 0 .. (max + 1) - 1 /\ max + 1 \in 0 .. max + 1
    OBVIOUS
  <2> QED
    BY <1>2, <1>7, <2>1
<1> QED
  BY <1>8, <1>9 DEF T

RowNumerals(S, n, chars) == IF n = 0 THEN {} ELSE Only(Numerals(S, n), chars)
RowStrings(S, n) == IF n < 2 THEN {} ELSE Enclosed("quote", S[n - 2].insides, "quote", "string")
RowValues(S, n, chars) ==
  IF n = 0 THEN {}
  ELSE Only(Spaced(Values(S, n, RowNumerals(S, n, chars), RowStrings(S, n)), S[n - 1].values), chars)
RowBlanks(S, n, chars) ==
  IF n = 0 THEN {<<<<>>, <<>>>>}
  ELSE {<<Append(x[1], b), <<>>>> : x \in S[n - 1].blanks, b \in Blanks \cap chars}
RowName(S, n, chars) == IF n = 0 THEN {} ELSE Only(Spaced(One(RowStrings(S, n)), S[n - 1].name), chars)
RowMember(S, n) == Split(S, n, "name", ":", "value")

RowElements(S, n, chars) == One(RowValues(S, n, chars)) \cup Split(S, n, "elements", ",", "value")
RowMembers(S, n) == RowMember(S, n) \cup Split(S, n, "members", ",", "member")
RowTexts(S, n, chars) == {x[1] : x \in RowValues(S, n, chars)}
Long(n, max) == n > max - 2

RowRecord(S, n, chars, max) ==
  [numerals |-> RowNumerals(S, n, chars), values |-> RowValues(S, n, chars), texts |-> RowTexts(S, n, chars),
   insides  |-> IF Long(n, max) THEN {} ELSE Insides(S, n, chars),
   blanks   |-> IF Long(n, max) THEN {} ELSE RowBlanks(S, n, chars),
   value    |-> IF Long(n, max) THEN {} ELSE One(RowValues(S, n, chars)),
   name     |-> IF Long(n, max) THEN {} ELSE RowName(S, n, chars),
   member   |-> IF Long(n, max) THEN {} ELSE RowMember(S, n),
   elements |-> IF Long(n, max) THEN {} ELSE RowElements(S, n, chars),
   members  |-> IF Long(n, max) THEN {} ELSE RowMembers(S, n)]

LEMMA RowIs == \A S, n, chars, max : Row(S, n, chars, max) = RowRecord(S, n, chars, max)
BY DEF Row, RowRecord, RowNumerals, RowStrings, RowValues, RowBlanks, RowName, RowMember, RowElements,
       RowMembers, RowTexts, Long

LEMMA NumeralsField == \A S, n, chars, max : Row(S, n, chars, max).numerals = RowNumerals(S, n, chars)
BY RowIs DEF RowRecord
LEMMA ValuesField == \A S, n, chars, max : Row(S, n, chars, max).values = RowValues(S, n, chars)
BY RowIs DEF RowRecord
LEMMA InsidesField == \A S, n, chars, max : ~Long(n, max) => Row(S, n, chars, max).insides = Insides(S, n, chars)
BY RowIs DEF RowRecord
LEMMA BlanksField == \A S, n, chars, max : ~Long(n, max) => Row(S, n, chars, max).blanks = RowBlanks(S, n, chars)
BY RowIs DEF RowRecord
LEMMA ValueField == \A S, n, chars, max : ~Long(n, max) => Row(S, n, chars, max).value = One(RowValues(S, n, chars))
BY RowIs DEF RowRecord
LEMMA NameField == \A S, n, chars, max : ~Long(n, max) => Row(S, n, chars, max).name = RowName(S, n, chars)
BY RowIs DEF RowRecord
LEMMA MemberField == \A S, n, chars, max : ~Long(n, max) => Row(S, n, chars, max).member = RowMember(S, n)
BY RowIs DEF RowRecord
LEMMA ElementsField == \A S, n, chars, max : ~Long(n, max) => Row(S, n, chars, max).elements = RowElements(S, n, chars)
BY RowIs DEF RowRecord
LEMMA MembersField == \A S, n, chars, max : ~Long(n, max) => Row(S, n, chars, max).members = RowMembers(S, n)
BY RowIs DEF RowRecord

Bound(f, max) == IF f \in {"numerals", "values"} THEN max ELSE max - 2

\* The text w, if it is short enough to be a part of one of the texts, means v as an f.
In(chars, max, f, w, v) ==
  /\ w \in Seq(chars)
  /\ Len(w) <= Bound(f, max) => <<w, v>> \in Grammar(chars, max)[Len(w)][f]

LEMMA OneNumeral ==
  ASSUME NEW chars, NEW max \in Nat, NEW d \in 0 .. BASE - 1, Digit[d] \in chars
  PROVE  In(chars, max, "numerals", <<Digit[d]>>, d)
<1> DEFINE w == <<Digit[d]>>
<1>1. w \in Seq(chars) /\ Len(w) = 1 /\ \A k \in 1 .. Len(w) : w[k] \in chars
  OBVIOUS
<1>2. ASSUME 1 <= max PROVE <<w, d>> \in Grammar(chars, max)[1].numerals
  <2>1. PICK S : Grammar(chars, max)[1] = Row(S, 1, chars, max)
    BY <1>2, GrammarRow
  <2>2. Grammar(chars, max)[1].numerals = Only(Numerals(S, 1), chars)
    BY <2>1, NumeralsField DEF RowNumerals
  <2>3. <<w, d>> \in Numerals(S, 1)
    BY DEF Numerals
  <2> HIDE DEF w
  <2> QED
    BY <1>1, <2>2, <2>3 DEF Only
<1> HIDE DEF w
<1>3. In(chars, max, "numerals", w, d)
  BY <1>1, <1>2 DEF In, Bound
<1> QED
  BY <1>3 DEF w

\* The rows that the texts of n bytes are built from.
LEMMA Below ==
  ASSUME NEW chars, NEW max \in Nat, NEW n \in 0 .. max
  PROVE  \E S : /\ Grammar(chars, max)[n] = Row(S, n, chars, max)
                /\ \A k \in 0 .. n - 1 : \A f, w, v :
                     In(chars, max, f, w, v) /\ Len(w) = k /\ k <= Bound(f, max) => <<w, v>> \in S[k][f]
<1>1. PICK S : (\A k \in 0 .. n - 1 : S[k] = Grammar(chars, max)[k])
               /\ Grammar(chars, max)[n] = Row(S, n, chars, max)
  BY GrammarRow
<1> QED
  BY <1>1 DEF In

LEMMA MoreNumerals ==
  ASSUME NEW chars, NEW max \in Nat, NEW w, NEW v, In(chars, max, "numerals", w, v),
         w # <<>>, w # <<Digit[0]>>, NEW d \in 0 .. BASE - 1, Digit[d] \in chars
  PROVE  In(chars, max, "numerals", Append(w, Digit[d]), v * BASE + d)
<1> DEFINE x == Append(w, Digit[d])
           n == Len(w) + 1
<1>1. w \in Seq(chars) /\ Len(w) \in Nat /\ Len(w) # 0
  BY EmptySeq DEF In
<1>2. x \in Seq(chars) /\ Len(x) = n /\ \A k \in 1 .. Len(x) : x[k] \in chars
  BY <1>1, AppendProperties, ElementOfSeq
<1>3. ASSUME n <= max PROVE <<x, v * BASE + d>> \in Grammar(chars, max)[n].numerals
  <2>1. n \in 0 .. max /\ n - 1 = Len(w) /\ n - 1 \in 0 .. n - 1 /\ n # 1 /\ n # 0 /\ n - 1 <= max
    BY <1>1, <1>3
  <2>2. PICK S : /\ Grammar(chars, max)[n] = Row(S, n, chars, max)
                 /\ \A k \in 0 .. n - 1 : \A f, y, z :
                      In(chars, max, f, y, z) /\ Len(y) = k /\ k <= Bound(f, max) => <<y, z>> \in S[k][f]
    BY <2>1, Below
  <2> HIDE DEF n
  <2>3. <<w, v>> \in S[n - 1]["numerals"]
    BY <2>1, <2>2 DEF Bound
  <2>4. <<x, v * BASE + d>> \in Numerals(S, n)
    <3> DEFINE z == <<w, v>>
    <3>1. z[1] = w /\ z[2] = v
      OBVIOUS
    <3>2. z \in {y \in S[n - 1].numerals : y[1] # <<Digit[0]>>}
      BY <2>3, <3>1
    <3> HIDE DEF z
    <3>3. <<Append(z[1], Digit[d]), z[2] * BASE + d>> \in Numerals(S, n)
      BY <2>1, <3>2 DEF Numerals
    <3> QED
      BY <3>1, <3>3
  <2>5. Grammar(chars, max)[n].numerals = Only(Numerals(S, n), chars)
    BY <2>1, <2>2, NumeralsField DEF RowNumerals
  <2> HIDE DEF x
  <2> QED
    BY <1>2, <2>4, <2>5 DEF Only
<1> HIDE DEF x
<1>4. In(chars, max, "numerals", x, v * BASE + d)
  BY <1>2, <1>3 DEF In, Bound
<1> QED
  BY <1>4 DEF x

\* S stands for the rows below that of n.
Rests(S, n, chars, max) ==
  /\ n \in 0 .. max /\ Grammar(chars, max)[n] = Row(S, n, chars, max)
  /\ \A k \in 0 .. n - 1 : \A f, w, v :
       In(chars, max, f, w, v) /\ Len(w) = k /\ k <= Bound(f, max) => <<w, v>> \in S[k][f]

LEMMA HasRests == \A chars : \A max \in Nat : \A n \in 0 .. max : \E S : Rests(S, n, chars, max)
BY Below, SMTT(40) DEF Rests

LEMMA Filtered ==
  ASSUME NEW chars, NEW w \in Seq(chars), NEW v, NEW A, <<w, v>> \in A
  PROVE  <<w, v>> \in Only(A, chars)
<1> DEFINE z == <<w, v>>
<1>1. z[1] = w /\ \A k \in 1 .. Len(w) : w[k] \in chars
  BY ElementOfSeq
<1> HIDE DEF z
<1>2. z \in A => z \in Only(A, chars)
  BY <1>1 DEF Only
<1> QED
  BY <1>2 DEF z

LEMMA IntoValues ==
  ASSUME NEW chars, NEW max \in Nat, NEW w \in Seq(chars), w # <<>>, NEW v,
         \A S : Rests(S, Len(w), chars, max) =>
                  <<w, v>> \in Spaced(Values(S, Len(w), RowNumerals(S, Len(w), chars), RowStrings(S, Len(w))),
                                      S[Len(w) - 1].values)
  PROVE  In(chars, max, "values", w, v)
<1> DEFINE n == Len(w)
<1>1. n \in Nat /\ n # 0
  BY EmptySeq
<1> HIDE DEF n
<1>2. ASSUME n <= max PROVE <<w, v>> \in Grammar(chars, max)[n].values
  <2>0. n \in 0 .. max
    BY <1>1, <1>2
  <2>1. PICK S : Rests(S, n, chars, max)
    BY <2>0, HasRests
  <2> DEFINE A == Spaced(Values(S, n, RowNumerals(S, n, chars), RowStrings(S, n)), S[n - 1].values)
  <2>2. <<w, v>> \in A
    BY <2>1 DEF n
  <2>3. Grammar(chars, max)[n].values = Only(A, chars)
    BY <1>1, <2>1, ValuesField DEF Rests, RowValues
  <2> HIDE DEF A
  <2> QED
    BY <2>2, <2>3, Filtered
<1>3. Bound("values", max) = max
  BY DEF Bound
<1> QED
  BY <1>2, <1>3 DEF In, n

LEMMA NumeralValue ==
  ASSUME NEW chars, NEW max \in Nat, NEW w, NEW v, w # <<>>, In(chars, max, "numerals", w, v)
  PROVE  In(chars, max, "values", w, Number(v))
<1>1. w \in Seq(chars)
  BY DEF In
<1>2. ASSUME NEW S, Rests(S, Len(w), chars, max)
      PROVE  <<w, Number(v)>> \in Spaced(Values(S, Len(w), RowNumerals(S, Len(w), chars), RowStrings(S, Len(w))),
                                         S[Len(w) - 1].values)
  <2> DEFINE z == <<w, v>>
             n == Len(w)
             N == RowNumerals(S, n, chars)
             T == RowStrings(S, n)
  <2>1. n <= max /\ Grammar(chars, max)[n].numerals = N
    BY <1>2, NumeralsField DEF Rests
  <2>2. z \in N
    BY <2>1 DEF In, Bound
  <2>3. z[1] = w /\ z[2] = v
    OBVIOUS
  <2> HIDE DEF z, N, T, n
  <2>4. <<z[1], Number(z[2])>> \in Values(S, n, N, T)
    BY <2>2 DEF Values
  <2> QED
    BY <2>3, <2>4 DEF Spaced, n, N, T
<1> QED
  BY <1>1, <1>2, IntoValues

LEMMA MinusValue ==
  ASSUME NEW chars, NEW max \in Nat, NEW w, NEW v, In(chars, max, "numerals", w, v), "-" \in chars
  PROVE  In(chars, max, "values", <<"-">> \o w, Number(-v))
<1> DEFINE t == <<"-">> \o w
<1>1. w \in Seq(chars) /\ Len(w) \in Nat
  BY DEF In
<1>2. t \in Seq(chars) /\ Len(t) = Len(w) + 1 /\ t # <<>>
  BY <1>1
<1>3. ASSUME NEW S, Rests(S, Len(t), chars, max)
      PROVE  <<t, Number(-v)>> \in Spaced(Values(S, Len(t), RowNumerals(S, Len(t), chars), RowStrings(S, Len(t))),
                                         S[Len(t) - 1].values)
  <2> DEFINE z == <<w, v>>
             n == Len(t)
             N == RowNumerals(S, n, chars)
             T == RowStrings(S, n)
  <2>1. n <= max /\ n - 1 = Len(w) /\ n - 1 \in 0 .. n - 1
    BY <1>1, <1>2, <1>3 DEF Rests
  <2>2. z \in S[n - 1]["numerals"]
    BY <1>3, <2>1 DEF Rests, Bound
  <2>3. z[1] = w /\ z[2] = v
    OBVIOUS
  <2> HIDE DEF z, N, T, n, t
  <2>4. <<<<"-">> \o z[1], Number(-z[2])>> \in Values(S, n, N, T)
    BY <2>2 DEF Values
  <2> DEFINE u == Number(-v)
  <2>5. <<t, u>> \in Values(S, n, N, T)
    BY <2>3, <2>4, Zenon DEF t, u
  <2> HIDE DEF u
  <2>6. <<t, u>> \in Spaced(Values(S, n, N, T), S[n - 1].values)
    BY <2>5 DEF Spaced
  <2> QED
    BY <2>6, Zenon DEF n, N, T, u
<1> HIDE DEF t
<1>4. In(chars, max, "values", t, Number(-v))
  BY <1>2, <1>3, IntoValues
<1> QED
  BY <1>4 DEF t

LEMMA TrueValue ==
  ASSUME NEW chars, NEW max \in Nat, "t" \in chars
  PROVE  In(chars, max, "values", <<"t">>, <<"true", <<>>>>)
<1> DEFINE w == <<"t">>
           v == <<"true", <<>>>>
<1>1. w \in Seq(chars) /\ Len(w) = 1 /\ w # <<>>
  OBVIOUS
<1>2. ASSUME NEW S, Rests(S, Len(w), chars, max)
      PROVE  <<w, v>> \in Spaced(Values(S, Len(w), RowNumerals(S, Len(w), chars), RowStrings(S, Len(w))),
                                         S[Len(w) - 1].values)
  <2> DEFINE n == Len(w)
             N == RowNumerals(S, n, chars)
             T == RowStrings(S, n)
  <2>1. n = 1
    BY <1>1
  <2> HIDE DEF N, T, n
  <2>4. <<w, v>> \in Values(S, n, N, T)
    BY <2>1 DEF Values
  <2> QED
    BY <2>4 DEF Spaced, n, N, T
<1> HIDE DEF w, v
<1>4. In(chars, max, "values", w, v)
  BY <1>1, <1>2, IntoValues
<1> QED
  BY <1>4 DEF w, v

LEMMA Bracketed ==
  ASSUME NEW chars, NEW w \in Seq(chars), NEW a \in chars, NEW b \in chars
  PROVE  /\ <<a>> \o w \o <<b>> \in Seq(chars) /\ Len(w) \in Nat
         /\ Len(<<a>> \o w \o <<b>>) = Len(w) + 2 /\ <<a>> \o w \o <<b>> # <<>>
<1> DEFINE t == <<a>> \o w
<1>1. t \in Seq(chars) /\ Len(t) = Len(w) + 1 /\ Len(w) \in Nat
  OBVIOUS
<1> HIDE DEF t
<1>2. t \o <<b>> \in Seq(chars) /\ Len(t \o <<b>>) = Len(t) + 1
  BY <1>1
<1>3. Len(t \o <<b>>) = Len(w) + 2
  BY <1>1, <1>2
<1>4. t \o <<b>> # <<>>
  BY <1>1, <1>2, <1>3, EmptySeq
<1> QED
  BY <1>1, <1>2, <1>3, <1>4 DEF t

LEMMA EnclosedIn ==
  ASSUME NEW A, NEW w, NEW v, <<w, v>> \in A, NEW a, NEW b, NEW kind
  PROVE  <<<<a>> \o w \o <<b>>, <<kind, v>>>> \in Enclosed(a, A, b, kind)
<1> DEFINE z == <<w, v>>
<1>1. z[1] = w /\ z[2] = v
  OBVIOUS
<1> HIDE DEF z
<1>2. z \in A => <<<<a>> \o z[1] \o <<b>>, <<kind, z[2]>>>> \in Enclosed(a, A, b, kind)
  BY DEF Enclosed
<1> QED
  BY <1>1, <1>2 DEF z

\* The part between two quotes or brackets is in a row below.
LEMMA InsideIn ==
  ASSUME NEW chars, NEW max \in Nat, NEW S, NEW n \in Nat, Rests(S, n, chars, max),
         NEW f, f \notin {"numerals", "values"}, NEW w, NEW v, In(chars, max, f, w, v), Len(w) + 2 = n
  PROVE  n >= 2 /\ n <= max /\ <<w, v>> \in S[n - 2][f]
<1>1. Len(w) \in Nat
  BY DEF In
<1>2. n <= max /\ n - 2 \in 0 .. n - 1 /\ Len(w) = n - 2
  BY <1>1 DEF Rests
<1>3. n - 2 <= Bound(f, max)
  BY <1>2 DEF Bound
<1> QED
  BY <1>1, <1>2, <1>3 DEF Rests

LEMMA StringsIn ==
  ASSUME NEW chars, NEW max \in Nat, NEW w, NEW v, In(chars, max, "insides", w, v), "quote" \in chars,
         NEW S, Rests(S, Len(w) + 2, chars, max)
  PROVE  <<<<"quote">> \o w \o <<"quote">>, <<"string", v>>>> \in RowStrings(S, Len(w) + 2)
<1> DEFINE n == Len(w) + 2
<1>1. n \in Nat
  BY DEF In
<1> HIDE DEF n
<1>2. n >= 2 /\ <<w, v>> \in S[n - 2]["insides"]
  BY <1>1, InsideIn DEF n
<1>3. <<<<"quote">> \o w \o <<"quote">>, <<"string", v>>>> \in Enclosed("quote", S[n - 2]["insides"], "quote", "string")
  BY <1>2, EnclosedIn
<1>4. ~(n < 2)
  BY <1>1, <1>2
<1> QED
  BY <1>3, <1>4, Zenon DEF RowStrings, n

LEMMA StringValue1 ==
  ASSUME NEW chars, NEW max \in Nat, NEW w, NEW v, In(chars, max, "insides", w, v), "quote" \in chars
  PROVE  In(chars, max, "values", <<"quote">> \o w \o <<"quote">>, <<"string", v>>)
<1> DEFINE t == <<"quote">> \o w \o <<"quote">>
           u == <<"string", v>>
<1>1. w \in Seq(chars) /\ Len(w) \in Nat
  BY DEF In
<1>2. t \in Seq(chars) /\ Len(t) = Len(w) + 2 /\ t # <<>>
  BY <1>1, Bracketed
<1>3. ASSUME NEW S, Rests(S, Len(t), chars, max)
      PROVE  <<t, u>> \in Spaced(Values(S, Len(t), RowNumerals(S, Len(t), chars), RowStrings(S, Len(t))),
                                         S[Len(t) - 1].values)
  <2> DEFINE n == Len(t)
             N == RowNumerals(S, n, chars)
             T == RowStrings(S, n)
  <2>1. <<t, u>> \in T
    BY <1>2, <1>3, StringsIn
  <2> HIDE DEF t, u, N, T, n
  <2>2. <<t, u>> \in Values(S, n, N, T)
    BY <2>1 DEF Values
  <2> QED
    BY <2>2 DEF Spaced, n, N, T
<1> HIDE DEF t, u
<1>4. In(chars, max, "values", t, u)
  BY <1>2, <1>3, IntoValues
<1> QED
  BY <1>4 DEF t, u

\* Names.
LEMMA IntoName ==
  ASSUME NEW chars, NEW max \in Nat, NEW w \in Seq(chars), w # <<>>, NEW v,
         \A S : Rests(S, Len(w), chars, max) /\ Len(w) <= max - 2 =>
                  <<w, v>> \in Spaced(One(RowStrings(S, Len(w))), S[Len(w) - 1].name)
  PROVE  In(chars, max, "name", w, v)
<1> DEFINE n == Len(w)
<1>1. n \in Nat /\ n # 0
  BY EmptySeq
<1> HIDE DEF n
<1>2. ASSUME n <= max - 2 PROVE <<w, v>> \in Grammar(chars, max)[n].name
  <2>0. n \in 0 .. max /\ ~Long(n, max)
    BY <1>1, <1>2 DEF Long
  <2>1. PICK S : Rests(S, n, chars, max)
    BY <2>0, HasRests
  <2> DEFINE A == Spaced(One(RowStrings(S, n)), S[n - 1].name)
  <2>2. <<w, v>> \in A
    BY <1>2, <2>1 DEF n
  <2>3. Grammar(chars, max)[n].name = Only(A, chars)
    BY <1>1, <2>0, <2>1, NameField DEF Rests, RowName
  <2> HIDE DEF A
  <2> QED
    BY <2>2, <2>3, Filtered
<1>3. Bound("name", max) = max - 2
  BY DEF Bound
<1> QED
  BY <1>2, <1>3 DEF In, n

LEMMA OneIn == \A A, w, v : <<w, v>> \in A => <<w, <<v>>>> \in One(A)
<1> TAKE A, w, v
<1> DEFINE z == <<w, v>>
<1>1. z[1] = w /\ z[2] = v
  OBVIOUS
<1> HIDE DEF z
<1>2. z \in A => <<z[1], <<z[2]>>>> \in One(A)
  BY DEF One
<1> QED
  BY <1>1, <1>2 DEF z

LEMMA StringName ==
  ASSUME NEW chars, NEW max \in Nat, NEW w, NEW v, In(chars, max, "insides", w, v), "quote" \in chars
  PROVE  In(chars, max, "name", <<"quote">> \o w \o <<"quote">>, <<<<"string", v>>>>)
<1> DEFINE t == <<"quote">> \o w \o <<"quote">>
           u == <<"string", v>>
<1>1. w \in Seq(chars) /\ Len(w) \in Nat
  BY DEF In
<1>2. t \in Seq(chars) /\ Len(t) = Len(w) + 2 /\ t # <<>>
  BY <1>1, Bracketed
<1>3. ASSUME NEW S, Rests(S, Len(t), chars, max)
      PROVE  <<t, <<u>>>> \in Spaced(One(RowStrings(S, Len(t))), S[Len(t) - 1].name)
  <2> DEFINE T == RowStrings(S, Len(t))
  <2>1. <<t, u>> \in T
    BY <1>2, <1>3, StringsIn
  <2> HIDE DEF t, u, T
  <2>2. <<t, <<u>>>> \in One(T)
    BY <2>1, OneIn
  <2> QED
    BY <2>2 DEF Spaced, T
<1> HIDE DEF t, u
<1>4. In(chars, max, "name", t, <<u>>)
  BY <1>2, <1>3, IntoName
<1> QED
  BY <1>4 DEF t, u

\* What is between the brackets of an array or object.
Between2(w, v, chars, max, f) == (v = <<>> /\ In(chars, max, "blanks", w, v)) \/ In(chars, max, f, w, v)

LEMMA CallValue ==
  ASSUME NEW chars, NEW max \in Nat, NEW w, NEW v, NEW a \in chars, NEW b \in chars, NEW f, NEW kind,
         f \notin {"numerals", "values"},
         Between2(w, v, chars, max, f),
         \A S, N, T : \A n \in Nat : n >= 2 => Enclosed(a, S[n - 2].blanks \cup S[n - 2][f], b, kind) \subseteq Values(S, n, N, T)
  PROVE  In(chars, max, "values", <<a>> \o w \o <<b>>, <<kind, v>>)
<1> DEFINE t == <<a>> \o w \o <<b>>
           u == <<kind, v>>
<1>1. w \in Seq(chars) /\ Len(w) \in Nat
  BY DEF In, Between2
<1>2. t \in Seq(chars) /\ Len(t) = Len(w) + 2 /\ t # <<>>
  BY <1>1, Bracketed
<1>3. ASSUME NEW S, Rests(S, Len(t), chars, max)
      PROVE  <<t, u>> \in Spaced(Values(S, Len(t), RowNumerals(S, Len(t), chars), RowStrings(S, Len(t))),
                                         S[Len(t) - 1].values)
  <2> DEFINE n == Len(t)
             N == RowNumerals(S, n, chars)
             T == RowStrings(S, n)
             A == S[n - 2].blanks \cup S[n - 2][f]
  <2>0. n \in Nat /\ Len(w) + 2 = n /\ Rests(S, n, chars, max)
    BY <1>1, <1>2, <1>3
  <2>1. n >= 2 /\ <<w, v>> \in A
    <3> HIDE DEF n
    <3>1. CASE v = <<>> /\ In(chars, max, "blanks", w, v)
      <4>1. n >= 2 /\ <<w, v>> \in S[n - 2]["blanks"]
        BY <2>0, <3>1, InsideIn
      <4> QED
        BY <4>1
    <3>2. CASE In(chars, max, f, w, v)
      <4>1. n >= 2 /\ <<w, v>> \in S[n - 2][f]
        BY <2>0, <3>2, InsideIn
      <4> QED
        BY <4>1
    <3> QED
      BY <3>1, <3>2 DEF Between2
  <2>2. Enclosed(a, A, b, kind) \subseteq Values(S, n, N, T)
    BY <2>0, <2>1
  <2> HIDE DEF N, T, n, A
  <2>3. <<t, u>> \in Enclosed(a, A, b, kind)
    BY <2>1, EnclosedIn
  <2> HIDE DEF t, u
  <2>4. <<t, u>> \in Values(S, n, N, T)
    BY <2>2, <2>3
  <2> QED
    BY <2>4 DEF Spaced, n, N, T
<1> HIDE DEF t, u
<1>4. In(chars, max, "values", t, u)
  BY <1>2, <1>3, IntoValues
<1> QED
  BY <1>4 DEF t, u

LEMMA NotBelow == \A n \in Nat : n >= 2 => ~(n < 2)
OBVIOUS

LEMMA ArrayValue ==
  ASSUME NEW chars, NEW max \in Nat, NEW w, NEW v, "[" \in chars, "]" \in chars,
         Between2(w, v, chars, max, "elements")
  PROVE  In(chars, max, "values", <<"[">> \o w \o <<"]">>, <<"array", v>>)
<1>1. \A S, N, T : \A n \in Nat : n >= 2 => Enclosed("[", S[n - 2].blanks \cup S[n - 2]["elements"], "]", "array") \subseteq Values(S, n, N, T)
  <2> TAKE S, N, T
  <2> TAKE n \in Nat
  <2>1. n >= 2 => ~(n < 2)
    BY NotBelow, Zenon
  <2> QED
    BY <2>1, Zenon DEF Values
<1>2. "elements" \notin {"numerals", "values"}
  OBVIOUS
<1> QED
  BY <1>1, <1>2, CallValue, Zenon

LEMMA ObjectValue ==
  ASSUME NEW chars, NEW max \in Nat, NEW w, NEW v, "{" \in chars, "}" \in chars,
         Between2(w, v, chars, max, "members")
  PROVE  In(chars, max, "values", <<"{">> \o w \o <<"}">>, <<"object", v>>)
<1>1. \A S, N, T : \A n \in Nat : n >= 2 => Enclosed("{", S[n - 2].blanks \cup S[n - 2]["members"], "}", "object") \subseteq Values(S, n, N, T)
  <2> TAKE S, N, T
  <2> TAKE n \in Nat
  <2>1. n >= 2 => ~(n < 2)
    BY NotBelow, Zenon
  <2> QED
    BY <2>1, Zenon DEF Values
<1>2. "members" \notin {"numerals", "values"}
  OBVIOUS
<1> QED
  BY <1>1, <1>2, CallValue, Zenon

\* One more blank before or after.
Spaceable == {"values", "name"}

LEMMA SpacedIn ==
  ASSUME NEW A, NEW B, NEW w, NEW v, <<w, v>> \in B, NEW b \in Blanks
  PROVE  <<<<b>> \o w, v>> \in Spaced(A, B) /\ <<Append(w, b), v>> \in Spaced(A, B)
<1> DEFINE z == <<w, v>>
<1>1. z[1] = w /\ z[2] = v
  OBVIOUS
<1> HIDE DEF z
<1>2. ASSUME z \in B
      PROVE  <<<<b>> \o z[1], z[2]>> \in Spaced(A, B) /\ <<Append(z[1], b), z[2]>> \in Spaced(A, B)
  <2> DEFINE Two(x, c) == {<<<<c>> \o x[1], x[2]>>, <<Append(x[1], c), x[2]>>}
  <2>1. Two(z, b) \in {Two(x, c) : x \in B, c \in Blanks}
    BY <1>2
  <2>2. <<<<b>> \o z[1], z[2]>> \in Two(z, b) /\ <<Append(z[1], b), z[2]>> \in Two(z, b)
    OBVIOUS
  <2>3. Spaced(A, B) = A \cup UNION {Two(x, c) : x \in B, c \in Blanks}
    BY DEF Spaced
  <2> HIDE DEF Two
  <2> DEFINE M == {Two(x, c) : x \in B, c \in Blanks}
  <2>4. Two(z, b) \in M /\ Spaced(A, B) = A \cup UNION M
    BY <2>1, <2>3
  <2> HIDE DEF M
  <2> QED
    BY <2>2, <2>4
<1> QED
  BY <1>1, <1>2 DEF z

LEMMA MoreSpace ==
  ASSUME NEW chars, NEW max \in Nat, NEW f \in Spaceable, NEW w, NEW v, In(chars, max, f, w, v),
         NEW b \in Blanks, b \in chars, NEW t \in {<<b>> \o w, Append(w, b)}
  PROVE  In(chars, max, f, t, v)
<1>1. w \in Seq(chars) /\ Len(w) \in Nat
  BY DEF In
<1>2. t \in Seq(chars) /\ Len(t) = Len(w) + 1 /\ t # <<>>
  <2>1. t = <<b>> \o w => t \in Seq(chars) /\ Len(t) = Len(w) + 1
    BY <1>1
  <2>2. t = Append(w, b) => t \in Seq(chars) /\ Len(t) = Len(w) + 1
    BY <1>1
  <2> QED
    BY <1>1, <2>1, <2>2, EmptySeq
<1>3. ASSUME NEW S, Rests(S, Len(t), chars, max), Len(w) <= Bound(f, max), NEW A
      PROVE  <<t, v>> \in Spaced(A, S[Len(t) - 1][f])
  <2>1. Len(t) - 1 = Len(w) /\ Len(t) - 1 \in 0 .. Len(t) - 1
    BY <1>1, <1>2
  <2>2. <<w, v>> \in S[Len(t) - 1][f]
    BY <1>3, <2>1 DEF Rests
  <2> QED
    BY <2>2, SpacedIn
<1>4. CASE f = "values"
  <2>1. ASSUME NEW S, Rests(S, Len(t), chars, max)
        PROVE  <<t, v>> \in Spaced(Values(S, Len(t), RowNumerals(S, Len(t), chars), RowStrings(S, Len(t))),
                                   S[Len(t) - 1].values)
    <3>1. Len(w) <= Bound(f, max)
      BY <1>1, <1>2, <1>4, <2>1 DEF Rests, Bound
    <3> QED
      BY <1>3, <1>4, <2>1, <3>1
  <2> QED
    BY <1>2, <1>4, <2>1, IntoValues
<1>5. CASE f = "name"
  <2>1. ASSUME NEW S, Rests(S, Len(t), chars, max), Len(t) <= max - 2
        PROVE  <<t, v>> \in Spaced(One(RowStrings(S, Len(t))), S[Len(t) - 1].name)
    <3>1. Len(w) <= Bound(f, max)
      BY <1>1, <1>2, <1>5, <2>1 DEF Bound
    <3> QED
      BY <1>3, <1>5, <2>1, <3>1
  <2> QED
    BY <1>2, <1>5, <2>1, IntoName
<1> QED
  BY <1>4, <1>5 DEF Spaceable

\* Blanks.
LEMMA NoBlanks == \A chars : \A max \in Nat : In(chars, max, "blanks", <<>>, <<>>)
<1> TAKE chars
<1> TAKE max \in Nat
<1>1. <<>> \in Seq(chars) /\ Len(<<>>) = 0 /\ Bound("blanks", max) = max - 2
  BY DEF Bound
<1>2. ASSUME 0 <= max - 2 PROVE <<<<>>, <<>>>> \in Grammar(chars, max)[0].blanks
  <2>1. 0 \in 0 .. max /\ ~Long(0, max)
    BY <1>2 DEF Long
  <2>2. PICK S : Rests(S, 0, chars, max)
    BY <2>1, HasRests
  <2>3. Grammar(chars, max)[0].blanks = RowBlanks(S, 0, chars)
    BY <2>1, <2>2, BlanksField DEF Rests
  <2> QED
    BY <2>3 DEF RowBlanks
<1> QED
  BY <1>1, <1>2 DEF In

LEMMA MoreBlanks ==
  ASSUME NEW chars, NEW max \in Nat, NEW w, In(chars, max, "blanks", w, <<>>), NEW b \in Blanks, b \in chars
  PROVE  In(chars, max, "blanks", Append(w, b), <<>>)
<1> DEFINE t == Append(w, b)
<1>1. w \in Seq(chars) /\ Len(w) \in Nat
  BY DEF In
<1>2. t \in Seq(chars) /\ Len(t) = Len(w) + 1
  BY <1>1
<1>3. Bound("blanks", max) = max - 2
  BY DEF Bound
<1> DEFINE n == Len(w) + 1
<1> HIDE DEF n
<1>4. ASSUME n <= max - 2 PROVE <<t, <<>>>> \in Grammar(chars, max)[n].blanks
  <2>1. n \in 0 .. max /\ ~Long(n, max) /\ n # 0 /\ n - 1 = Len(w) /\ n - 1 \in 0 .. n - 1
        /\ n - 1 <= max - 2
    BY <1>1, <1>4 DEF Long, n
  <2>2. PICK S : Rests(S, n, chars, max)
    BY <2>1, HasRests
  <2>3. Grammar(chars, max)[n].blanks = RowBlanks(S, n, chars)
    BY <2>1, <2>2, BlanksField DEF Rests
  <2> DEFINE z == <<w, <<>>>>
  <2>4. z \in S[n - 1]["blanks"]
    BY <1>3, <2>1, <2>2 DEF Rests
  <2>5. z[1] = w
    OBVIOUS
  <2> HIDE DEF z
  <2>6. <<Append(z[1], b), <<>>>> \in RowBlanks(S, n, chars)
    BY <2>1, <2>4 DEF RowBlanks
  <2> QED
    BY <2>3, <2>5, <2>6
<1> HIDE DEF t
<1>5. In(chars, max, "blanks", t, <<>>)
  BY <1>2, <1>3, <1>4 DEF In, n
<1> QED
  BY <1>5 DEF t

\* What is between two quotes.
LEMMA NoInside == \A chars : \A max \in Nat : In(chars, max, "insides", <<>>, <<>>)
<1> TAKE chars
<1> TAKE max \in Nat
<1>1. <<>> \in Seq(chars) /\ Len(<<>>) = 0 /\ Bound("insides", max) = max - 2
  BY DEF Bound
<1>2. ASSUME 0 <= max - 2 PROVE <<<<>>, <<>>>> \in Grammar(chars, max)[0].insides
  <2>1. 0 \in 0 .. max /\ ~Long(0, max)
    BY <1>2 DEF Long
  <2>2. PICK S : Rests(S, 0, chars, max)
    BY <2>1, HasRests
  <2>3. Grammar(chars, max)[0].insides = Insides(S, 0, chars)
    BY <2>1, <2>2, InsidesField DEF Rests
  <2>4. Insides(S, 0, chars) = {<<<<>>, <<>>>>}
    BY DEF Insides
  <2> QED
    BY <2>3, <2>4
<1> QED
  BY <1>1, <1>2 DEF In

LEMMA InsideChars ==
  ASSUME NEW chars, NEW S, NEW n \in Nat, n # 0, NEW w, NEW v, <<w, v>> \in S[n - 1].insides,
         NEW c \in chars \ ({"quote", "\\"} \cup Control)
  PROVE  <<Append(w, c), Append(v, c)>> \in Insides(S, n, chars)
<1> DEFINE z == <<w, v>>
           C == chars \ ({"quote", "\\"} \cup Control)
           X == {<<Append(x[1], e), Append(x[2], e)>> : x \in S[n - 1].insides, e \in C}
<1>1. z[1] = w /\ z[2] = v /\ z \in S[n - 1].insides /\ c \in C
  OBVIOUS
<1>2. X \subseteq Insides(S, n, chars)
  BY DEF Insides
<1> HIDE DEF z, C
<1>3. <<Append(z[1], c), Append(z[2], c)>> \in X
  BY <1>1
<1> HIDE DEF X
<1>4. <<Append(z[1], c), Append(z[2], c)>> \in Insides(S, n, chars)
  BY <1>2, <1>3
<1> QED
  BY <1>1, <1>4

LEMMA InsideEscapes ==
  ASSUME NEW chars, NEW S, NEW n \in Nat, n # 0, n # 1, NEW w, NEW v, <<w, v>> \in S[n - 2].insides,
         NEW e \in Escapes, {"\\", e[1]} \subseteq chars
  PROVE  <<w \o <<"\\", e[1]>>, Append(v, e[2])>> \in Insides(S, n, chars)
<1> DEFINE z == <<w, v>>
           bar == "\\"
           C == {d \in Escapes : {bar, d[1]} \subseteq chars}
           A == {<<Append(x[1], c), Append(x[2], c)>> : x \in S[n - 1].insides, c \in chars \ ({"quote", bar} \cup Control)}
           B == S[n - 2].insides
           Two(x, d) == <<x[1] \o <<bar, d[1]>>, Append(x[2], d[2])>>
           X == {Two(x, d) : x \in B, d \in C}
<1>1. z[1] = w /\ z[2] = v /\ z \in B
  OBVIOUS
<1>2. e \in C
  BY Zenon
<1>3. Insides(S, n, chars) = A \cup X
  <2>1. Insides(S, n, chars) = IF n = 0 THEN {<<<<>>, <<>>>>} ELSE A \cup IF n = 1 THEN {} ELSE X
    BY DEF Insides
  <2> HIDE DEF A, X
  <2> QED
    BY <2>1
<1> HIDE DEF z, C, A, B, Two
<1>4. Two(z, e) \in X
  <2>1. z \in B /\ e \in C
    BY <1>1, <1>2, Zenon
  <2> HIDE DEF bar
  <2> QED
    BY <2>1, SMT
<1> HIDE DEF X
<1>5. Two(z, e) \in Insides(S, n, chars)
  BY <1>3, <1>4, Zenon
<1>6. Two(z, e) = <<w \o <<bar, e[1]>>, Append(v, e[2])>>
  BY <1>1, Zenon DEF Two
<1> QED
  BY <1>5, <1>6, Zenon DEF bar

LEMMA IntoInsides ==
  ASSUME NEW chars, NEW max \in Nat, NEW w \in Seq(chars), NEW v,
         \A S : Rests(S, Len(w), chars, max) /\ Len(w) <= max - 2 => <<w, v>> \in Insides(S, Len(w), chars)
  PROVE  In(chars, max, "insides", w, v)
<1> DEFINE n == Len(w)
<1>1. n \in Nat
  OBVIOUS
<1> HIDE DEF n
<1>2. ASSUME n <= max - 2 PROVE <<w, v>> \in Grammar(chars, max)[n].insides
  <2>1. n \in 0 .. max /\ ~Long(n, max)
    BY <1>1, <1>2 DEF Long
  <2>2. PICK S : Rests(S, n, chars, max)
    BY <2>1, HasRests
  <2>3. Grammar(chars, max)[n].insides = Insides(S, n, chars)
    BY <2>1, <2>2, InsidesField DEF Rests
  <2>4. <<w, v>> \in Insides(S, n, chars)
    BY <1>2, <2>2 DEF n
  <2> QED
    BY <2>3, <2>4
<1>3. Bound("insides", max) = max - 2
  BY DEF Bound
<1> QED
  BY <1>2, <1>3 DEF In, n

LEMMA MoreInside ==
  ASSUME NEW chars, NEW max \in Nat, NEW w, NEW v, In(chars, max, "insides", w, v),
         NEW c \in chars \ ({"quote", "\\"} \cup Control)
  PROVE  In(chars, max, "insides", Append(w, c), Append(v, c))
<1> DEFINE t == Append(w, c)
           u == Append(v, c)
           n == Len(t)
<1>1. w \in Seq(chars) /\ Len(w) \in Nat
  BY DEF In
<1>2. t \in Seq(chars) /\ n = Len(w) + 1
  BY <1>1
<1>3. Bound("insides", max) = max - 2
  BY DEF Bound
<1>4. ASSUME NEW S, Rests(S, n, chars, max) /\ n <= max - 2 PROVE <<t, u>> \in Insides(S, n, chars)
  <2>1. n \in Nat /\ n # 0 /\ n - 1 = Len(w) /\ n - 1 \in 0 .. n - 1 /\ n - 1 <= max - 2
    BY <1>1, <1>2, <1>4
  <2>2. <<w, v>> \in S[n - 1]["insides"]
    BY <1>3, <1>4, <2>1 DEF Rests
  <2> HIDE DEF n
  <2> QED
    BY <2>1, <2>2, InsideChars
<1> HIDE DEF t, u
<1> QED
  BY <1>2, <1>4, IntoInsides DEF n, t, u

LEMMA MoreEscape ==
  ASSUME NEW chars, NEW max \in Nat, NEW w, NEW v, In(chars, max, "insides", w, v),
         NEW e \in Escapes, {"\\", e[1]} \subseteq chars
  PROVE  In(chars, max, "insides", Append(Append(w, "\\"), e[1]), Append(v, e[2]))
<1> DEFINE t == Append(Append(w, "\\"), e[1])
           u == Append(v, e[2])
           n == Len(t)
<1>1. w \in Seq(chars) /\ Len(w) \in Nat /\ "\\" \in chars /\ e[1] \in chars
  BY DEF In
<1>2. t \in Seq(chars) /\ n = Len(w) + 2 /\ t = w \o <<"\\", e[1]>>
  <2>1. \A a, b \in chars : /\ Append(Append(w, a), b) \in Seq(chars)
                            /\ Len(Append(Append(w, a), b)) = Len(w) + 2
                            /\ Append(Append(w, a), b) = w \o <<a, b>>
    BY <1>1
  <2> QED
    BY <1>1, <2>1
<1>3. Bound("insides", max) = max - 2
  BY DEF Bound
<1>4. ASSUME NEW S, Rests(S, n, chars, max) /\ n <= max - 2 PROVE <<t, u>> \in Insides(S, n, chars)
  <2>1. n \in Nat /\ n # 0 /\ n # 1 /\ n - 2 = Len(w) /\ n - 2 \in 0 .. n - 1 /\ n - 2 <= max - 2
    BY <1>1, <1>2, <1>4
  <2>2. <<w, v>> \in S[n - 2]["insides"]
    BY <1>3, <1>4, <2>1 DEF Rests
  <2> HIDE DEF n
  <2>3. <<w \o <<"\\", e[1]>>, u>> \in Insides(S, n, chars)
    BY <2>1, <2>2, InsideEscapes
  <2> HIDE DEF t
  <2> QED
    BY <1>2, <2>3
<1> HIDE DEF t, u
<1> QED
  BY <1>2, <1>4, IntoInsides DEF n, t, u

LEMMA JoinedIn ==
  ASSUME NEW A, NEW B, NEW sep, NEW w, NEW v, NEW u, NEW p, <<w, v>> \in A, <<u, p>> \in B
  PROVE  <<w \o sep \o u, v \o p>> \in Joined(A, sep, B)
<1> DEFINE y == <<w, v>>
           z == <<u, p>>
           Both(a, b) == <<a[1] \o sep \o b[1], a[2] \o b[2]>>
           X == {Both(a, b) : a \in A, b \in B}
<1>1. y \in A /\ z \in B
  OBVIOUS
<1>2. X = Joined(A, sep, B)
  BY DEF Joined
<1>3. Both(y, z) = <<w \o sep \o u, v \o p>>
  OBVIOUS
<1> HIDE DEF y, z, Both
<1>4. Both(y, z) \in X
  BY <1>1
<1> HIDE DEF X
<1> QED
  BY <1>2, <1>3, <1>4

LEMMA JoinedSeq ==
  ASSUME NEW chars, NEW w \in Seq(chars), NEW sep \in chars, NEW u \in Seq(chars)
  PROVE  /\ w \o <<sep>> \o u \in Seq(chars) /\ Len(w) \in Nat /\ Len(u) \in Nat
         /\ Len(w \o <<sep>> \o u) = Len(w) + 1 + Len(u)
<1> DEFINE t == w \o <<sep>>
<1>1. t \in Seq(chars) /\ Len(t) = Len(w) + 1 /\ Len(w) \in Nat /\ Len(u) \in Nat
  OBVIOUS
<1> HIDE DEF t
<1>2. t \o u \in Seq(chars) /\ Len(t \o u) = Len(t) + Len(u)
  BY <1>1
<1> QED
  BY <1>1, <1>2 DEF t

\* Parts on both sides of a separator.
LEMMA SplitIn ==
  ASSUME NEW chars, NEW max \in Nat, NEW f, NEW g, {f, g} \cap {"numerals", "values"} = {},
         NEW w, NEW v, In(chars, max, f, w, v), NEW u, NEW p, In(chars, max, g, u, p), NEW sep \in chars,
         NEW S, Rests(S, Len(w \o <<sep>> \o u), chars, max), Len(w \o <<sep>> \o u) <= max - 2
  PROVE  <<w \o <<sep>> \o u, v \o p>> \in Split(S, Len(w \o <<sep>> \o u), f, sep, g)
<1> DEFINE t == w \o <<sep>> \o u
           n == Len(t)
           k == Len(w)
           x == <<t, v \o p>>
<1>1. w \in Seq(chars) /\ u \in Seq(chars)
  BY DEF In
<1>2. k \in Nat /\ Len(u) \in Nat /\ n = k + 1 + Len(u)
  BY <1>1, JoinedSeq
<1>3. n - 1 - k = Len(u) /\ k \in 0 .. n - 1 /\ n - 1 - k \in 0 .. n - 1 /\ k <= max - 2 /\ n - 1 - k <= max - 2
  BY <1>2
<1>4. Bound(f, max) = max - 2 /\ Bound(g, max) = max - 2
  BY DEF Bound
<1>5. <<w, v>> \in S[k][f] /\ <<u, p>> \in S[n - 1 - k][g]
  BY <1>3, <1>4 DEF Rests
<1>6. x \in Joined(S[k][f], <<sep>>, S[n - 1 - k][g])
  BY <1>5, JoinedIn
<1> HIDE DEF x, n, k
<1>7. x \in Split(S, n, f, sep, g)
  BY <1>3, <1>6 DEF Split
<1> QED
  BY <1>7 DEF x, n

\* A value as an element, and as what follows a member's name.
LEMMA OneValue ==
  ASSUME NEW chars, NEW max \in Nat, NEW w, NEW v, In(chars, max, "values", w, v)
  PROVE  In(chars, max, "value", w, <<v>>) /\ In(chars, max, "elements", w, <<v>>)
<1> DEFINE n == Len(w)
<1>1. w \in Seq(chars) /\ n \in Nat
  BY DEF In
<1>2. Bound("value", max) = max - 2 /\ Bound("elements", max) = max - 2 /\ Bound("values", max) = max
  BY DEF Bound
<1>3. ASSUME n <= max - 2
      PROVE  <<w, <<v>>>> \in Grammar(chars, max)[n].value /\ <<w, <<v>>>> \in Grammar(chars, max)[n].elements
  <2>1. n \in 0 .. max /\ ~Long(n, max)
    BY <1>1, <1>3 DEF Long
  <2>2. PICK S : Rests(S, n, chars, max)
    BY <2>1, HasRests
  <2>3. /\ Grammar(chars, max)[n].value = One(RowValues(S, n, chars))
        /\ Grammar(chars, max)[n].elements = RowElements(S, n, chars)
        /\ Grammar(chars, max)[n].values = RowValues(S, n, chars)
    BY <2>1, <2>2, ValueField, ElementsField, ValuesField DEF Rests
  <2>4. <<w, v>> \in Grammar(chars, max)[n].values
    BY <1>2, <2>1 DEF In
  <2>5. <<w, <<v>>>> \in One(RowValues(S, n, chars))
    BY <2>3, <2>4, OneIn
  <2> QED
    BY <2>3, <2>5 DEF RowElements
<1> QED
  BY <1>1, <1>2, <1>3 DEF In

LEMMA Shortness == \A n, max \in Nat : n <= max - 2 => n \in 0 .. max /\ ~Long(n, max)
BY DEF Long

LEMMA MoreElements ==
  ASSUME NEW chars, NEW max \in Nat, "," \in chars, NEW w, NEW vs, In(chars, max, "elements", w, vs),
         NEW u, NEW v, In(chars, max, "values", u, v)
  PROVE  In(chars, max, "elements", w \o <<",">> \o u, vs \o <<v>>)
<1> DEFINE t == w \o <<",">> \o u
           n == Len(t)
           q == vs \o <<v>>
<1>0. In(chars, max, "value", u, <<v>>)
  BY OneValue
<1>1. w \in Seq(chars) /\ u \in Seq(chars)
  BY DEF In
<1>2. t \in Seq(chars) /\ n \in Nat
  BY <1>1, JoinedSeq
<1>3. Bound("elements", max) = max - 2
  BY DEF Bound
<1>4. ASSUME n <= max - 2 PROVE <<t, q>> \in Grammar(chars, max)[n].elements
  <2>1. n \in 0 .. max /\ ~Long(n, max)
    BY <1>2, <1>4, Shortness, Zenon
  <2>2. PICK S : Rests(S, n, chars, max)
    BY <2>1, HasRests
  <2>3. <<t, q>> \in Split(S, n, "elements", ",", "value")
    BY <1>0, <1>4, <2>2, SplitIn
  <2> HIDE DEF t, n, q
  <2>4. Grammar(chars, max)[n].elements = RowElements(S, n, chars)
    BY <2>1, <2>2, ElementsField DEF Rests
  <2> QED
    BY <2>3, <2>4 DEF RowElements
<1> HIDE DEF t, q
<1>5. In(chars, max, "elements", t, q)
  BY <1>2, <1>3, <1>4 DEF In
<1> QED
  BY <1>5 DEF t, q

LEMMA NewMember ==
  ASSUME NEW chars, NEW max \in Nat, ":" \in chars, NEW w, NEW name, In(chars, max, "name", w, name),
         NEW u, NEW v, In(chars, max, "values", u, v)
  PROVE  /\ In(chars, max, "member", w \o <<":">> \o u, name \o <<v>>)
         /\ In(chars, max, "members", w \o <<":">> \o u, name \o <<v>>)
<1> DEFINE t == w \o <<":">> \o u
           n == Len(t)
           q == name \o <<v>>
<1>0. In(chars, max, "value", u, <<v>>)
  BY OneValue
<1>1. w \in Seq(chars) /\ u \in Seq(chars)
  BY DEF In
<1>2. t \in Seq(chars) /\ n \in Nat
  BY <1>1, JoinedSeq
<1>3. Bound("member", max) = max - 2 /\ Bound("members", max) = max - 2
  BY DEF Bound
<1> HIDE DEF t, n, q
<1>4. ASSUME n <= max - 2
      PROVE  <<t, q>> \in Grammar(chars, max)[n].member /\ <<t, q>> \in Grammar(chars, max)[n].members
  <2>1. n \in 0 .. max /\ ~Long(n, max)
    BY <1>2, <1>4, Shortness, Zenon
  <2>2. PICK S : Rests(S, n, chars, max)
    BY <2>1, HasRests
  <2>3. <<t, q>> \in Split(S, n, "name", ":", "value")
    BY <1>0, <1>4, <2>2, SplitIn DEF t, n, q
  <2>4. Grammar(chars, max)[n].member = RowMember(S, n) /\ Grammar(chars, max)[n].members = RowMembers(S, n)
    BY <2>1, <2>2, MemberField, MembersField DEF Rests
  <2> QED
    BY <2>3, <2>4 DEF RowMember, RowMembers
<1>5. In(chars, max, "member", t, q) /\ In(chars, max, "members", t, q)
  BY <1>2, <1>3, <1>4 DEF In, n
<1> QED
  BY <1>5 DEF t, q

LEMMA MoreMembers ==
  ASSUME NEW chars, NEW max \in Nat, "," \in chars, NEW w, NEW vs, In(chars, max, "members", w, vs),
         NEW u, NEW v, In(chars, max, "member", u, v)
  PROVE  In(chars, max, "members", w \o <<",">> \o u, vs \o v)
<1> DEFINE t == w \o <<",">> \o u
           n == Len(t)
           q == vs \o v
<1>1. w \in Seq(chars) /\ u \in Seq(chars)
  BY DEF In
<1>2. t \in Seq(chars) /\ n \in Nat
  BY <1>1, JoinedSeq
<1>3. Bound("members", max) = max - 2
  BY DEF Bound
<1> HIDE DEF t, n, q
<1>4. ASSUME n <= max - 2 PROVE <<t, q>> \in Grammar(chars, max)[n].members
  <2>1. n \in 0 .. max /\ ~Long(n, max)
    BY <1>2, <1>4, Shortness, Zenon
  <2>2. PICK S : Rests(S, n, chars, max)
    BY <2>1, HasRests
  <2>3. <<t, q>> \in Split(S, n, "members", ",", "member")
    BY <1>4, <2>2, SplitIn DEF t, n, q
  <2>4. Grammar(chars, max)[n].members = RowMembers(S, n)
    BY <2>1, <2>2, MembersField DEF Rests
  <2> QED
    BY <2>3, <2>4 DEF RowMembers
<1>5. In(chars, max, "members", t, q)
  BY <1>2, <1>3, <1>4 DEF In, n
<1> QED
  BY <1>5 DEF t, q
=============================================================================
