-------------------------- MODULE JsonReaderProofs --------------------------
(***************************************************************************)
(* Reader, document and writer for every base of numerals, every width of  *)
(* an int and every text, of any length and from any sender: the edges of  *)
(* int; the document's stack of values, which is laid out as the open      *)
(* objects and arrays of the reader say (Layout); where the reader stops;  *)
(* byte for byte, how it follows what the writer wrote (Follows); and, for *)
(* any bytes, what those it has read mean (Placed).                        *)
(***************************************************************************)
EXTENDS JsonExchange, TextProofs

\* A user index survives its way through the answer and the next request: what
\* net_end_statement writes as an int (net_connect.cc:480) and dispatch_command reads as one and
\* keeps as unsigned (372-374) is the index again, for indices past the largest int as well.
THEOREM IndexKept ==
  \A u \in 0 .. Width - 1 : Signed(u) \in -Half .. Half - 1 /\ Unsigned(Signed(u)) = u
<1>1. TAKE u \in 0 .. Width - 1
<1>2. CASE u < Half
  BY <1>2, WidthEven DEF Signed, Unsigned
<1>3. CASE ~(u < Half)
  <2>1. Signed(u) = u - Width /\ u - Width < 0
    BY <1>3, WidthEven DEF Signed
  <2>2. (u - Width) % Width = u
    BY WidthEven
  <2> QED
    BY <1>3, <2>1, <2>2, WidthEven DEF Unsigned
<1> QED
  BY <1>2, <1>3

-----------------------------------------------------------------------------
LEMMA LimitRange == Limit \in Nat
  BY WidthEven DEF Limit

\* One more digit is refused exactly if the number with it is no int: the comparison with a
\* tenth of the limit and its last digit (reader.h:1484-1503, with and without a sign) decides
\* what the multiplication would, before it can overflow.
THEOREM DigitLimit ==
  ASSUME NEW d \in 0 .. BASE - 1, lex.i \in Nat
  PROVE  TooBig(d) <=> lex.i * BASE + d > Limit
<1> DEFINE B == BASE
           i == lex.i
           L == Limit
           q == L \div B
           y == L % B
<1>1. B \in Nat \ {0} /\ L \in Nat /\ i \in Nat
  BY WidthEven, LimitRange
<1>2. q \in Int /\ y \in 0 .. B - 1
  BY <1>1
<1>3. L = B * q + y
  BY <1>1
<1>4. d \in 0 .. B - 1
  OBVIOUS
<1>5. TooBig(d) <=> i >= q /\ (i # q \/ d > y)
  BY DEF TooBig
<1> HIDE DEF q, y, L, B, i
<1>6. B * (i - q) = B * i - B * q /\ B * (q - i) = B * q - B * i /\ B * i = i * B
      /\ B * i \in Int /\ B * q \in Int
  BY <1>1, <1>2
<1>7. CASE i < q
  <2>1. B * (q - i) >= B
    BY <1>1, <1>2, <1>7, Multiple
  <2>2. ~(i * B + d > L)
    BY <1>1, <1>2, <1>3, <1>4, <1>6, <2>1
  <2> QED
    BY <1>1, <1>2, <1>5, <1>7, <2>2 DEF B, i, L
<1>8. CASE i = q
  <2>1. i * B + d > L <=> d > y
    BY <1>1, <1>2, <1>3, <1>4, <1>6, <1>8
  <2> QED
    BY <1>1, <1>2, <1>5, <1>8, <2>1 DEF B, i, L
<1>9. CASE i > q
  <2>1. B * (i - q) >= B
    BY <1>1, <1>2, <1>9, Multiple
  <2>2. i * B + d > L
    BY <1>1, <1>2, <1>3, <1>4, <1>6, <2>1
  <2> QED
    BY <1>1, <1>2, <1>5, <1>9, <2>2 DEF B, i, L
<1> QED
  BY <1>1, <1>2, <1>7, <1>8, <1>9

-----------------------------------------------------------------------------
(***************************************************************************)
(* The reader's run over any text.  The stack of the document holds, for   *)
(* each activation of ParseObject and ParseArray, the object or array it   *)
(* fills, the values it has counted and, while a member is read, the       *)
(* member's name.                                                          *)
(***************************************************************************)
Activation == [what : {"object", "array"}, count : Nat]

\* How many values an activation has counted, and whether a name is on top of them
\* while it reads the next one.
OnStack(call) == IF call.what = "object" THEN 2 * call.count ELSE call.count
Name(call)    == IF call.what = "object" THEN 1 ELSE 0

Mode == {"between", "inside"}

Named(calling, mode, i) == IF i < Len(calling) \/ mode = "inside" THEN Name(calling[i]) ELSE 0

\* base says where the object or array of each activation is on the stack of values;
\* mode,
\* whether the innermost one reads a value or is between two.
Layout(base, values, calling, mode) ==
  /\ base \in [1 .. Len(calling) + 1 -> Nat]
  /\ base[1] = 1 /\ base[Len(calling) + 1] = Len(values) + 1
  /\ \A i, k \in 1 .. Len(calling) + 1 : i < k => base[i] < base[k]
  /\ \A i \in 1 .. Len(calling) :
       /\ base[i + 1] = base[i] + 1 + OnStack(calling[i]) + Named(calling, mode, i)
       /\ values[base[i]] = <<calling[i].what, <<>>>>
       /\ calling[i].what = "object" =>
            \A j \in Nat : base[i] + 2 * j + 1 < base[i + 1] => values[base[i] + 2 * j + 1][1] = "string"

\* What a layout says of the innermost activation.
LEMMA Innermost ==
  ASSUME NEW base, NEW values, NEW calling \in Seq(Activation), NEW mode \in Mode,
         Layout(base, values, calling, mode), calling # <<>>, Sequence(values)
  PROVE  /\ Len(calling) \in Nat \ {0} /\ Last(calling) = calling[Len(calling)]
         /\ calling[Len(calling)] \in Activation
         /\ base[Len(calling)] \in 1 .. Len(values)
         /\ values[base[Len(calling)]] = <<calling[Len(calling)].what, <<>>>>
         /\ Len(values) = base[Len(calling)] + OnStack(calling[Len(calling)])
                            + (IF mode = "inside" THEN Name(calling[Len(calling)]) ELSE 0)
         /\ calling[Len(calling)].what = "object" =>
              \A j \in Nat : base[Len(calling)] + 2 * j + 1 <= Len(values) =>
                values[base[Len(calling)] + 2 * j + 1][1] = "string"
<1> DEFINE m == Len(calling)
           c == calling[m]
<1>1. m \in Nat \ {0} /\ c \in Activation
  BY EmptySeq, ElementOfSeq, LenProperties
<1>2. Len(values) \in Nat
  BY AppendAny
<1>3. m \in 1 .. m /\ m \in 1 .. m + 1 /\ m + 1 \in 1 .. m + 1 /\ 1 \in 1 .. m + 1
  BY <1>1
<1>4. base[m] \in Nat /\ base[m + 1] = Len(values) + 1 /\ base[m] < base[m + 1] /\ base[1] = 1
      /\ (1 < m => base[1] < base[m])
  BY <1>1, <1>3 DEF Layout
<1>5. /\ base[m + 1] = base[m] + 1 + OnStack(c) + Named(calling, mode, m)
      /\ values[base[m]] = <<c.what, <<>>>>
      /\ c.what = "object" =>
           \A j \in Nat : base[m] + 2 * j + 1 < base[m + 1] => values[base[m] + 2 * j + 1][1] = "string"
  BY <1>3 DEF Layout
<1>6. base[m] >= 1
  BY <1>1, <1>4
<1>7. OnStack(c) \in Nat /\ Name(c) \in {0, 1}
  BY <1>1 DEF OnStack, Name, Activation
<1>8. Named(calling, mode, m) = IF mode = "inside" THEN Name(c) ELSE 0
  BY <1>1 DEF Named
<1>9. Len(values) = base[m] + OnStack(c) + (IF mode = "inside" THEN Name(c) ELSE 0)
  <2> DEFINE n == IF mode = "inside" THEN Name(c) ELSE 0
             o == OnStack(c)
             e == base[m + 1]
             a == base[m]
  <2>1. a \in Nat /\ o \in Nat /\ n \in Nat /\ e = a + 1 + o + n /\ e = Len(values) + 1
    BY <1>4, <1>5, <1>7, <1>8
  <2> HIDE DEF n, o, e, a
  <2>2. Len(values) = a + o + n
    BY <1>2, <2>1
  <2> QED
    BY <2>2 DEF n, o, a
<1>10. c.what = "object" =>
         \A j \in Nat : base[m] + 2 * j + 1 <= Len(values) => values[base[m] + 2 * j + 1][1] = "string"
  <2> SUFFICES ASSUME c.what = "object", NEW j \in Nat, base[m] + 2 * j + 1 <= Len(values)
               PROVE  values[base[m] + 2 * j + 1][1] = "string"
    OBVIOUS
  <2>1. base[m] + 2 * j + 1 < base[m + 1]
    BY <1>2, <1>4
  <2> QED
    BY <1>5, <2>1
<1> QED
  BY <1>1, <1>2, <1>4, <1>5, <1>6, <1>9, <1>10 DEF Last

\* One more value on the stack: a name, or a value that is counted at once.
LEMMA TopGrows ==
  ASSUME NEW base, NEW values, NEW calling \in Seq(Activation), NEW mode \in Mode,
         Layout(base, values, calling, mode), calling # <<>>, Sequence(values),
         NEW v, NEW after \in Seq(Activation), NEW later \in Mode,
         Len(after) = Len(calling),
         \A i \in 1 .. Len(calling) - 1 : after[i] = calling[i],
         LET m == Len(calling)
         IN  /\ after[m].what = calling[m].what
             /\ OnStack(after[m]) + Named(after, later, m)
                  = OnStack(calling[m]) + Named(calling, mode, m) + 1
             /\ calling[m].what = "object" /\ mode = "between" => v[1] = "string"
  PROVE  \E b : Layout(b, Append(values, v), after, later)
<1> DEFINE m == Len(calling)
           c == calling[m]
           w == Append(values, v)
           b == [k \in 1 .. m + 1 |-> IF k = m + 1 THEN base[k] + 1 ELSE base[k]]
<1>1. /\ m \in Nat \ {0} /\ c \in Activation
      /\ base[m] \in 1 .. Len(values) /\ values[base[m]] = <<c.what, <<>>>>
      /\ Len(values) = base[m] + OnStack(c) + (IF mode = "inside" THEN Name(c) ELSE 0)
  <2>1. Layout(base, values, calling, mode) /\ calling # <<>> /\ Sequence(values)
    OBVIOUS
  <2> QED
    BY <2>1, Innermost
<1>2. /\ Len(values) \in Nat /\ Len(w) = Len(values) + 1 /\ w[Len(values) + 1] = v
      /\ \A i \in 1 .. Len(values) : w[i] = values[i]
  BY AppendAny
<1>3. /\ base \in [1 .. m + 1 -> Nat] /\ base[1] = 1 /\ base[m + 1] = Len(values) + 1
      /\ \A i, k \in 1 .. m + 1 : i < k => base[i] < base[k]
  BY DEF Layout
<1>4. /\ b \in [1 .. m + 1 -> Nat] /\ b[1] = 1 /\ b[m + 1] = Len(w) + 1
      /\ \A k \in 1 .. m : b[k] = base[k]
  BY <1>1, <1>2, <1>3
<1>5. \A i, k \in 1 .. m + 1 : i < k => b[i] < b[k]
  <2> TAKE i, k \in 1 .. m + 1
  <2>1. i < k => base[i] < base[k] /\ i # m + 1
    BY <1>1, <1>3
  <2>2. base[i] \in Nat /\ base[k] \in Nat
    BY <1>3
  <2> QED
    BY <1>1, <2>1, <2>2
<1> HIDE DEF b, w
<1>6. ASSUME NEW i \in 1 .. m
      PROVE  /\ b[i + 1] = b[i] + 1 + OnStack(after[i]) + Named(after, later, i)
             /\ w[b[i]] = <<after[i].what, <<>>>>
             /\ after[i].what = "object" =>
                  \A j \in Nat : b[i] + 2 * j + 1 < b[i + 1] => w[b[i] + 2 * j + 1][1] = "string"
  <2>1. /\ base[i + 1] = base[i] + 1 + OnStack(calling[i]) + Named(calling, mode, i)
        /\ values[base[i]] = <<calling[i].what, <<>>>>
        /\ calling[i].what = "object" =>
             \A j \in Nat : base[i] + 2 * j + 1 < base[i + 1] => values[base[i] + 2 * j + 1][1] = "string"
    BY DEF Layout
  <2>2. i \in 1 .. m + 1 /\ i + 1 \in 1 .. m + 1 /\ m + 1 \in 1 .. m + 1 /\ i \in Nat
        /\ 1 \in 1 .. m + 1 /\ i < m + 1 /\ i <= m /\ i >= 1
    BY <1>1
  <2>3. base[i] \in Nat /\ base[i + 1] \in Nat /\ base[i] >= 1 /\ base[i] <= Len(values)
        /\ base[i + 1] <= Len(values) + 1 /\ b[i] = base[i]
    <3>1. base[1] < base[i] \/ i = 1
      <4>1. 1 < i \/ i = 1
        BY <2>2
      <4> QED
        BY <1>3, <2>2, <4>1
    <3>2. base[i] < base[m + 1]
      BY <1>1, <1>3, <2>2
    <3>3. base[i + 1] < base[m + 1] \/ i + 1 = m + 1
      <4>1. i + 1 < m + 1 \/ i + 1 = m + 1
        BY <1>1, <2>2
      <4> QED
        BY <1>3, <2>2, <4>1
    <3>4. base[i] \in Nat /\ base[i + 1] \in Nat /\ b[i] = base[i]
      BY <1>3, <1>4, <2>2
    <3> QED
      BY <1>2, <1>3, <3>1, <3>2, <3>3, <3>4
  <2>4. w[b[i]] = values[base[i]]
    BY <1>2, <2>3
  <2>5. CASE i < m
    <3>1. after[i] = calling[i] /\ b[i + 1] = base[i + 1] /\ i < Len(after)
      BY <1>1, <1>4, <2>5, SMTT(40)
    <3>2. Named(after, later, i) = Named(calling, mode, i)
      BY <2>5, <3>1 DEF Named
    <3>3. \A j \in Nat : base[i] + 2 * j + 1 < base[i + 1] =>
            w[base[i] + 2 * j + 1] = values[base[i] + 2 * j + 1]
      <4> TAKE j \in Nat
      <4> DEFINE x == base[i] + 2 * j + 1
      <4>1. x < base[i + 1] => x \in 1 .. Len(values)
        BY <1>2, <2>3
      <4> HIDE DEF x
      <4>2. x < base[i + 1] => w[x] = values[x]
        BY <1>2, <4>1
      <4> QED
        BY <4>2 DEF x
    <3> QED
      BY <2>1, <2>3, <2>4, <3>1, <3>2, <3>3
  <2>6. CASE i = m
    <3>1. b[m + 1] = base[m + 1] + 1 /\ base[m + 1] = Len(values) + 1
      BY <1>2, <1>3, <1>4
    <3>2. /\ after[m].what = c.what
          /\ OnStack(after[m]) + Named(after, later, m) = OnStack(c) + Named(calling, mode, m) + 1
      OBVIOUS
    <3>3. OnStack(c) \in Nat /\ Named(calling, mode, m) = (IF mode = "inside" THEN Name(c) ELSE 0)
          /\ Name(c) \in {0, 1} /\ (c.what = "object" => Name(c) = 1 /\ OnStack(c) = 2 * c.count)
          /\ c.count \in Nat
      <4>1. Named(calling, mode, m) = IF mode = "inside" THEN Name(c) ELSE 0
        BY <1>1 DEF Named
      <4>2. c.count \in Nat /\ OnStack(c) \in Nat
        BY <1>1, SMTT(40) DEF OnStack, Activation
      <4> QED
        BY <4>1, <4>2 DEF OnStack, Name
    <3>4. OnStack(after[m]) \in Int /\ Named(after, later, m) \in Int
      <4>1. after[m] \in Activation
        BY <1>1, ElementOfSeq
      <4> QED
        BY <4>1 DEF OnStack, Named, Name, Activation
    <3>5. b[m + 1] = b[m] + 1 + OnStack(after[m]) + Named(after, later, m)
      <4> DEFINE o == OnStack(after[m])
                 n == Named(after, later, m)
                 p == OnStack(c)
                 q == Named(calling, mode, m)
      <4>1. /\ o \in Int /\ n \in Int /\ p \in Nat /\ q \in Nat /\ o + n = p + q + 1
            /\ base[m + 1] = base[m] + 1 + p + q /\ base[m] \in Nat /\ b[m] = base[m]
            /\ b[m + 1] = base[m + 1] + 1
        <5>1. o + n = p + q + 1 /\ o \in Int /\ n \in Int /\ p \in Nat
          BY <3>2, <3>3, <3>4
        <5>2. q \in Nat
          BY <3>3
        <5>3. base[m + 1] = base[m] + 1 + p + q /\ base[m] \in Nat /\ b[m] = base[m]
          BY <2>1, <2>3, <2>6
        <5> QED
          BY <3>1, <5>1, <5>2, <5>3
      <4> DEFINE e == base[m + 1]
                 a == base[m]
      <4>2. b[m + 1] = e + 1 /\ e = a + 1 + p + q /\ b[m] = a /\ a \in Nat
        BY <4>1
      <4> HIDE DEF o, n, p, q, e, a
      <4>3. e + 1 = a + 1 + o + n
        BY <4>1, <4>2
      <4> QED
        BY <4>2, <4>3 DEF o, n
    <3>6. ASSUME c.what = "object", NEW j \in Nat, b[m] + 2 * j + 1 < b[m + 1]
          PROVE  w[b[m] + 2 * j + 1][1] = "string"
      <4> DEFINE x == b[m] + 2 * j + 1
      <4>0. base[m] = b[m] /\ base[m] >= 1 /\ base[m] \in Nat
        BY <2>3, <2>6
      <4>1. x \in Nat /\ x <= Len(values) + 1 /\ x >= 1 /\ base[m] = b[m] /\ base[m] >= 1
        <5> DEFINE y == base[m]
        <5>1. y \in Nat /\ y >= 1 /\ b[m] = y
          BY <4>0
        <5>2. y + 2 * j + 1 < Len(values) + 2
          BY <1>2, <3>1, <3>6, <4>0
        <5> HIDE DEF y
        <5>3. y + 2 * j + 1 \in Nat /\ y + 2 * j + 1 >= 1 /\ y + 2 * j + 1 <= Len(values) + 1
          BY <1>2, <5>1, <5>2
        <5> QED
          BY <4>0, <5>1, <5>3
      <4>2. CASE x <= Len(values)
        <5>0. x \in 1 .. Len(values)
          <6> HIDE DEF x
          <6> QED
            BY <1>2, <4>1, <4>2
        <5>1. w[x] = values[x]
          <6> HIDE DEF x
          <6> QED
            BY <1>2, <5>0
        <5>2. values[x][1] = "string"
          BY <1>2, <2>1, <2>6, <3>1, <3>6, <4>1, <4>2
        <5> QED
          BY <5>1, <5>2
      <4>3. CASE x = Len(values) + 1
        <5>1. mode = "between"
          <6> SUFFICES ASSUME mode = "inside" PROVE FALSE
            BY DEF Mode
          <6> DEFINE y == b[m]
                     z == c.count
          <6>1. y \in Nat /\ z \in Nat
            BY <3>3, <4>0
          <6>2. Len(values) = y + 2 * z + 1
            BY <1>1, <3>3, <3>6, <4>0
          <6>3. y + 2 * j + 1 = Len(values) + 1
            BY <4>3
          <6> HIDE DEF y, z
          <6> QED
            BY <6>1, <6>2, <6>3
        <5> QED
          BY <1>2, <3>6, <4>3, <5>1
      <4> QED
        BY <1>2, <4>1, <4>2, <4>3
    <3> QED
      BY <2>1, <2>3, <2>4, <2>6, <3>2, <3>5, <3>6
  <2> QED
    BY <1>1, <2>5, <2>6
<1>7. Len(after) = m
  OBVIOUS
<1>8. Layout(b, w, after, later)
  <2> HIDE DEF m
  <2> QED
    BY <1>4, <1>5, <1>6, <1>7 DEF Layout
<1> QED
  BY <1>8 DEF w

\* A value is read and counted.
LEMMA ValueCounted ==
  ASSUME NEW base, NEW values, NEW calling \in Seq(Activation),
         Layout(base, values, calling, "inside"), calling # <<>>, Sequence(values), NEW v
  PROVE  /\ Counted(calling) \in Seq(Activation) /\ Counted(calling) # <<>>
         /\ \E b : Layout(b, Append(values, v), Counted(calling), "between")
<1> DEFINE m == Len(calling)
           c == calling[m]
           after == Counted(calling)
<1>1. m \in Nat \ {0} /\ c \in Activation /\ \A i \in 1 .. m : calling[i] \in Activation
  BY EmptySeq, ElementOfSeq, LenProperties
<1>2. after = [calling EXCEPT ![m].count = @ + 1]
  BY DEF Counted
<1>3. /\ after \in Seq(Activation) /\ Len(after) = m
      /\ \A i \in 1 .. m - 1 : after[i] = calling[i]
      /\ after[m].what = c.what /\ after[m].count = c.count + 1
  <2>1. calling \in [1 .. m -> Activation]
    BY LenProperties
  <2>2. /\ after \in [1 .. m -> Activation]
        /\ \A i \in 1 .. m - 1 : after[i] = calling[i]
        /\ after[m].what = c.what /\ after[m].count = c.count + 1
    BY <1>1, <1>2, <2>1, SMTT(40) DEF Activation
  <2>3. after \in Seq(Activation) /\ Len(after) = m
    <3> DEFINE n == m
    <3>1. n \in Nat /\ after \in [1 .. n -> Activation]
      BY <1>1, <2>2
    <3> HIDE DEF n, after
    <3> QED
      BY <3>1 DEF n
  <2> QED
    BY <2>2, <2>3
<1>4. OnStack(after[m]) + Named(after, "between", m) = OnStack(c) + Named(calling, "inside", m) + 1
  <2>1. Named(after, "between", m) = 0 /\ Named(calling, "inside", m) = Name(c)
    BY <1>1, <1>3 DEF Named
  <2>2. c.count \in Nat
    BY <1>1 DEF Activation
  <2> QED
    BY <1>3, <2>1, <2>2 DEF OnStack, Name
<1>5. after # <<>>
  BY <1>1, <1>3, EmptySeq
<1> HIDE DEF after
<1>6. \E b : Layout(b, Append(values, v), after, "between")
  BY <1>3, <1>4, TopGrows DEF Mode
<1> QED
  BY <1>3, <1>5, <1>6 DEF after

\* The name of a member is read.
LEMMA NameRead ==
  ASSUME NEW base, NEW values, NEW calling \in Seq(Activation),
         Layout(base, values, calling, "between"), calling # <<>>, Sequence(values),
         Last(calling).what = "object", NEW v, v[1] = "string"
  PROVE  \E b : Layout(b, Append(values, v), calling, "inside")
<1> DEFINE m == Len(calling)
           c == calling[m]
<1>1. m \in Nat \ {0} /\ c \in Activation /\ Last(calling) = c
  BY Innermost DEF Mode
<1>2. OnStack(c) + Named(calling, "inside", m) = OnStack(c) + Named(calling, "between", m) + 1
  <2>1. Named(calling, "inside", m) = 1 /\ Named(calling, "between", m) = 0
    BY <1>1 DEF Named, Name
  <2>2. OnStack(c) \in Nat
    BY <1>1 DEF OnStack, Activation
  <2> QED
    BY <2>1, <2>2
<1> QED
  BY <1>2, TopGrows DEF Mode

\* An array has nothing between two values.
LEMMA ArrayInside ==
  ASSUME NEW base, NEW values, NEW calling \in Seq(Activation),
         Layout(base, values, calling, "between"), calling = <<>> \/ Last(calling).what = "array"
  PROVE  Layout(base, values, calling, "inside")
<1>1. \A i \in 1 .. Len(calling) : Named(calling, "inside", i) = Named(calling, "between", i)
  <2> TAKE i \in 1 .. Len(calling)
  <2>1. Len(calling) \in Nat /\ (calling = <<>> => Len(calling) = 0)
    BY LenProperties, EmptySeq
  <2>2. CASE i < Len(calling)
    BY <2>2 DEF Named
  <2>3. CASE i = Len(calling)
    <3>1. calling[i].what = "array"
      BY <2>1, <2>3 DEF Last
    <3> QED
      BY <2>3, <3>1 DEF Named, Name
  <2> QED
    BY <2>1, <2>2, <2>3
<1> QED
  BY <1>1 DEF Layout

\* An object or array begins inside the innermost one.
LEMMA CallBegins ==
  ASSUME NEW base, NEW values, NEW calling \in Seq(Activation),
         Layout(base, values, calling, "inside"), Sequence(values), NEW w \in {"object", "array"}
  PROVE  LET after == Append(calling, [what |-> w, count |-> 0])
         IN  /\ after \in Seq(Activation) /\ after # <<>> /\ Last(after).what = w
             /\ Last(after).count = 0
             /\ \E b : Layout(b, Append(values, <<w, <<>>>>), after, "between")
<1> DEFINE m == Len(calling)
           new == [what |-> w, count |-> 0]
           after == Append(calling, new)
           s == Append(values, <<w, <<>>>>)
           b == [k \in 1 .. m + 2 |-> IF k = m + 2 THEN base[m + 1] + 1 ELSE base[k]]
<1>1. new \in Activation
  BY DEF Activation
<1>2. /\ m \in Nat /\ after \in Seq(Activation) /\ Len(after) = m + 1 /\ after[m + 1] = new
      /\ \A i \in 1 .. m : after[i] = calling[i] /\ calling[i] \in Activation
  BY <1>1, LenProperties, ElementOfSeq, AppendProperties
<1>3. /\ Len(values) \in Nat /\ Len(s) = Len(values) + 1 /\ s[Len(values) + 1] = <<w, <<>>>>
      /\ \A i \in 1 .. Len(values) : s[i] = values[i]
  BY AppendAny
<1>4. /\ base \in [1 .. m + 1 -> Nat] /\ base[1] = 1 /\ base[m + 1] = Len(values) + 1
      /\ \A i, k \in 1 .. m + 1 : i < k => base[i] < base[k]
  BY DEF Layout
<1>5. 1 \in 1 .. m + 1 /\ m + 1 \in 1 .. m + 1 /\ m + 2 \in 1 .. m + 2
  BY <1>2
<1>6. /\ b \in [1 .. m + 2 -> Nat] /\ b[1] = 1 /\ b[m + 2] = Len(s) + 1
      /\ \A k \in 1 .. m + 1 : b[k] = base[k]
  BY <1>2, <1>3, <1>4, <1>5
<1>7. \A i \in 1 .. m + 1 : base[i] \in Nat /\ base[i] >= 1 /\ base[i] <= Len(values) + 1
  <2> TAKE i \in 1 .. m + 1
  <2>1. i = 1 \/ 1 < i
    BY <1>2
  <2>2. i = m + 1 \/ i < m + 1
    BY <1>2
  <2>3. base[i] \in Nat
    BY <1>4
  <2> QED
    BY <1>3, <1>4, <1>5, <2>1, <2>2, <2>3
<1> HIDE DEF b, s, after
<1>8. \A i, k \in 1 .. m + 2 : i < k => b[i] < b[k]
  <2> SUFFICES ASSUME NEW i \in 1 .. m + 2, NEW k \in 1 .. m + 2, i < k PROVE b[i] < b[k]
    OBVIOUS
  <2>1. i \in 1 .. m + 1
    BY <1>2
  <2>2. CASE k = m + 2
    <3>1. b[i] <= Len(values) + 1 /\ b[i] \in Nat
      BY <1>6, <1>7, <2>1
    <3> QED
      BY <1>3, <1>6, <2>2, <3>1
  <2>3. CASE k \in 1 .. m + 1
    BY <1>4, <1>6, <2>1, <2>3
  <2> QED
    BY <1>2, <2>2, <2>3
<1>9. ASSUME NEW i \in 1 .. m + 1
      PROVE  /\ b[i + 1] = b[i] + 1 + OnStack(after[i]) + Named(after, "between", i)
             /\ s[b[i]] = <<after[i].what, <<>>>>
             /\ after[i].what = "object" =>
                  \A j \in Nat : b[i] + 2 * j + 1 < b[i + 1] => s[b[i] + 2 * j + 1][1] = "string"
  <2>1. CASE i \in 1 .. m
    <3>1. /\ base[i + 1] = base[i] + 1 + OnStack(calling[i]) + Named(calling, "inside", i)
          /\ values[base[i]] = <<calling[i].what, <<>>>>
          /\ calling[i].what = "object" =>
               \A j \in Nat : base[i] + 2 * j + 1 < base[i + 1] => values[base[i] + 2 * j + 1][1] = "string"
      BY <2>1 DEF Layout
    <3>2. i + 1 \in 1 .. m + 1 /\ i \in 1 .. m + 1 /\ i < m + 1
      BY <1>2, <2>1
    <3>3. /\ b[i] = base[i] /\ b[i + 1] = base[i + 1] /\ after[i] = calling[i]
          /\ base[i] \in Nat /\ base[i] >= 1 /\ base[i + 1] <= Len(values) + 1
          /\ base[i + 1] \in Nat /\ base[i] < base[i + 1]
      <4>1. base[i] < base[i + 1]
        BY <1>2, <1>4, <3>2
      <4> QED
        BY <1>2, <1>6, <1>7, <2>1, <3>2, <4>1
    <3>4. Named(after, "between", i) = Named(calling, "inside", i)
      BY <1>2, <3>2, <3>3 DEF Named
    <3>5. s[base[i]] = values[base[i]]
      <4>1. base[i] \in 1 .. Len(values)
        BY <1>3, <3>3
      <4> QED
        BY <1>3, <4>1
    <3>6. \A j \in Nat : base[i] + 2 * j + 1 < base[i + 1] =>
            s[base[i] + 2 * j + 1] = values[base[i] + 2 * j + 1]
      <4> TAKE j \in Nat
      <4> DEFINE x == base[i] + 2 * j + 1
      <4>1. x < base[i + 1] => x \in 1 .. Len(values)
        BY <1>3, <3>3, SMTT(40)
      <4> HIDE DEF x
      <4>2. x < base[i + 1] => s[x] = values[x]
        BY <1>3, <4>1
      <4> QED
        BY <4>2 DEF x
    <3> QED
      BY <3>1, <3>3, <3>4, <3>5, <3>6
  <2>2. CASE i = m + 1
    <3>1. b[m + 1] = Len(values) + 1 /\ b[m + 2] = Len(values) + 2 /\ m + 1 + 1 = m + 2
      BY <1>2, <1>3, <1>4, <1>5, <1>6
    <3>2. after[i] = new /\ OnStack(new) = 0 /\ Named(after, "between", i) = 0
      BY <1>2, <2>2 DEF OnStack, Named
    <3>3. b[i + 1] = b[i] + 1 + OnStack(after[i]) + Named(after, "between", i)
      BY <1>3, <2>2, <3>1, <3>2
    <3>4. s[b[i]] = <<after[i].what, <<>>>>
      BY <1>3, <2>2, <3>1, <3>2
    <3>5. \A j \in Nat : ~(b[i] + 2 * j + 1 < b[i + 1])
      BY <1>3, <2>2, <3>1
    <3> QED
      BY <3>3, <3>4, <3>5
  <2> QED
    BY <1>2, <2>1, <2>2
<1>10. Layout(b, s, after, "between")
  <2>1. m + 1 + 1 = m + 2
    BY <1>2
  <2> HIDE DEF m
  <2> QED
    BY <1>2, <1>6, <1>8, <1>9, <2>1 DEF Layout
<1>11. after # <<>> /\ Last(after) = new
  BY <1>2, EmptySeq DEF Last
<1> QED
  BY <1>2, <1>10, <1>11 DEF after, s

\* Names and values in turn.
Paired(members) == \E n \in Nat : /\ Len(members) = 2 * n
                                  /\ \A j \in 0 .. n - 1 : members[2 * j + 1][1] = "string"

\* The innermost activation ends: below its values is its object or array, and those of
\* an object are names and values in turn.
LEMMA CallEnds ==
  ASSUME NEW base, NEW values, NEW calling \in Seq(Activation),
         Layout(base, values, calling, "between"), calling # <<>>, Sequence(values)
  PROVE  LET below == Len(values) - OnStack(Last(calling))
         IN  /\ below \in 1 .. Len(values) /\ values[below] = <<Last(calling).what, <<>>>>
             /\ Front(calling) \in Seq(Activation)
             /\ Sequence(SubSeq(values, 1, below - 1))
             /\ \A k \in 1 .. Len(SubSeq(values, 1, below - 1)) :
                  k \in 1 .. Len(values) /\ SubSeq(values, 1, below - 1)[k] = values[k]
             /\ \E b : Layout(b, SubSeq(values, 1, below - 1), Front(calling), "inside")
             /\ Last(calling).what = "object" => Paired(SubSeq(values, below + 1, Len(values)))
<1> DEFINE m == Len(calling)
           c == calling[m]
           below == Len(values) - OnStack(c)
           front == Front(calling)
           s == SubSeq(values, 1, below - 1)
           t == SubSeq(values, below + 1, Len(values))
           b == [k \in 1 .. m |-> base[k]]
<1>1. /\ m \in Nat \ {0} /\ Last(calling) = c /\ c \in Activation
      /\ base[m] \in 1 .. Len(values) /\ values[base[m]] = <<c.what, <<>>>>
      /\ Len(values) = base[m] + OnStack(c) + 0
      /\ c.what = "object" =>
           \A j \in Nat : base[m] + 2 * j + 1 <= Len(values) =>
             values[base[m] + 2 * j + 1][1] = "string"
  BY Innermost DEF Mode
<1>2. Len(values) \in Nat
  BY AppendAny
<1>3. OnStack(c) \in Nat /\ (c.what = "object" => OnStack(c) = 2 * c.count /\ c.count \in Nat)
  BY <1>1 DEF OnStack, Activation
<1>4. below = base[m]
  BY <1>1, <1>2, <1>3
<1>5. below \in 1 .. Len(values) /\ values[below] = <<c.what, <<>>>>
      /\ Len(values) = below + OnStack(c)
  BY <1>1, <1>2, <1>3, <1>4
<1> HIDE DEF below
<1>6. /\ front \in Seq(Activation) /\ Len(front) = m - 1
      /\ \A i \in 1 .. m - 1 : front[i] = calling[i]
  <2>1. /\ front = SubSeq(calling, 1, m - 1) /\ m - 1 \in Int /\ 1 \in Int
        /\ \A i \in 1 .. m - 1 : calling[i] \in Activation
    BY <1>1, ElementOfSeq DEF Front
  <2>2. /\ SubSeq(calling, 1, m - 1) \in Seq(Activation)
        /\ Len(SubSeq(calling, 1, m - 1)) = IF 1 <= m - 1 THEN (m - 1) - 1 + 1 ELSE 0
        /\ \A i \in 1 .. (m - 1) - 1 + 1 : SubSeq(calling, 1, m - 1)[i] = calling[1 + i - 1]
    BY <2>1, SubSeqProperties
  <2> HIDE DEF front, m
  <2>3. (m - 1) - 1 + 1 = m - 1 /\ (IF 1 <= m - 1 THEN (m - 1) - 1 + 1 ELSE 0) = m - 1
    BY <1>1
  <2>4. \A i \in 1 .. m - 1 : 1 + i - 1 = i
    BY <1>1
  <2> QED
    BY <2>1, <2>2, <2>3, <2>4
<1>7. Sequence(s) /\ Len(s) = below - 1 /\ \A k \in 1 .. below - 1 : s[k] = values[k]
  <2>1. 1 \in 1 .. Len(values) + 1 /\ below - 1 \in 1 - 1 .. Len(values)
    BY <1>2, <1>5
  <2>2. /\ Sequence(s) /\ Len(s) = (below - 1) - 1 + 1
        /\ \A k \in 1 .. (below - 1) - 1 + 1 : s[k] = values[1 + k - 1]
    BY <2>1, SubSeqAny
  <2>3. (below - 1) - 1 + 1 = below - 1 /\ below \in Nat
    BY <1>2, <1>5
  <2>4. \A k \in 1 .. below - 1 : 1 + k - 1 = k
    BY <2>3
  <2> QED
    BY <2>2, <2>3, <2>4
<1>8. c.what = "object" => Paired(t)
  <2> SUFFICES ASSUME c.what = "object" PROVE Paired(t)
    OBVIOUS
  <2>1. below + 1 \in 1 .. Len(values) + 1 /\ Len(values) \in (below + 1) - 1 .. Len(values)
    BY <1>2, <1>5
  <2>2. /\ Len(t) = Len(values) - (below + 1) + 1
        /\ \A k \in 1 .. Len(values) - (below + 1) + 1 : t[k] = values[(below + 1) + k - 1]
    BY <2>1, SubSeqAny
  <2> DEFINE n == c.count
  <2>3. n \in Nat /\ Len(values) = below + 2 * n /\ below \in Nat
    BY <1>3, <1>5
  <2> HIDE DEF n, t
  <2>4. Len(t) = 2 * n
    BY <2>2, <2>3
  <2>5. ASSUME NEW j \in 0 .. n - 1
        PROVE  t[2 * j + 1][1] = "string"
    <3>1. 2 * j + 1 \in 1 .. Len(values) - (below + 1) + 1 /\ j \in Nat
          /\ (below + 1) + (2 * j + 1) - 1 = below + 2 * j + 1 /\ below + 2 * j + 1 <= Len(values)
      BY <2>3
    <3>2. t[2 * j + 1] = values[below + 2 * j + 1]
      BY <2>2, <3>1
    <3>3. values[below + 2 * j + 1][1] = "string"
      BY <1>1, <1>4, <3>1
    <3> QED
      BY <3>2, <3>3
  <2> QED
    BY <2>3, <2>4, <2>5 DEF Paired
<1>9. /\ base \in [1 .. m + 1 -> Nat] /\ base[1] = 1
      /\ \A i, k \in 1 .. m + 1 : i < k => base[i] < base[k]
  BY DEF Layout
<1>10. /\ b \in [1 .. m -> Nat] /\ b[1] = 1 /\ b[m] = Len(s) + 1
       /\ \A i, k \in 1 .. m : i < k => b[i] < b[k]
       /\ \A k \in 1 .. m : b[k] = base[k]
  <2>1. \A k \in 1 .. m : k \in 1 .. m + 1 /\ b[k] = base[k]
    BY <1>1
  <2>2. 1 \in 1 .. m /\ m \in 1 .. m /\ below \in Nat
    BY <1>1, <1>2, <1>5
  <2>3. b \in [1 .. m -> Nat]
    BY <1>9, <2>1
  <2>4. b[m] = Len(s) + 1
    BY <1>4, <1>7, <2>1, <2>2
  <2> QED
    BY <1>9, <2>1, <2>2, <2>3, <2>4
<1> HIDE DEF b, s, front
<1>11. ASSUME NEW i \in 1 .. m - 1
       PROVE  /\ b[i + 1] = b[i] + 1 + OnStack(front[i]) + Named(front, "inside", i)
              /\ s[b[i]] = <<front[i].what, <<>>>>
              /\ front[i].what = "object" =>
                   \A j \in Nat : b[i] + 2 * j + 1 < b[i + 1] => s[b[i] + 2 * j + 1][1] = "string"
  <2>1. i \in 1 .. m /\ i + 1 \in 1 .. m /\ i < m /\ i + 1 \in 1 .. m + 1 /\ m \in 1 .. m + 1
    BY <1>1
  <2>2. /\ base[i + 1] = base[i] + 1 + OnStack(calling[i]) + Named(calling, "between", i)
        /\ values[base[i]] = <<calling[i].what, <<>>>>
        /\ calling[i].what = "object" =>
             \A j \in Nat : base[i] + 2 * j + 1 < base[i + 1] => values[base[i] + 2 * j + 1][1] = "string"
    BY <2>1 DEF Layout
  <2>3. front[i] = calling[i] /\ b[i] = base[i] /\ b[i + 1] = base[i + 1]
    BY <1>6, <1>10, <2>1
  <2>4. Named(front, "inside", i) = Named(calling, "between", i)
    BY <2>1, <2>3 DEF Named
  <2>5. base[i] \in 1 .. below - 1 /\ base[i + 1] \in Nat /\ base[i + 1] <= below
    <3>1. i = 1 \/ 1 < i
      BY <2>1
    <3>2. 1 \in 1 .. m /\ below \in Nat
      BY <1>1, <1>2, <1>5
    <3>3. base[i] < base[m] /\ (base[i + 1] < base[m] \/ i + 1 = m) /\ base[i] >= 1
      <4>1. i + 1 < m \/ i + 1 = m
        BY <1>1, <2>1
      <4>2. base[i] >= 1
        BY <1>9, <2>1, <3>1, <3>2, <1>10, <2>3
      <4> QED
        BY <1>9, <2>1, <4>1, <4>2
    <3>4. base[i] \in Nat /\ base[i + 1] \in Nat
      BY <1>9, <2>1, <2>3, <1>10
    <3> QED
      BY <1>4, <3>2, <3>3, <3>4
  <2>6. s[base[i]] = values[base[i]]
    BY <1>7, <2>5
  <2>7. \A j \in Nat : base[i] + 2 * j + 1 < base[i + 1] =>
          s[base[i] + 2 * j + 1] = values[base[i] + 2 * j + 1]
    <3> TAKE j \in Nat
    <3> DEFINE x == base[i] + 2 * j + 1
    <3>0. below \in Nat
      BY <1>2, <1>5
    <3>1. x < base[i + 1] => x \in 1 .. below - 1
      BY <2>5, <3>0
    <3> HIDE DEF x
    <3>2. x < base[i + 1] => s[x] = values[x]
      BY <1>7, <3>1
    <3> QED
      BY <3>2 DEF x
  <2> QED
    BY <2>2, <2>3, <2>4, <2>6, <2>7
<1>12. Layout(b, s, front, "inside")
  <2>1. (m - 1) + 1 = m
    BY <1>1
  <2> HIDE DEF m
  <2> QED
    BY <1>6, <1>10, <1>11, <2>1 DEF Layout
<1>13. \A k \in 1 .. Len(s) : k \in 1 .. Len(values) /\ s[k] = values[k]
  BY <1>2, <1>5, <1>7
<1> QED
  BY <1>1, <1>5, <1>6, <1>7, <1>8, <1>12, <1>13 DEF below, s, front

-----------------------------------------------------------------------------
(* Where the reader is, and what that says of the document's stack.        *)

Fields == {"key", "chars", "minus", "i", "big"}

\* After a member's name, and in a value, the innermost activation waits for the value.
Stand == IF at \in {"colon", "value", "sign", "digits"} \/ (at \in {"string", "escape"} /\ ~lex.key)
         THEN "inside" ELSE "between"

InObject == calls # <<>> /\ Last(calls).what = "object"
InArray  == calls # <<>> /\ Last(calls).what = "array"

\* The root value has been read.
HasRoot == calls = <<>> /\ at \in {"next", "parsed"}

PlaceInv ==
  /\ at \in Places /\ DOMAIN lex = Fields /\ lex = [f \in Fields |-> lex[f]] /\ lex.key \in BOOLEAN
  /\ calls \in Seq(Activation)
  /\ at \in {"root", "parsed", "failed"} => calls = <<>>
  /\ at \in {"first", "member", "colon"} => InObject
  /\ lex.key => at \in {"string", "escape"} /\ InObject
  /\ at = "element" => InArray
  /\ at \in {"first", "element"} => Last(calls).count = 0

StackInv ==
  /\ Sequence(stack)
  /\ \A k \in 1 .. Len(stack) : stack[k][1] = "object" => Paired(stack[k][2])
  /\ HasRoot => Len(stack) = 1
  /\ at # "failed" /\ ~HasRoot => \E base : Layout(base, stack, calls, Stand)

RInv == PlaceInv /\ StackInv

\* A value whose members, if it is an object, are names and values in turn.
Sound(v) == v[1] = "object" => Paired(v[2])

LEMMA SoundKinds ==
  /\ \A x : Sound(<<"true", x>>) /\ Sound(<<"int", x>>) /\ Sound(<<"number", x>>)
            /\ Sound(<<"string", x>>) /\ Sound(<<"array", x>>)
  /\ Sound(<<"object", <<>>>>)
<1>1. Paired(<<>>)
  <2>1. Len(<<>>) = 2 * 0 /\ 0 \in Nat
    BY EmptySeq
  <2> QED
    BY <2>1 DEF Paired
<1> QED
  BY <1>1 DEF Sound

LEMMA SoundPush ==
  ASSUME StackInv, NEW v, Sound(v), stack' = Append(stack, v)
  PROVE  /\ Sequence(stack') /\ Len(stack') = Len(stack) + 1 /\ Len(stack) \in Nat
         /\ \A k \in 1 .. Len(stack') : stack'[k][1] = "object" => Paired(stack'[k][2])
<1>1. /\ Sequence(stack') /\ Len(stack') = Len(stack) + 1 /\ stack'[Len(stack) + 1] = v
      /\ \A i \in 1 .. Len(stack) : stack'[i] = stack[i]
      /\ Len(stack) \in Nat
  BY AppendAny DEF StackInv
<1>2. ASSUME NEW k \in 1 .. Len(stack'), stack'[k][1] = "object"
      PROVE  Paired(stack'[k][2])
  <2>1. CASE k \in 1 .. Len(stack)
    BY <1>1, <1>2, <2>1 DEF StackInv
  <2>2. CASE k = Len(stack) + 1
    BY <1>1, <1>2, <2>2 DEF Sound
  <2> QED
    BY <1>1, <2>1, <2>2
<1> QED
  BY <1>1, <1>2

NoLexFields == /\ DOMAIN NoLex = Fields /\ NoLex = [f \in Fields |-> NoLex[f]] /\ NoLex.key = FALSE

LEMMA NoLexOK == NoLexFields
BY DEF NoLexFields, NoLex, Fields

\* The event of a value, at a place where one is read.
LEMMA EventKeeps ==
  ASSUME RInv, NEW v, Sound(v), Event(v),
         at \in {"value", "sign", "digits"} \/ (at = "string" /\ ~lex.key)
  PROVE  RInv'
<1>1. Stand = "inside" /\ ~HasRoot /\ at # "failed"
  BY DEF Stand, HasRoot
<1>2. PICK base : Layout(base, stack, calls, "inside")
  BY <1>1 DEF RInv, StackInv
<1>3. /\ stack' = Append(stack, v) /\ calls' = Counted(calls) /\ at' = "next" /\ lex' = NoLex
      /\ calls \in Seq(Activation) /\ Sequence(stack)
  BY DEF Event, RInv, PlaceInv, StackInv
<1>4. /\ Sequence(stack') /\ Len(stack') = Len(stack) + 1 /\ Len(stack) \in Nat
      /\ \A k \in 1 .. Len(stack') : stack'[k][1] = "object" => Paired(stack'[k][2])
  BY <1>3, SoundPush DEF RInv
<1>5. Stand' = "between"
  BY <1>3 DEF Stand
<1>6. CASE calls = <<>>
  <2>1. calls' = <<>> /\ Len(calls) = 0
    BY <1>3, <1>6, EmptySeq DEF Counted
  <2>2. Len(stack) = 0
    BY <1>2, <1>4, <2>1 DEF Layout
  <2>3. PlaceInv'
    BY <1>3, <1>6, <2>1, NoLexOK DEF PlaceInv, NoLexFields, Places, White
  <2>4. StackInv'
    BY <1>3, <1>4, <2>1, <2>2 DEF StackInv, HasRoot
  <2> QED
    BY <2>3, <2>4 DEF RInv
<1>7. CASE calls # <<>>
  <2>1. /\ calls' \in Seq(Activation) /\ calls' # <<>>
        /\ \E b : Layout(b, stack', calls', "between")
    BY <1>2, <1>3, <1>7, ValueCounted
  <2>2. PlaceInv'
    BY <1>3, <2>1, NoLexOK DEF PlaceInv, NoLexFields, Places, White
  <2>3. ~HasRoot'
    BY <2>1 DEF HasRoot
  <2>4. StackInv'
    BY <1>4, <1>5, <2>1, <2>3 DEF StackInv
  <2> QED
    BY <2>2, <2>4 DEF RInv
<1> QED
  BY <1>6, <1>7

\* The event of the end of an object or array.
LEMMA ClosesKeeps ==
  ASSUME RInv, calls # <<>>, at \in {"first", "element", "next"}, Closes(Last(calls).count)
  PROVE  RInv'
<1> DEFINE n == OnStack(Last(calls))
           below == Len(stack) - n
           s == SubSeq(stack, 1, below - 1)
           v == <<Last(calls).what, SubSeq(stack, below + 1, Len(stack))>>
           front == Front(calls)
<1>1. Stand = "between" /\ ~HasRoot /\ at # "failed" /\ ~lex.key
  BY DEF Stand, HasRoot, RInv, PlaceInv
<1>2. PICK base : Layout(base, stack, calls, "between")
  BY <1>1 DEF RInv, StackInv
<1>3. /\ stack' = Append(s, v) /\ calls' = Counted(front) /\ at' = "next" /\ lex' = lex
      /\ calls \in Seq(Activation) /\ Sequence(stack)
  BY DEF Closes, OnStack, RInv, PlaceInv, StackInv
<1>4. /\ below \in 1 .. Len(stack) /\ front \in Seq(Activation) /\ Sequence(s)
      /\ \A k \in 1 .. Len(s) : k \in 1 .. Len(stack) /\ s[k] = stack[k]
      /\ \E b : Layout(b, s, front, "inside")
      /\ Last(calls).what = "object" => Paired(SubSeq(stack, below + 1, Len(stack)))
  BY <1>2, <1>3, CallEnds
<1>5. PICK b : Layout(b, s, front, "inside")
  BY <1>4
<1> HIDE DEF s, v, front, below, n
<1>6. Sound(v)
  BY <1>4 DEF Sound, v
<1>7. /\ Sequence(stack') /\ Len(stack') = Len(s) + 1 /\ stack'[Len(s) + 1] = v /\ Len(s) \in Nat
      /\ \A i \in 1 .. Len(s) : stack'[i] = s[i]
  BY <1>3, <1>4, AppendAny
<1>8. ASSUME NEW k \in 1 .. Len(stack'), stack'[k][1] = "object"
      PROVE  Paired(stack'[k][2])
  <2>1. CASE k \in 1 .. Len(s)
    BY <1>4, <1>7, <1>8, <2>1 DEF RInv, StackInv
  <2>2. CASE k = Len(s) + 1
    BY <1>6, <1>7, <1>8, <2>2 DEF Sound
  <2> QED
    BY <1>7, <2>1, <2>2
<1>9. Stand' = "between" /\ ~lex.key'
  BY <1>1, <1>3 DEF Stand
<1>10. CASE front = <<>>
  <2>1. calls' = <<>> /\ Len(front) = 0
    BY <1>3, <1>10, EmptySeq DEF Counted
  <2>2. Len(s) = 0
    BY <1>5, <1>7, <2>1 DEF Layout
  <2>3. PlaceInv'
    BY <1>1, <1>3, <1>4, <1>10, <2>1 DEF RInv, PlaceInv, Places, White
  <2>4. StackInv'
    BY <1>3, <1>7, <1>8, <2>1, <2>2 DEF StackInv, HasRoot
  <2> QED
    BY <2>3, <2>4 DEF RInv
<1>11. CASE front # <<>>
  <2>1. /\ calls' \in Seq(Activation) /\ calls' # <<>>
        /\ \E c : Layout(c, stack', calls', "between")
    BY <1>3, <1>4, <1>5, <1>11, ValueCounted
  <2>2. PlaceInv'
    BY <1>1, <1>3, <2>1 DEF RInv, PlaceInv, Places, White
  <2>3. ~HasRoot'
    BY <2>1 DEF HasRoot
  <2>4. StackInv'
    BY <1>7, <1>8, <1>9, <2>1, <2>3 DEF StackInv
  <2> QED
    BY <2>2, <2>4 DEF RInv
<1> QED
  BY <1>10, <1>11

\* Nothing is pushed or popped, and nobody leaves the innermost activation.
LEMMA Moves ==
  ASSUME RInv, PlaceInv', UNCHANGED <<calls, stack>>, ~HasRoot, ~HasRoot',
         at # "failed", Stand' = Stand \/ (Stand' = "inside" /\ ~InObject)
  PROVE  RInv'
<1>1. PICK base : Layout(base, stack, calls, Stand)
  BY DEF RInv, StackInv
<1>2. Layout(base, stack, calls, Stand')
  <2>1. CASE Stand' = Stand
    BY <1>1, <2>1
  <2>2. CASE Stand' = "inside" /\ ~InObject
    <3>1. calls \in Seq(Activation)
      BY DEF RInv, PlaceInv
    <3>2. calls = <<>> \/ Last(calls).what = "array"
      <4>1. calls # <<>> => Len(calls) \in Nat \ {0}
        BY <3>1, EmptySeq
      <4>2. calls # <<>> => calls[Len(calls)] \in Activation
        BY <3>1, <4>1, ElementOfSeq
      <4> QED
        BY <2>2, <4>2 DEF InObject, Last, Activation
    <3>3. CASE Stand = "between"
      BY <1>1, <2>2, <3>1, <3>2, <3>3, ArrayInside
    <3>4. CASE Stand = "inside"
      BY <1>1, <2>2, <3>4
    <3> QED
      BY <3>3, <3>4 DEF Stand
  <2> QED
    BY <2>1, <2>2
<1> QED
  BY <1>2 DEF RInv, StackInv

LEMMA FailsKeeps == ASSUME RInv, NEW error, Fails(error) PROVE RInv'
<1>1. calls' = <<>> /\ stack' = <<>> /\ lex' = NoLex /\ at' = "failed"
  BY DEF Fails
<1>2. PlaceInv'
  BY <1>1, NoLexOK, EmptySeq DEF PlaceInv, NoLexFields, Places
<1>3. <<>> \in Seq({}) /\ Len(<<>>) = 0
  BY EmptySeq
<1>4. StackInv'
  BY <1>1, <1>3 DEF StackInv, Sequence, HasRoot
<1> QED
  BY <1>2, <1>4 DEF RInv

LEMMA LexExcept ==
  ASSUME PlaceInv, NEW f \in Fields, NEW v, f = "key" => v \in BOOLEAN,
         lex' = [lex EXCEPT ![f] = v]
  PROVE  /\ DOMAIN lex' = Fields /\ lex' = [g \in Fields |-> lex'[g]] /\ lex'.key \in BOOLEAN
         /\ lex'[f] = v /\ \A g \in Fields \ {f} : lex'[g] = lex[g]
<1>1. lex = [g \in Fields |-> lex[g]] /\ "key" \in Fields
  BY DEF PlaceInv, Fields
<1>2. lex' = [g \in Fields |-> IF g = f THEN v ELSE lex[g]]
  BY <1>1
<1> QED
  BY <1>1, <1>2 DEF PlaceInv

\* A number that passes the limit.
LEMMA BigExcept ==
  ASSUME DOMAIN lex = Fields, lex = [g \in Fields |-> lex[g]], NEW x,
         lex' = [[lex EXCEPT !["i"] = x] EXCEPT !["big"] = TRUE]
  PROVE  /\ DOMAIN lex' = Fields /\ lex' = [g \in Fields |-> lex'[g]]
         /\ lex'.key = lex.key /\ lex'.minus = lex.minus /\ lex'.i = x /\ lex'.big = TRUE
BY DEF Fields

\* The steps that only move on.
LEMMA PlaceKeeps ==
  ASSUME RInv,
         \/ Grow \/ Skip \/ StringValue \/ FirstElement \/ AfterComma
         \/ (Parse \/ Colon) /\ at' # "failed"
  PROVE  RInv'
<1>1. /\ UNCHANGED <<calls, lex, stack>> /\ at # "failed" /\ at' # "failed"
      /\ calls \in Seq(Activation)
  BY DEF Grow, Skip, StringValue, FirstElement, AfterComma, Parse, Colon, Fails, Busy, At,
         White, RInv, PlaceInv
<1>2. CASE Grow \/ Skip
  <2>1. at' = at
    BY <1>2 DEF Grow, Skip
  <2> QED
    BY <1>1, <2>1 DEF RInv, PlaceInv, StackInv, HasRoot, Stand, InObject, InArray
<1>3. CASE StringValue \/ FirstElement \/ Parse \/ Colon \/ AfterComma
  <2>1. /\ StringValue  => at = "value" /\ at' = "string"
        /\ FirstElement => at = "element" /\ at' = "value"
        /\ Parse        => at = "root" /\ at' = "value"
        /\ Colon        => at = "colon" /\ at' = "value"
        /\ AfterComma   => /\ at = "next" /\ calls # <<>>
                           /\ at' = IF Last(calls).what = "object" THEN "member" ELSE "value"
    BY <1>1 DEF StringValue, FirstElement, Parse, Colon, AfterComma, At, Fails
  <2>2. PlaceInv'
    BY <1>1, <1>3, <2>1 DEF RInv, PlaceInv, InObject, InArray, Places, White
  <2>3. ~HasRoot /\ ~HasRoot'
    BY <1>1, <1>3, <2>1 DEF HasRoot
  <2>4. Stand' = Stand \/ (Stand' = "inside" /\ ~InObject)
    <3>1. ~lex.key
      BY <1>3, <2>1 DEF RInv, PlaceInv
    <3>2. CASE StringValue \/ Colon
      BY <1>1, <2>1, <3>1, <3>2 DEF Stand
    <3>3. CASE FirstElement \/ Parse
      BY <1>1, <2>1, <3>3 DEF Stand, RInv, PlaceInv, InObject, InArray
    <3>4. CASE AfterComma
      BY <1>1, <2>1, <3>4 DEF Stand, InObject
    <3> QED
      BY <1>3, <3>2, <3>3, <3>4
  <2> QED
    BY <1>1, <2>2, <2>3, <2>4, Moves
<1> QED
  BY <1>2, <1>3

\* The steps within a number or string.
LEMMA LexKeeps ==
  ASSUME RInv, at' # "failed",
         \/ ParseNumber \/ ScanString \/ Escape \/ Key \/ NextDigit
         \/ FirstDigit /\ at' # "next"
  PROVE  RInv'
<1>1. /\ UNCHANGED <<calls, stack>> /\ at # "failed"
      /\ \/ /\ at = "value" /\ at' = "sign" /\ (lex' = lex \/ lex' = [lex EXCEPT !["minus"] = TRUE])
         \/ /\ at = "string" /\ at' = "escape" /\ lex' = lex
         \/ /\ at \in {"string", "escape"} /\ at' = "string"
            /\ \E x : lex' = [lex EXCEPT !["chars"] = x]
         \/ /\ at \in {"first", "member"} /\ at' = "string" /\ lex' = [lex EXCEPT !["key"] = TRUE]
         \/ /\ at = "digits" /\ at' = "digits"
            /\ \E x : lex' = [[lex EXCEPT !["i"] = x] EXCEPT !["big"] = TRUE] \/ lex' = [lex EXCEPT !["i"] = x]
         \/ /\ at = "sign" /\ at' = "digits" /\ \E x : lex' = [lex EXCEPT !["i"] = x]
  BY DEF ParseNumber, ScanString, Escape, Key, NextDigit, FirstDigit, At, Fails, Event
<1>2. PlaceInv
  BY DEF RInv
<1>3. ~HasRoot /\ ~HasRoot'
  BY <1>1 DEF HasRoot
<1>4. CASE at \in {"first", "member"} /\ at' = "string" /\ lex' = [lex EXCEPT !["key"] = TRUE]
  <2>1. /\ DOMAIN lex' = Fields /\ lex' = [g \in Fields |-> lex'[g]] /\ lex'.key
    BY <1>2, <1>4, LexExcept DEF Fields
  <2>2. PlaceInv'
    BY <1>1, <1>2, <1>4, <2>1 DEF PlaceInv, InObject, Places, White
  <2>3. Stand' = Stand
    BY <1>4, <2>1 DEF Stand
  <2> QED
    BY <1>1, <1>3, <2>2, <2>3, Moves
<1>5. CASE ~(at \in {"first", "member"})
  <2>1. /\ DOMAIN lex' = Fields /\ lex' = [g \in Fields |-> lex'[g]] /\ lex'.key \in BOOLEAN
        /\ lex'.key = lex.key
    <3>1. CASE lex' = lex
      BY <1>2, <3>1 DEF PlaceInv
    <3>2. CASE lex' = [lex EXCEPT !["minus"] = TRUE]
      BY <1>2, <3>2, LexExcept DEF Fields
    <3>4. CASE \E x : lex' = [[lex EXCEPT !["i"] = x] EXCEPT !["big"] = TRUE]
      <4>1. PICK x : lex' = [[lex EXCEPT !["i"] = x] EXCEPT !["big"] = TRUE]
        BY <3>4
      <4> QED
        BY <1>2, <4>1, BigExcept DEF PlaceInv
    <3>3. CASE \E x : lex' = [lex EXCEPT !["chars"] = x] \/ lex' = [lex EXCEPT !["i"] = x]
      BY <1>2, <3>3, LexExcept DEF Fields
    <3> QED
      BY <1>1, <1>5, <3>1, <3>2, <3>3, <3>4
  <2>2. PlaceInv'
    BY <1>1, <1>2, <1>5, <2>1 DEF PlaceInv, InObject, Places, White
  <2>3. Stand' = Stand
    BY <1>1, <1>2, <1>5, <2>1 DEF Stand, PlaceInv
  <2> QED
    BY <1>1, <1>3, <2>2, <2>3, Moves
<1> QED
  BY <1>1, <1>4, <1>5

\* An object or array begins.
LEMMA CallKeeps == ASSUME RInv, ParseObject \/ ParseArray PROVE RInv'
<1>1. PICK w \in {"object", "array"} :
        /\ at = "value" /\ stack' = Append(stack, <<w, <<>>>>) /\ lex' = lex
        /\ calls' = Append(calls, [what |-> w, count |-> 0])
        /\ at' = IF w = "object" THEN "first" ELSE "element"
  BY DEF ParseObject, ParseArray, At
<1>2. Stand = "inside" /\ ~HasRoot /\ Stand' = "between" /\ ~lex.key
  BY <1>1 DEF Stand, HasRoot, RInv, PlaceInv
<1>3. PICK base : Layout(base, stack, calls, "inside")
  BY <1>1, <1>2 DEF RInv, StackInv
<1>4. calls \in Seq(Activation) /\ Sequence(stack)
  BY DEF RInv, PlaceInv, StackInv
<1>5. /\ calls' \in Seq(Activation) /\ calls' # <<>> /\ Last(calls').what = w
      /\ Last(calls').count = 0 /\ \E b : Layout(b, stack', calls', "between")
  BY <1>1, <1>3, <1>4, CallBegins
<1>6. Sound(<<w, <<>>>>)
  BY SoundKinds
<1>7. /\ Sequence(stack')
      /\ \A k \in 1 .. Len(stack') : stack'[k][1] = "object" => Paired(stack'[k][2])
  BY <1>1, <1>6, SoundPush DEF RInv
<1>8. PlaceInv'
  BY <1>1, <1>2, <1>5 DEF RInv, PlaceInv, InObject, InArray, Places, White
<1>9. ~HasRoot'
  BY <1>1 DEF HasRoot
<1> QED
  BY <1>2, <1>5, <1>7, <1>8, <1>9 DEF RInv, StackInv

\* A member's name has been read.
LEMMA NameKeeps == ASSUME RInv, EndString, lex.key PROVE RInv'
<1> DEFINE v == <<"string", lex.chars>>
<1>1. at = "string" /\ stack' = Append(stack, v) /\ at' = "colon" /\ lex' = NoLex /\ calls' = calls
  BY DEF EndString, At
<1>2. Stand = "between" /\ ~HasRoot /\ InObject /\ Stand' = "inside"
  BY <1>1 DEF Stand, HasRoot, RInv, PlaceInv
<1>3. PICK base : Layout(base, stack, calls, "between")
  BY <1>1, <1>2 DEF RInv, StackInv
<1>4. calls \in Seq(Activation) /\ Sequence(stack) /\ v[1] = "string"
  BY DEF RInv, PlaceInv, StackInv
<1>5. Sound(v)
  BY SoundKinds
<1> HIDE DEF v
<1>6. \E b : Layout(b, stack', calls', "inside")
  BY <1>1, <1>2, <1>3, <1>4, NameRead DEF InObject
<1>7. /\ Sequence(stack')
      /\ \A k \in 1 .. Len(stack') : stack'[k][1] = "object" => Paired(stack'[k][2])
  BY <1>1, <1>5, SoundPush DEF RInv
<1>8. PlaceInv'
  BY <1>1, <1>2, NoLexOK DEF RInv, PlaceInv, NoLexFields, InObject, Places, White
<1>9. ~HasRoot'
  BY <1>1 DEF HasRoot
<1> QED
  BY <1>2, <1>6, <1>7, <1>8, <1>9 DEF RInv, StackInv

\* The events of values that are no objects and no arrays.
LEMMA ValueKeeps ==
  ASSUME RInv,
         \/ ParseLiteral /\ at' # "failed"
         \/ FirstDigit /\ at' = "next"
         \/ EndNumber /\ at' # "failed"
         \/ EndString /\ ~lex.key
  PROVE  RInv'
<1>1. \E v : /\ Event(v) /\ Sound(v)
             /\ at \in {"value", "sign", "digits"} \/ (at = "string" /\ ~lex.key)
  <2>1. CASE ParseLiteral /\ at' # "failed"
    BY <2>1, SoundKinds DEF ParseLiteral, At, Fails
  <2>2. CASE FirstDigit /\ at' = "next"
    <3>1. Event(Number(0)) /\ at = "sign"
      BY <2>2 DEF FirstDigit, At, Fails
    <3>2. Sound(Number(0))
      BY SoundKinds DEF Number
    <3> QED
      BY <3>1, <3>2
  <2>3. CASE EndNumber /\ at' # "failed"
    <3>1. Event(IntValue) /\ at = "digits"
      BY <2>3 DEF EndNumber, At, Fails
    <3>2. Sound(IntValue)
      BY SoundKinds DEF IntValue
    <3> QED
      BY <3>1, <3>2
  <2>4. CASE EndString /\ ~lex.key
    <3>1. Event(<<"string", lex.chars>>) /\ at = "string"
      BY <2>4 DEF EndString, At
    <3>2. Sound(<<"string", lex.chars>>)
      BY SoundKinds
    <3> QED
      BY <2>4, <3>1, <3>2
  <2> QED
    BY <2>1, <2>2, <2>3, <2>4
<1> QED
  BY <1>1, EventKeeps

LEMMA RootKeeps == ASSUME RInv, EndRoot, at' # "failed" PROVE RInv'
<1>1. /\ at = "next" /\ at' = "parsed" /\ calls = <<>> /\ UNCHANGED <<calls, lex, stack>>
  BY DEF EndRoot, At, Fails
<1>2. PlaceInv'
  BY <1>1 DEF RInv, PlaceInv, Places
<1>3. StackInv'
  BY <1>1 DEF RInv, StackInv, HasRoot
<1> QED
  BY <1>2, <1>3 DEF RInv

LEMMA ReadKeeps == RInv /\ Read => RInv'
<1> SUFFICES ASSUME RInv, Read PROVE RInv'
  OBVIOUS
<1>1. CASE EmptyObject \/ EmptyArray \/ EndObjectOrArray
  <2>1. calls # <<>> /\ at \in {"first", "element", "next"} /\ Closes(Last(calls).count)
    BY <1>1 DEF EmptyObject, EmptyArray, EndObjectOrArray, At, RInv, PlaceInv, InObject, InArray
  <2> QED
    BY <2>1, ClosesKeeps
<1>2. CASE at' = "failed" /\ ~Grow /\ ~Skip
  <2>1. \E error : Fails(error)
    BY <1>2 DEF Read, Parse, EndRoot, ParseLiteral, ParseObject, ParseArray, StringValue,
       ParseNumber, FirstDigit, NextDigit, EndNumber, ScanString, Escape, EndString,
       EmptyObject, EmptyArray, FirstElement, Key, Colon, AfterComma, EndObjectOrArray,
       MissComma, Event, Closes, At
  <2> QED
    BY <2>1, FailsKeeps
<1>3. CASE at' # "failed"
  <2>1. ~MissComma
    BY <1>3 DEF MissComma, Fails
  <2> QED
    BY <1>1, <1>3, <2>1, PlaceKeeps, LexKeeps, CallKeeps, NameKeeps, ValueKeeps, RootKeeps
    DEF Read
<1> QED
  BY <1>2, <1>3, PlaceKeeps

-----------------------------------------------------------------------------
(* The steps of JsonExchange are steps of the reader or begin a document.  *)

LEMMA StartKeeps == ASSUME NEW text, NEW a, Starts(text, a) PROVE RInv'
<1>1. at' = "root" /\ calls' = <<>> /\ lex' = NoLex /\ stack' = <<>>
  BY DEF Starts
<1>2. PlaceInv'
  BY <1>1, NoLexOK, EmptySeq DEF PlaceInv, NoLexFields, Places, White
<1>3. <<>> \in Seq({}) /\ Len(<<>>) = 0
  BY EmptySeq
<1> DEFINE b == [k \in 1 .. 1 |-> 1]
<1>4. Layout(b, <<>>, <<>>, "between")
  <2>1. /\ b \in [1 .. 0 + 1 -> Nat] /\ b[1] = 1 /\ b[0 + 1] = 0 + 1
        /\ \A i, k \in 1 .. 0 + 1 : ~(i < k)
        /\ ~ \E i \in 1 .. 0 : TRUE
    OBVIOUS
  <2> HIDE DEF b
  <2> QED
    BY <1>3, <2>1 DEF Layout
<1>5. Stand' = "between" /\ ~HasRoot'
  BY <1>1 DEF Stand, HasRoot
<1> HIDE DEF b
<1>6. StackInv'
  BY <1>1, <1>3, <1>4, <1>5 DEF StackInv, Sequence
<1> QED
  BY <1>2, <1>6 DEF RInv

LEMMA InitRInv == Init => RInv
<1> SUFFICES ASSUME Init PROVE RInv
  OBVIOUS
<1>1. at = "parsed" /\ calls = <<>> /\ lex = NoLex /\ stack = <<Null>>
  BY DEF Init, Idle
<1>2. PlaceInv
  BY <1>1, NoLexOK, EmptySeq DEF PlaceInv, NoLexFields, Places
<1>3. Sequence(stack) /\ Len(stack) = 1 /\ stack[1] = Null
  <2>1. \A n : <<n>> \in Seq({n}) /\ Len(<<n>>) = 1 /\ <<n>>[1] = n
    OBVIOUS
  <2> QED
    BY <1>1, <2>1 DEF Sequence
<1>4. Null[1] # "object"
  BY DEF Null
<1>5. \A k \in 1 .. Len(stack) : stack[k][1] = "object" => Paired(stack[k][2])
  <2>1. \A k \in 1 .. 1 : k = 1
    OBVIOUS
  <2> QED
    BY <1>3, <1>4, <2>1
<1>6. StackInv
  BY <1>1, <1>3, <1>5 DEF StackInv, HasRoot
<1> QED
  BY <1>2, <1>6 DEF RInv

\* A text of an alphabet begins with nothing known of it.
NewText(text, a) == Starts(text, a) /\ (a # 0 => text = <<>> /\ a \in 1 .. Len(Alphabets))

LEMMA ExchangeSteps ==
  [Next]_vars => \/ Read
                 \/ \E text, a : NewText(text, a)
                 \/ UNCHANGED reading
<1>1. ASSUME Request PROVE \E text, a : NewText(text, a)
  BY <1>1 DEF Request, NewText
<1>0. ASSUME NEW text, Starts(text, 0) PROVE \E w, a : NewText(w, a)
  BY <1>0 DEF NewText
<1>2. ASSUME SealedRequest PROVE \E text, a : NewText(text, a)
  <2>1. PICK p : Decrypts(p)
    BY <1>2 DEF SealedRequest
  <2>2. Starts(Append(p, NUL), 0)
    BY <2>1 DEF Decrypts
  <2> QED
    BY <1>0, <2>2
<1>3. ASSUME WriteAnswer PROVE \E text, a : NewText(text, a)
  <2>1. PICK text : Starts(text, 0)
    BY <1>3 DEF WriteAnswer
  <2> QED
    BY <1>0, <2>1
<1>4. ASSUME ClientSends PROVE \E text, a : NewText(text, a)
  <2>1. PICK p : Decrypts(p)
    BY <1>4 DEF ClientSends
  <2>2. Starts(Append(p, NUL), 0)
    BY <2>1 DEF Decrypts
  <2> QED
    BY <1>0, <2>2
<1>5. Dispatch => UNCHANGED reading
  BY DEF Dispatch
<1>6. UNCHANGED vars => UNCHANGED reading
  BY DEF vars
<1> QED
  BY <1>1, <1>2, <1>3, <1>4, <1>5, <1>6 DEF Next, Reads

LEMMA ReadingKept == RInv /\ UNCHANGED reading => RInv'
BY DEF reading, RInv, PlaceInv, StackInv, HasRoot, Stand, InObject, InArray

\* The reader's place and the stack of values always fit: for every text, whoever wrote it.
THEOREM ReaderInductive == Spec => []RInv
<1>1. RInv /\ [Next]_vars => RInv'
  BY ExchangeSteps, ReadKeeps, StartKeeps, ReadingKept DEF NewText
<1> QED
  BY <1>1, InitRInv, PTL DEF Spec

\* What EndObject and EndArray pop are the values counted for their object or array, which
\* lies below them, and there is one root in the end (document.h:2265, 2465-2476); the members
\* of the object that dispatch_command looks into are names and values in turn (1254-1263).
DocumentSound ==
  /\ at = "parsed" => Len(stack) = 1
  /\ calls # <<>> /\ at \in {"first", "element", "next"} =>
       /\ OnStack(Last(calls)) < Len(stack)
       /\ stack[Len(stack) - OnStack(Last(calls))] = <<Last(calls).what, <<>>>>
  /\ Doc[1] = "object" => Paired(Doc[2])

\* No event of the reader makes the document pop a value that is not its own.
THEOREM DocumentCorrect == Spec => []DocumentSound
<1>1. ASSUME RInv PROVE DocumentSound
  <2>1. at = "parsed" => Len(stack) = 1
    BY <1>1 DEF RInv, PlaceInv, StackInv, HasRoot
  <2>2. ASSUME calls # <<>>, at \in {"first", "element", "next"}
        PROVE  /\ OnStack(Last(calls)) < Len(stack)
               /\ stack[Len(stack) - OnStack(Last(calls))] = <<Last(calls).what, <<>>>>
    <3>1. /\ Stand = "between" /\ ~HasRoot /\ at # "failed"
          /\ calls \in Seq(Activation) /\ Sequence(stack)
      BY <1>1, <2>2 DEF Stand, HasRoot, RInv, PlaceInv, StackInv
    <3>2. PICK base : Layout(base, stack, calls, "between")
      BY <1>1, <3>1 DEF RInv, StackInv
    <3> DEFINE o == OnStack(Last(calls))
    <3>3. /\ Len(stack) - o \in 1 .. Len(stack)
          /\ stack[Len(stack) - o] = <<Last(calls).what, <<>>>>
      BY <2>2, <3>1, <3>2, CallEnds
    <3>4. o \in Nat /\ Len(stack) \in Nat
      <4>1. Last(calls) \in Activation
        BY <2>2, <3>1, <3>2, Innermost DEF Mode
      <4> QED
        BY <3>1, <4>1, AppendAny DEF OnStack, Activation
    <3> HIDE DEF o
    <3>5. o < Len(stack)
      BY <3>3, <3>4
    <3> QED
      BY <3>3, <3>5 DEF o
  <2>3. Doc[1] = "object" => Paired(Doc[2])
    <3>1. Null[1] # "object"
      BY DEF Null
    <3>2. at = "parsed" => 1 \in 1 .. Len(stack)
      BY <2>1
    <3> QED
      BY <1>1, <3>1, <3>2 DEF Doc, RInv, StackInv
  <2> QED
    BY <2>1, <2>2, <2>3 DEF DocumentSound
<1> QED
  BY <1>1, ReaderInductive, PTL

-----------------------------------------------------------------------------
(* Where the text ends, and what a number may grow to.                     *)

TextInv == /\ pos \in Nat \ {0}
           /\ \A k \in 1 .. pos - 1 : bytes[k] # NUL
           /\ open # 0 => Sequence(bytes) /\ pos <= Len(bytes) + 1

LEMMA TakesNoNul ==
  ASSUME RInv, Read
  PROVE  \/ Grow \/ (Take /\ Peek # NUL /\ pos <= Len(bytes)) \/ UNCHANGED <<bytes, open, pos>>
<1>1. NUL \notin Digits /\ NUL \notin Blanks
  BY TextAssumption DEF NUL, Blanks
<1>2. CASE Skip \/ Parse \/ EndRoot \/ ParseLiteral \/ ParseObject \/ ParseArray \/ StringValue
  BY <1>1, <1>2 DEF Skip, Parse, EndRoot, ParseLiteral, ParseObject, ParseArray, StringValue,
     At, Stay, Fails, NUL
<1>3. CASE ParseNumber \/ FirstDigit \/ NextDigit \/ EndNumber
  BY <1>1, <1>3 DEF ParseNumber, FirstDigit, NextDigit, EndNumber, At, Stay, Fails, NUL
<1>4. CASE ScanString \/ Escape \/ EndString \/ Key \/ Colon
  BY <1>4 DEF ScanString, Escape, EndString, Key, Colon, At, Stay, Fails, NUL, Unescaped
<1>5. CASE EmptyObject \/ EmptyArray \/ FirstElement \/ AfterComma \/ MissComma
  BY <1>5 DEF EmptyObject, EmptyArray, FirstElement, AfterComma, MissComma, At, Stay, Fails, NUL
<1>6. CASE EndObjectOrArray
  <2>1. Take /\ Peek = Closing[Last(calls).what] /\ calls # <<>> /\ pos <= Len(bytes)
    BY <1>6 DEF EndObjectOrArray, At
  <2>2. Last(calls).what \in {"object", "array"}
    <3>1. calls \in Seq(Activation)
      BY DEF RInv, PlaceInv
    <3>2. Len(calls) \in Nat \ {0}
      BY <2>1, <3>1, EmptySeq
    <3>3. Last(calls) \in Activation
      <4>1. Len(calls) \in 1 .. Len(calls)
        BY <3>2
      <4> QED
        BY <3>1, <4>1, ElementOfSeq DEF Last
    <3> QED
      BY <3>3 DEF Activation
  <2>3. Closing["object"] = "}" /\ Closing["array"] = "]"
    BY DEF Closing
  <2>4. Closing[Last(calls).what] # NUL
    BY <2>2, <2>3 DEF NUL
  <2> QED
    BY <2>1, <2>4
<1> QED
  BY <1>2, <1>3, <1>4, <1>5, <1>6 DEF Read

LEMMA TextStep == RInv /\ TextInv /\ [Next]_vars => TextInv'
<1> SUFFICES ASSUME RInv, TextInv, [Next]_vars PROVE TextInv'
  OBVIOUS
<1>1. CASE UNCHANGED <<bytes, open, pos>>
  BY <1>1 DEF TextInv
<1>2. CASE Take /\ Peek # NUL /\ pos <= Len(bytes)
  <2>1. pos' = pos + 1 /\ bytes' = bytes /\ open' = open /\ bytes[pos] # NUL /\ pos \in Nat \ {0}
    BY <1>2 DEF Take, Peek, TextInv
  <2>2. \A k \in 1 .. pos' - 1 : k \in 1 .. pos - 1 \/ k = pos
    BY <2>1
  <2>3. open # 0 => Sequence(bytes) /\ Len(bytes) \in Nat
    BY AppendAny DEF TextInv
  <2>4. open' # 0 => Sequence(bytes') /\ pos' <= Len(bytes') + 1
    BY <1>2, <2>1, <2>3
  <2> QED
    BY <2>1, <2>2, <2>4 DEF TextInv
<1>3. CASE Grow
  <2>1. PICK c : bytes' = Append(bytes, c) /\ open' = open /\ pos' = pos /\ open # 0
    BY <1>3 DEF Grow
  <2>2. /\ Sequence(bytes') /\ Len(bytes) \in Nat /\ Len(bytes') = Len(bytes) + 1
        /\ \A k \in 1 .. Len(bytes) : bytes'[k] = bytes[k]
    BY <2>1, AppendAny DEF TextInv
  <2>3. pos \in Nat /\ pos <= Len(bytes) + 1
    BY <2>1 DEF TextInv
  <2>4. \A k \in 1 .. pos - 1 : k \in 1 .. Len(bytes)
    BY <2>2, <2>3
  <2>5. pos' <= Len(bytes') + 1
    BY <2>1, <2>2, <2>3
  <2> QED
    BY <2>1, <2>2, <2>4, <2>5 DEF TextInv
<1>4. ASSUME NEW text, NEW a, Starts(text, a), a # 0 => text = <<>>
      PROVE  TextInv'
  <2>1. bytes' = text /\ open' = a /\ pos' = 1
    BY <1>4 DEF Starts
  <2>2. <<>> \in Seq({}) /\ Len(<<>>) = 0
    BY EmptySeq
  <2>3. open' # 0 => Sequence(bytes') /\ pos' <= Len(bytes') + 1
    BY <1>4, <2>1, <2>2 DEF Sequence
  <2> QED
    BY <2>1, <2>3 DEF TextInv
<1> QED
  BY <1>1, <1>2, <1>3, <1>4, ExchangeSteps, TakesNoNul DEF reading, NewText

\* The reader stops at the first NUL (reader.h looks at no length), so it reads no byte
\* behind the one that myNetRead (net_serv.cc:661), or a client, put after the text.
StaysInText == \A k \in 1 .. pos - 1 : bytes[k] # NUL

\* Every byte the reader has taken is before the first NUL.
THEOREM StaysInTextCorrect == Spec => []StaysInText
<1>1. Init => TextInv
  BY DEF Init, Idle, TextInv
<1>2. TextInv => StaysInText
  BY DEF TextInv, StaysInText
<1> QED
  BY <1>1, <1>2, TextStep, ReaderInductive, PTL DEF Spec

-----------------------------------------------------------------------------
NumberInv == /\ lex.i \in Nat /\ (~lex.big => lex.i <= Limit)
             /\ at # "digits" => lex.i = 0

LEMMA DigitValue == ASSUME Peek \in Digits PROVE Value(Peek) \in 0 .. BASE - 1
<1>1. \E d \in 0 .. BASE - 1 : Digit[d] = Peek
  BY DEF Digits
<1> QED
  BY <1>1 DEF Value

LEMMA FirstDigitFits == \A d \in 0 .. BASE - 1 : d <= Limit /\ d \in Nat
BY WidthEven, TextAssumption DEF Limit

LEMMA NoNumber == ASSUME lex' = NoLex PROVE NumberInv'
<1>1. lex'.i = 0
  BY DEF NoLex
<1>2. Limit' \in Nat
  BY WidthEven DEF Limit
<1> QED
  BY <1>1, <1>2 DEF NumberInv

LEMMA NumberStep == RInv /\ NumberInv /\ [Next]_vars => NumberInv'
<1> SUFFICES ASSUME RInv, NumberInv, [Next]_vars PROVE NumberInv'
  OBVIOUS
<1>0. PlaceInv /\ lex.i \in Nat /\ (~lex.big => lex.i <= Limit)
  BY DEF RInv, NumberInv
<1>1. CASE lex' = lex /\ (at' = at \/ at # "digits")
  BY <1>1 DEF NumberInv, Limit
<1>2. CASE lex' = NoLex
  BY <1>2, NoNumber
<1>3. ASSUME at # "digits", at' # "digits", NEW f \in {"key", "chars"}, NEW v, f = "key" => v \in BOOLEAN,
             lex' = [lex EXCEPT ![f] = v]
      PROVE  NumberInv'
  <2>1. lex'.i = lex.i /\ lex'.minus = lex.minus /\ lex'.big = lex.big
    BY <1>0, <1>3, LexExcept DEF Fields
  <2> QED
    BY <1>3, <2>1 DEF NumberInv, Limit
<1>4. ASSUME at # "digits", at' # "digits", lex' = [lex EXCEPT !["minus"] = TRUE]
      PROVE  NumberInv'
  <2>1. lex'.i = lex.i /\ lex.i = 0
    BY <1>0, <1>4, LexExcept DEF Fields, NumberInv
  <2>2. Limit' \in Nat
    BY WidthEven DEF Limit
  <2> QED
    BY <2>1, <2>2 DEF NumberInv
<1>5. ASSUME at' = "digits", NEW n \in Nat, lex' = [[lex EXCEPT !["i"] = n] EXCEPT !["big"] = TRUE]
      PROVE  NumberInv'
  <2>1. lex'.i = n /\ lex'.big = TRUE
    BY <1>0, <1>5, BigExcept DEF PlaceInv
  <2> QED
    BY <1>5, <2>1 DEF NumberInv
<1>6. ASSUME at' = "digits", NEW n \in Nat, ~lex.big => n <= Limit, lex' = [lex EXCEPT !["i"] = n]
      PROVE  NumberInv'
  <2>1. lex'.i = n /\ lex'.minus = lex.minus /\ lex'.big = lex.big
    BY <1>0, <1>6, LexExcept DEF Fields
  <2> QED
    BY <1>6, <2>1 DEF NumberInv, Limit
<1>7. CASE FirstDigit
  <2>1. CASE Peek \in Digits /\ Value(Peek) # 0
    <3>1. Value(Peek) \in Nat /\ Value(Peek) <= Limit
      BY <2>1, DigitValue, FirstDigitFits
    <3>2. at' = "digits" /\ lex' = [lex EXCEPT !["i"] = Value(Peek)]
      BY <1>7, <2>1 DEF FirstDigit
    <3> QED
      BY <1>6, <3>1, <3>2
  <2> QED
    BY <1>2, <1>7, <2>1 DEF FirstDigit, Fails, Event
<1>8. CASE NextDigit
  <2> DEFINE d == Value(Peek)
             n == lex.i * BASE + d
  <2>1. d \in 0 .. BASE - 1 /\ at' = at /\ at = "digits"
    BY <1>8, DigitValue DEF NextDigit, At
  <2>2. CASE lex.big \/ TooBig(d)
    <3>1. lex' = [[lex EXCEPT !["i"] = n] EXCEPT !["big"] = TRUE]
      BY <1>8, <2>2 DEF NextDigit
    <3>2. n \in Nat
      BY <1>0, <2>1, WidthEven
    <3> QED
      BY <1>5, <2>1, <3>1, <3>2
  <2>3. CASE ~(lex.big \/ TooBig(d))
    <3>1. lex' = [lex EXCEPT !["i"] = n]
      BY <1>8, <2>3 DEF NextDigit
    <3>2. ~(n > Limit)
      BY <1>0, <2>1, <2>3, DigitLimit
    <3>3. n \in Nat /\ n <= Limit
      <4>1. n \in Nat /\ Limit \in Nat
        BY <1>0, <2>1, WidthEven, LimitRange
      <4> QED
        BY <3>2, <4>1
    <3> QED
      BY <1>6, <2>1, <3>1, <3>3
  <2> QED
    BY <2>2, <2>3
<1>9. CASE ParseNumber \/ ScanString \/ Escape \/ Key
  <2>1. CASE ParseNumber
    <3>1. at # "digits" /\ at' # "digits" /\ (lex' = lex \/ lex' = [lex EXCEPT !["minus"] = TRUE])
      BY <2>1 DEF ParseNumber, At
    <3> QED
      BY <1>1, <1>4, <3>1
  <2>2. CASE ScanString \/ Escape
    <3>1. /\ at # "digits" /\ at' # "digits"
          /\ lex' = lex \/ lex' = NoLex \/ \E x : lex' = [lex EXCEPT !["chars"] = x]
      BY <2>2 DEF ScanString, Escape, At, Fails
    <3> QED
      BY <1>1, <1>2, <1>3, <3>1
  <2>3. CASE Key
    BY <1>2, <1>3, <2>3 DEF Key, At, Fails
  <2> QED
    BY <1>9, <2>1, <2>2, <2>3
<1>10. CASE \/ Grow \/ Skip \/ Parse \/ EndRoot \/ ParseLiteral \/ ParseObject \/ ParseArray
            \/ StringValue \/ FirstElement \/ Colon \/ AfterComma \/ MissComma
  <2>1. lex' = NoLex \/ lex' = lex
    BY <1>10 DEF Grow, Skip, Parse, EndRoot, ParseLiteral, ParseObject, ParseArray, StringValue,
       FirstElement, Colon, AfterComma, MissComma, Fails, Event
  <2>2. at' = at \/ at # "digits"
    BY <1>10 DEF Grow, Skip, Parse, EndRoot, ParseLiteral, ParseObject, ParseArray, StringValue,
       FirstElement, Colon, AfterComma, MissComma, Fails, Event, At
  <2> QED
    BY <1>1, <1>2, <2>1, <2>2
<1>11. CASE EmptyObject \/ EmptyArray \/ EndObjectOrArray
  <2>1. lex' = lex /\ at # "digits"
    BY <1>11 DEF EmptyObject, EmptyArray, EndObjectOrArray, Closes, At
  <2> QED
    BY <1>1, <2>1
<1>12. CASE EndNumber \/ EndString
  BY <1>2, <1>12 DEF EndNumber, EndString, Event, Fails
<1>13. ASSUME NEW text, NEW a, Starts(text, a) PROVE NumberInv'
  BY <1>2, <1>13 DEF Starts
<1>14. CASE UNCHANGED reading
  <2>1. lex' = lex /\ at' = at
    BY <1>14 DEF reading
  <2> QED
    BY <1>1, <2>1
<1> QED
  BY <1>7, <1>8, <1>9, <1>10, <1>11, <1>12, <1>13, <1>14, ExchangeSteps DEF Read, NewText

\* The number being read, an unsigned in the code, never wraps (reader.h:1478-1503), and the
\* value it ends as is the int it stands for, the smallest int and numbers that are none
\* included (1716-1732).
NumberFits == /\ ~lex.big => lex.i \in 0 .. Limit
              /\ at = "digits" /\ ~lex.big =>
                   IntValue = Number(IF lex.minus THEN -lex.i ELSE lex.i)

LEMMA IntEdges == NumberInv => NumberFits
<1> SUFFICES ASSUME NumberInv PROVE NumberFits
  OBVIOUS
<1> DEFINE i == lex.i
<1>1. i \in Nat /\ Limit \in Nat /\ (~lex.big => i <= Limit)
  BY LimitRange DEF NumberInv
<1>2. ASSUME lex.minus, ~lex.big PROVE IntValue = Number(-i)
  <2>1. i <= Half
    BY <1>1, <1>2 DEF Limit
  <2>2. Number(-i) = <<"int", <<-i>>>>
    BY <1>1, <2>1, WidthEven DEF Number
  <2>3. IntValue = <<"int", <<Signed((Width - i) % Width)>>>>
    BY <1>2 DEF IntValue
  <2>4. Signed((Width - i) % Width) = -i
    <3>1. CASE i = 0
      BY <3>1, WidthEven DEF Signed
    <3>2. CASE i > 0
      <4>1. (Width - i) % Width = Width - i
        BY <1>1, <2>1, <3>2, WidthEven
      <4> QED
        BY <1>1, <2>1, <3>2, <4>1, WidthEven DEF Signed
    <3> QED
      BY <1>1, <3>1, <3>2
  <2> QED
    BY <2>2, <2>3, <2>4
<1>3. ASSUME ~lex.minus, ~lex.big PROVE IntValue = Number(i)
  BY <1>1, <1>3, WidthEven DEF IntValue, Number
<1> QED
  BY <1>1, <1>2, <1>3 DEF NumberFits

\* While a number is read it stays in 32 bits, and it ends as the value it stands for.
THEOREM NumberCorrect == Spec => []NumberFits
<1>1. Init => NumberInv
  <2> SUFFICES ASSUME Init PROVE NumberInv
    OBVIOUS
  <2>1. lex.i = 0 /\ Limit \in Nat
    BY LimitRange DEF Init, Idle, NoLex
  <2> QED
    BY <2>1 DEF NumberInv
<1> QED
  BY <1>1, IntEdges, NumberStep, ReaderInductive, PTL DEF Spec

-----------------------------------------------------------------------------
\* Someone padded a text into the packet.
Sealed == \E n \in 1 .. Len(packet) : PaddingDataPKCS7(SubSeq(packet, 1, n)) = packet

Told == packet \in Seq(Bytes \cup {NUL}) => (command = "start" <=> Sealed)

SealInv == /\ stage \in {"idle", "client"} => packet = <<>> /\ command = "start"
           /\ ~(packet = <<>> /\ command = "start") => Told

LEMMA SealedText ==
  ASSUME NEW Byte, NEW p \in Seq(Byte)
  PROVE  (\E n \in 1 .. Len(p) : PaddingDataPKCS7(SubSeq(p, 1, n)) = p)
           <=> \E text \in Seq(Byte) : text # <<>> /\ PaddingDataPKCS7(text) = p
<1>1. Len(p) \in Nat
  OBVIOUS
<1>2. ASSUME NEW n \in 1 .. Len(p), PaddingDataPKCS7(SubSeq(p, 1, n)) = p
      PROVE  \E text \in Seq(Byte) : text # <<>> /\ PaddingDataPKCS7(text) = p
  <2>1. SubSeq(p, 1, n) \in Seq(Byte) /\ Len(SubSeq(p, 1, n)) = n
    BY <1>1, SubSeqProperties
  <2>2. SubSeq(p, 1, n) # <<>>
    BY <2>1, EmptySeq
  <2> QED
    BY <1>2, <2>1, <2>2
<1>3. ASSUME NEW text \in Seq(Byte), text # <<>>, PaddingDataPKCS7(text) = p
      PROVE  \E n \in 1 .. Len(p) : PaddingDataPKCS7(SubSeq(p, 1, n)) = p
  <2> DEFINE n == Len(text)
             s == SubSeq(p, 1, n)
  <2>1. n \in Nat \ {0}
    BY <1>3, EmptySeq
  <2>2. /\ Remain(n) \in 1 .. BLOCK /\ Len(p) = n + Remain(n)
        /\ \A k \in 1 .. n : p[k] = text[k]
    BY <1>3, PaddedShape
  <2>3. n \in 1 .. Len(p)
    BY <2>1, <2>2, PayloadAssumption
  <2>4. s \in Seq(Byte) /\ Len(s) = n /\ \A k \in 1 .. n : s[k] = p[k]
    BY <1>1, <2>3, SubSeqProperties
  <2>5. s = text
    BY <2>2, <2>4, SeqEqual
  <2> QED
    BY <1>3, <2>3, <2>5
<1> QED
  BY <1>2, <1>3

LEMMA DecryptsTold == ASSUME NEW p, Decrypts(p) PROVE SealInv'
<1>1. /\ packet' = p /\ stage' = "server"
      /\ command' = IF DecryptData(p) = 0 \/ Len(p) = DecryptData(p) THEN "quit" ELSE "start"
  BY DEF Decrypts
<1>2. ASSUME p \in Seq(Bytes \cup {NUL}) PROVE command' = "start" <=> Sealed'
  <2>1. command' = "start" <=> DecryptData(p) \notin {0, Len(p)}
    BY <1>1
  <2>2. Sealed' <=> \E n \in 1 .. Len(p) : PaddingDataPKCS7(SubSeq(p, 1, n)) = p
    BY <1>1 DEF Sealed
  <2> QED
    BY <1>2, <2>1, <2>2, RefusesUnpadded, SealedText
<1> QED
  BY <1>1, <1>2 DEF SealInv, Told

LEMMA SealStep == SealInv /\ [Next]_vars => SealInv'
<1> SUFFICES ASSUME SealInv, [Next]_vars PROVE SealInv'
  OBVIOUS
<1>1. CASE UNCHANGED <<packet, command>> /\ (stage' \in {"idle", "client"} => stage \in {"idle", "client"})
  BY <1>1 DEF SealInv, Told, Sealed
<1>2. CASE SealedRequest \/ ClientSends
  BY <1>2, DecryptsTold DEF SealedRequest, ClientSends
<1>3. CASE Request \/ WriteAnswer \/ Dispatch \/ Reads \/ UNCHANGED vars
  BY <1>1, <1>3 DEF Request, WriteAnswer, Dispatch, Reads, vars
<1> QED
  BY <1>2, <1>3 DEF Next

-----------------------------------------------------------------------------
\* Which steps there are at a place.
LEMMA PlaceSteps ==
  ASSUME Read, open = 0
  PROVE  /\ at = "root"   => Skip \/ Parse
         /\ at = "value"  => Skip \/ ParseLiteral \/ ParseObject \/ ParseArray \/ StringValue \/ ParseNumber
         /\ at = "first"  => Skip \/ EmptyObject \/ Key
         /\ at = "member" => Skip \/ Key
         /\ at = "colon"  => Skip \/ Colon
         /\ at = "next"   => Skip \/ AfterComma \/ EndObjectOrArray \/ MissComma \/ EndRoot
         /\ at = "string" => ScanString \/ EndString
         /\ at = "escape" => Escape
         /\ at = "sign"   => FirstDigit
         /\ at = "digits" => NextDigit \/ EndNumber
         /\ at \notin {"parsed", "failed"}
<1>1. ~Grow
  BY DEF Grow
<1>2. Skip => at \in White
  BY DEF Skip, At
<1>3. Parse => at = "root"
  BY DEF Parse, At
<1>4. EndRoot \/ AfterComma \/ EndObjectOrArray \/ MissComma => at = "next"
  BY DEF EndRoot, AfterComma, EndObjectOrArray, MissComma, At
<1>5. ParseLiteral \/ ParseObject \/ ParseArray \/ StringValue \/ ParseNumber => at = "value"
  BY DEF ParseLiteral, ParseObject, ParseArray, StringValue, ParseNumber, At
<1>6. FirstDigit => at = "sign"
  BY DEF FirstDigit, At
<1>7. NextDigit \/ EndNumber => at = "digits"
  BY DEF NextDigit, EndNumber, At
<1>8. ScanString \/ EndString => at = "string"
  BY DEF ScanString, EndString, At
<1>9. Escape => at = "escape"
  BY DEF Escape, At
<1>10. EmptyObject => at = "first"
  BY DEF EmptyObject, At
<1>11. EmptyArray \/ FirstElement => at = "element"
  BY DEF EmptyArray, FirstElement, At
<1>12. Key => at \in {"first", "member"}
  BY DEF Key, At
<1>13. Colon => at = "colon"
  BY DEF Colon, At
<1>14. Read => \/ Skip \/ Parse \/ EndRoot
               \/ ParseLiteral \/ ParseObject \/ ParseArray \/ StringValue \/ ParseNumber
               \/ FirstDigit \/ NextDigit \/ EndNumber
               \/ ScanString \/ Escape \/ EndString
               \/ EmptyObject \/ EmptyArray \/ FirstElement \/ Key \/ Colon
               \/ AfterComma \/ EndObjectOrArray \/ MissComma
  BY <1>1 DEF Read
<1> QED
  BY <1>2, <1>3, <1>4, <1>5, <1>6, <1>7, <1>8, <1>9, <1>10, <1>11, <1>12, <1>13, <1>14 DEF White

-----------------------------------------------------------------------------
(* The reader in an object that the writer wrote.                          *)

\* The object and its first n values are on the stack.
Pushed(vals, n) ==
  /\ Sequence(stack) /\ Len(stack) = n + 1 /\ stack[1] = <<"object", <<>>>>
  /\ \A i \in 1 .. n : stack[i + 1] = vals[i]
  /\ calls = <<[what |-> "object", count |-> n \div 2]>>

No == FALSE
IsName(n) == n % 2 = 0
Minus(i) == i < 0
Lex(key, chars, minus, i) == [key |-> key, chars |-> chars, minus |-> minus, i |-> i, big |-> FALSE]

Between(vals, s, n) ==
  /\ lex = NoLex
  /\ \/ at = "first" /\ n = 0 /\ pos = s[1]
     \/ at = "next" /\ n % 2 = 0 /\ n > 0 /\ pos = s[n + 1] - 1
     \/ at = "member" /\ n % 2 = 0 /\ n < Len(vals) /\ n > 0 /\ pos = s[n + 1]
     \/ at = "colon" /\ n % 2 = 1 /\ pos = s[n + 1] - 1
     \/ at = "value" /\ n % 2 = 1 /\ pos = s[n + 1]

InString(vals, x, s, n) ==
  /\ n < Len(vals) /\ vals[n + 1][1] = "string"
  /\ \E o : \E k \in 0 .. Len(vals[n + 1][2]) :
       /\ Spelled(x[n + 1], vals[n + 1][2], o)
       /\ lex = Lex(IsName(n), SubSeq(vals[n + 1][2], 1, k), No, 0)
       /\ \/ at = "string" /\ pos = s[n + 1] + o[k] - 1
          \/ /\ at = "escape" /\ pos = s[n + 1] + o[k]
             /\ k < Len(vals[n + 1][2]) /\ vals[n + 1][2][k + 1] \in DOMAIN Escaped

InNumber(vals, x, s, n) ==
  /\ n < Len(vals) /\ n % 2 = 1 /\ vals[n + 1][1] = "int"
  /\ LET i == vals[n + 1][2][1]
     IN  \/ at = "sign" /\ lex = Lex(No, <<>>, Minus(i), 0) /\ pos = s[n + 1] + Sign(i)
         \/ /\ at = "digits"
            /\ \E m, D : \E j \in 1 .. m : /\ Counts(x[n + 1], i, m, D) /\ D[1] # 0
                                           /\ lex = Lex(No, <<>>, Minus(i), D[j])
                                           /\ pos = s[n + 1] + Sign(i) + j

Begins == /\ at \in {"root", "value"} /\ pos = 1
          /\ calls = <<>> /\ stack = <<>> /\ lex = NoLex

Ends(vals, s) == /\ at \in {"next", "parsed"} /\ pos = s[Len(vals) + 1]
                 /\ calls = <<>> /\ stack = <<<<"object", vals>>>> /\ lex = NoLex

Follows(vals, x, s) ==
  /\ open = 0 /\ Whole(bytes, vals, x, s)
  /\ \/ Begins
     \/ \E n \in 0 .. Len(vals) : /\ Pushed(vals, n)
                                  /\ Between(vals, s, n) \/ InString(vals, x, s, n) \/ InNumber(vals, x, s, n)
     \/ Ends(vals, s)

LEMMA BlankOK == /\ Blanks = {"lf"} /\ NUL # "lf" /\ "lf" \notin Char
                 /\ \A d \in Digits : d \notin Marks /\ d # "lf" /\ d # NUL
<1>1. Digits \cap (Marks \cup {"lf", NUL}) = {}
  BY TextAssumption
<1>2. "lf" \notin Marks
  BY DEF Marks
<1> QED
  BY <1>1, <1>2 DEF Blanks, NUL, Char

\* Where the values are.
LEMMA WholeFacts ==
  ASSUME NEW b, NEW vals, NEW x, NEW s, Whole(b, vals, x, s)
  PROVE  LET m == Len(vals)
         IN  /\ m \in Nat /\ m > 0 /\ m % 2 = 0 /\ Sequence(vals)
             /\ s \in [1 .. m + 1 -> Nat] /\ s[1] = 2
             /\ \A n \in 0 .. m - 1 :
                  /\ x[n + 1] \in Seq(Char) /\ Lexeme(x[n + 1], vals[n + 1]) /\ Len(x[n + 1]) \in Nat
                  /\ s[n + 1] \in Nat /\ s[n + 2] = s[n + 1] + Len(x[n + 1]) + 1
                  /\ \A k \in 1 .. Len(x[n + 1]) : b[s[n + 1] + k - 1] = x[n + 1][k]
                  /\ n > 0 => b[s[n + 1] - 1] = Mark(n + 1)
                  /\ n % 2 = 0 => vals[n + 1][1] = "string"
<1> DEFINE m == Len(vals)
<1>1. /\ Framed(b, vals, x, s) /\ m > 0 /\ m % 2 = 0
      /\ \A i \in 1 .. m : i % 2 = 1 => vals[i][1] = "string"
  BY DEF Whole
<1>2. m \in Nat
  BY <1>1, FrameOrder
<1>3. /\ Sequence(vals) /\ s \in [1 .. m + 1 -> Nat] /\ s[1] = 2
      /\ \A i \in 1 .. m :
           /\ x[i] \in Seq(Char) /\ Lexeme(x[i], vals[i]) /\ s[i + 1] = s[i] + Len(x[i]) + 1
           /\ \A k \in 1 .. Len(x[i]) : b[s[i] + k - 1] = x[i][k]
           /\ i > 1 => b[s[i] - 1] = Mark(i)
  BY <1>1 DEF Framed
<1> HIDE DEF m
<1>4. ASSUME NEW n \in 0 .. m - 1
      PROVE  /\ x[n + 1] \in Seq(Char) /\ Lexeme(x[n + 1], vals[n + 1]) /\ Len(x[n + 1]) \in Nat
             /\ s[n + 1] \in Nat /\ s[n + 2] = s[n + 1] + Len(x[n + 1]) + 1
             /\ \A k \in 1 .. Len(x[n + 1]) : b[s[n + 1] + k - 1] = x[n + 1][k]
             /\ n > 0 => b[s[n + 1] - 1] = Mark(n + 1)
             /\ n % 2 = 0 => vals[n + 1][1] = "string"
  <2>1. n + 1 \in 1 .. m /\ n + 1 \in 1 .. m + 1 /\ (n + 1) + 1 = n + 2 /\ (n > 0 => n + 1 > 1) /\ n \in Nat
    BY <1>2
  <2>2. n % 2 = 0 => (n + 1) % 2 = 1
    BY <2>1
  <2>3. x[n + 1] \in Seq(Char)
    BY <1>3, <2>1
  <2>4. Len(x[n + 1]) \in Nat
    BY <2>3, LenProperties
  <2>5. s[n + 1] \in Nat
    BY <1>3, <2>1
  <2>6. /\ Lexeme(x[n + 1], vals[n + 1]) /\ s[(n + 1) + 1] = s[n + 1] + Len(x[n + 1]) + 1
        /\ \A k \in 1 .. Len(x[n + 1]) : b[s[n + 1] + k - 1] = x[n + 1][k]
        /\ n + 1 > 1 => b[s[n + 1] - 1] = Mark(n + 1)
    BY <1>3, <2>1
  <2>7. (n + 1) % 2 = 1 => vals[n + 1][1] = "string"
    BY <1>1, <2>1
  <2> QED
    BY <2>1, <2>2, <2>3, <2>4, <2>5, <2>6, <2>7
<1> QED
  BY <1>1, <1>2, <1>3, <1>4 DEF m

LEMMA NoLexIs == NoLex = Lex(No, <<>>, No, 0)
BY DEF Lex, NoLex, No

LEMMA LexForms ==
  ASSUME NEW k, NEW c, NEW m, NEW i, NEW y
  PROVE  LET l == Lex(k, c, m, i)
         IN  /\ [l EXCEPT !.key = y] = Lex(y, c, m, i)
             /\ [l EXCEPT !.chars = y] = Lex(k, y, m, i)
             /\ [l EXCEPT !.minus = y] = Lex(k, c, y, i)
             /\ [l EXCEPT !.i = y] = Lex(k, c, m, y)
             /\ l.key = k /\ l.chars = c /\ l.minus = m /\ l.i = i /\ l.big = FALSE
<1> DEFINE b == FALSE
<1>1. \A k1, c1, m1, i1 : Lex(k1, c1, m1, i1) = [key |-> k1, chars |-> c1, minus |-> m1, i |-> i1, big |-> b]
  BY DEF Lex
<1>2. Lex(k, c, m, i).big = b => Lex(k, c, m, i).big = FALSE
  OBVIOUS
<1> HIDE DEF b
<1>3. LET l == [key |-> k, chars |-> c, minus |-> m, i |-> i, big |-> b]
      IN  /\ [l EXCEPT !.key = y] = [key |-> y, chars |-> c, minus |-> m, i |-> i, big |-> b]
          /\ [l EXCEPT !.chars = y] = [key |-> k, chars |-> y, minus |-> m, i |-> i, big |-> b]
          /\ [l EXCEPT !.minus = y] = [key |-> k, chars |-> c, minus |-> y, i |-> i, big |-> b]
          /\ [l EXCEPT !.i = y] = [key |-> k, chars |-> c, minus |-> m, i |-> y, big |-> b]
          /\ l.key = k /\ l.chars = c /\ l.minus = m /\ l.i = i /\ l.big = b
  OBVIOUS
<1> QED
  BY <1>1, <1>2, <1>3

\* Moves within the text leave it alone.
LEMMA TextStays ==
  ASSUME NEW vals, NEW x, NEW s, open = 0, Whole(bytes, vals, x, s), Take \/ Stay
  PROVE  open' = 0 /\ Whole(bytes, vals, x, s)'
<1>1. bytes' = bytes /\ open' = open
  BY DEF Take, Stay
<1> QED
  BY <1>1

LEMMA BeginsStep ==
  ASSUME NEW vals, NEW x, NEW s, Follows(vals, x, s), Begins, Read
  PROVE  Follows(vals, x, s)'
<1>1. open = 0 /\ Whole(bytes, vals, x, s) /\ pos = 1 /\ calls = <<>> /\ stack = <<>> /\ lex = NoLex
  BY DEF Follows, Begins
<1>2. Peek = "{"
  <2>1. Framed(bytes, vals, x, s)
    BY <1>1 DEF Whole
  <2>2. bytes[1] = "{"
    BY <2>1 DEF Framed
  <2> QED
    BY <1>1, <2>2, Zenon DEF Peek
<1>3. Peek \notin Blanks /\ Peek # NUL
  <2>1. "{" # "lf" /\ "{" # "nul"
    OBVIOUS
  <2> QED
    BY <1>2, <2>1 DEF Blanks, NUL
<1>4. ~Skip
  BY <1>3 DEF Skip
<1>5. CASE at = "root"
  <2>1. Parse
    BY <1>1, <1>4, <1>5, PlaceSteps
  <2>2. Stay /\ at' = "value" /\ UNCHANGED <<calls, lex, stack>>
    BY <1>3, <2>1 DEF Parse
  <2>3. Begins'
    BY <1>1, <2>2 DEF Stay, Begins
  <2> QED
    BY <1>1, <2>2, <2>3, TextStays DEF Follows
<1>6. CASE at = "value"
  <2>1. ParseLiteral \/ ParseObject \/ ParseArray \/ StringValue \/ ParseNumber
    BY <1>1, <1>4, <1>6, PlaceSteps
  <2>2. "{" \notin {"t", "n"} /\ "{" # "[" /\ "{" # "quote" /\ "{" \in Blanks \cup {"t", "n", "{", "[", "quote"}
    OBVIOUS
  <2>3. ParseObject
    BY <1>2, <2>1, <2>2, Zenon DEF ParseLiteral, ParseArray, StringValue, ParseNumber
  <2>4. /\ Take /\ at' = "first" /\ stack' = Append(stack, <<"object", <<>>>>)
        /\ calls' = Append(calls, [what |-> "object", count |-> 0]) /\ lex' = lex
    BY <2>3 DEF ParseObject
  <2>5. pos' = s[1]
    BY <1>1, <2>4, WholeFacts DEF Take
  <2>6. Pushed(vals, 0)'
    <3>1. stack' = <<<<"object", <<>>>>>> /\ calls' = <<[what |-> "object", count |-> 0]>>
      BY <1>1, <2>4, AppendNone
    <3>2. 0 \div 2 = 0 /\ \A i \in 1 .. 0 : FALSE
      OBVIOUS
    <3>3. Sequence(stack') /\ Len(stack') = 1 /\ stack'[1] = <<"object", <<>>>>
      BY <3>1, Single
    <3> QED
      BY <3>1, <3>2, <3>3 DEF Pushed
  <2>7. Between(vals, s, 0)'
    BY <1>1, <2>4, <2>5 DEF Between
  <2>8. 0 \in 0 .. Len(vals)
    BY <1>1, WholeFacts
  <2> QED
    BY <1>1, <2>4, <2>6, <2>7, <2>8, TextStays DEF Follows
<1> QED
  BY <1>5, <1>6 DEF Begins

\* A name or value goes on the stack.
LEMMA PushedMore ==
  ASSUME NEW vals, NEW n \in 0 .. Len(vals), Len(vals) \in Nat, n < Len(vals), Pushed(vals, n),
         stack' = Append(stack, vals[n + 1]),
         IF n % 2 = 0 THEN calls' = calls ELSE calls' = Counted(calls)
  PROVE  n + 1 \in 0 .. Len(vals) /\ Pushed(vals, n + 1)'
<1>0. n \in Nat /\ n + 1 \in 0 .. Len(vals)
  OBVIOUS
<1>1. /\ Sequence(stack) /\ Len(stack) = n + 1 /\ stack[1] = <<"object", <<>>>>
      /\ \A i \in 1 .. n : stack[i + 1] = vals[i]
      /\ calls = <<[what |-> "object", count |-> n \div 2]>>
  BY DEF Pushed
<1>2. /\ Sequence(stack') /\ Len(stack') = (n + 1) + 1 /\ stack'[(n + 1) + 1] = vals[n + 1]
      /\ \A i \in 1 .. n + 1 : stack'[i] = stack[i]
  BY <1>1, AppendAny
<1>3. stack'[1] = <<"object", <<>>>>
  BY <1>0, <1>1, <1>2
<1>4. ASSUME NEW i \in 1 .. n + 1 PROVE stack'[i + 1] = vals[i]
  <2>1. CASE i = n + 1
    BY <1>2, <2>1
  <2>2. CASE i # n + 1
    <3>1. i \in 1 .. n /\ i + 1 \in 1 .. n + 1
      BY <1>0, <2>2
    <3> QED
      BY <1>1, <1>2, <3>1
  <2> QED
    BY <2>1, <2>2
<1>5. calls' = <<[what |-> "object", count |-> (n + 1) \div 2]>>
  <2>1. CASE n % 2 = 0
    <3>1. (n + 1) \div 2 = n \div 2
      BY <1>0, <2>1
    <3> QED
      BY <1>1, <2>1, <3>1
  <2>2. CASE n % 2 # 0
    <3>1. (n + 1) \div 2 = (n \div 2) + 1
      BY <1>0, <2>2
    <3> DEFINE c == n \div 2
    <3>2. calls = <<[what |-> "object", count |-> c]>>
      BY <1>1
    <3> HIDE DEF c
    <3>3. Counted(calls) = <<[what |-> "object", count |-> c + 1]>>
      <4>1. calls # <<>> /\ Len(calls) = 1
        BY <3>2
      <4>2. Counted(calls) = [calls EXCEPT ![1].count = @ + 1]
        BY <4>1 DEF Counted
      <4> QED
        BY <3>2, <4>2
    <3> QED
      BY <2>2, <3>1, <3>3 DEF c
  <2> QED
    BY <2>1, <2>2
<1> QED
  BY <1>0, <1>2, <1>3, <1>4, <1>5 DEF Pushed

\* Where the bytes of a string are.
LEMMA SpelledFacts ==
  ASSUME NEW x, NEW chars, NEW o, Spelled(x, chars, o), NEW k \in 0 .. Len(chars)
  PROVE  /\ Len(chars) \in Nat /\ Len(x) \in Nat /\ o[k] \in Nat /\ o[k] >= 2 /\ o[k] <= Len(x)
         /\ k < Len(chars) =>
              /\ chars[k + 1] \in Char \cup Blanks
              /\ IF chars[k + 1] \in DOMAIN Escaped
                 THEN /\ o[k + 1] = o[k] + 2 /\ x[o[k]] = "\\" /\ x[o[k] + 1] = Escaped[chars[k + 1]][2]
                      /\ o[k] + 1 <= Len(x)
                 ELSE o[k + 1] = o[k] + 1 /\ x[o[k]] = chars[k + 1]
<1> DEFINE N == Len(chars)
<1>1. /\ chars \in Seq(Char \cup Blanks) /\ x \in Seq(Char) /\ N \in Nat /\ Len(x) \in Nat
      /\ o \in [0 .. N -> Nat] /\ o[0] = 2 /\ o[N] = Len(x)
  BY DEF Spelled
<1>2. \A j \in 1 .. N :
       IF chars[j] \in DOMAIN Escaped
       THEN o[j] = o[j - 1] + 2 /\ x[o[j - 1]] = "\\" /\ x[o[j - 1] + 1] = Escaped[chars[j]][2]
       ELSE o[j] = o[j - 1] + 1 /\ x[o[j - 1]] = chars[j]
  BY DEF Spelled
<1> HIDE DEF N
<1>3. \A j \in 1 .. N : o[j] \in Nat /\ o[j - 1] \in Nat /\ (o[j] = o[j - 1] + 2 \/ o[j] = o[j - 1] + 1)
  <2> SUFFICES ASSUME NEW j \in 1 .. N
               PROVE  o[j] \in Nat /\ o[j - 1] \in Nat /\ (o[j] = o[j - 1] + 2 \/ o[j] = o[j - 1] + 1)
    OBVIOUS
  <2>1. j \in 0 .. N /\ j - 1 \in 0 .. N
    BY <1>1
  <2> QED
    BY <1>1, <1>2, <2>1
<1>4. \A j \in 0 .. N : o[j] >= 2
  <2> DEFINE P == {j \in Nat : j <= N => o[j] >= 2}
  <2>1. 0 \in P
    BY <1>1
  <2>2. ASSUME NEW j \in Nat, j \in P PROVE j + 1 \in P
    <3>1. ASSUME j + 1 <= N PROVE o[j + 1] >= 2
      <4>1. j + 1 \in 1 .. N /\ (j + 1) - 1 = j /\ j <= N
        BY <1>1, <3>1
      <4>2. o[j + 1] \in Nat /\ o[j] \in Nat /\ (o[j + 1] = o[j] + 2 \/ o[j + 1] = o[j] + 1)
        BY <1>3, <4>1
      <4> QED
        BY <2>2, <4>1, <4>2
    <3> QED
      BY <3>1
  <2>3. Nat \subseteq P
    <3> HIDE DEF P
    <3> QED
      BY <2>1, <2>2, Induction
  <2> QED
    BY <1>1, <2>3
<1>5. \A j \in 0 .. N : o[j] <= o[N]
  <2> DEFINE P == {d \in Nat : d <= N => o[N - d] <= o[N]}
  <2>1. 0 \in P
    BY <1>1
  <2>2. ASSUME NEW d \in Nat, d \in P PROVE d + 1 \in P
    <3>1. ASSUME d + 1 <= N PROVE o[N - (d + 1)] <= o[N]
      <4> DEFINE j == N - d
      <4>1. j \in 1 .. N /\ j - 1 = N - (d + 1) /\ d <= N
        BY <1>1, <3>1
      <4>2. o[j] <= o[N]
        BY <2>2, <4>1
      <4> HIDE DEF j
      <4>3. o[j] \in Nat /\ o[j - 1] \in Nat /\ (o[j] = o[j - 1] + 2 \/ o[j] = o[j - 1] + 1)
        BY <1>3, <4>1
      <4>4. o[j - 1] <= o[N]
        BY <1>1, <4>2, <4>3
      <4> QED
        BY <4>1, <4>4
    <3> QED
      BY <3>1
  <2>3. Nat \subseteq P
    <3> HIDE DEF P
    <3> QED
      BY <2>1, <2>2, Induction
  <2> SUFFICES ASSUME NEW j \in 0 .. N PROVE o[j] <= o[N]
    OBVIOUS
  <2>4. N - j \in Nat /\ N - j <= N /\ N - (N - j) = j
    BY <1>1
  <2> QED
    BY <2>3, <2>4
<1>6. k \in 0 .. N
  BY DEF N
<1>7. o[k] \in Nat /\ o[k] >= 2 /\ o[k] <= Len(x)
  BY <1>1, <1>4, <1>5, <1>6
<1>8. ASSUME k < N
      PROVE  /\ chars[k + 1] \in Char \cup Blanks
             /\ IF chars[k + 1] \in DOMAIN Escaped
                THEN /\ o[k + 1] = o[k] + 2 /\ x[o[k]] = "\\" /\ x[o[k] + 1] = Escaped[chars[k + 1]][2]
                     /\ o[k] + 1 <= Len(x)
                ELSE o[k + 1] = o[k] + 1 /\ x[o[k]] = chars[k + 1]
  <2>1. k + 1 \in 1 .. N /\ (k + 1) - 1 = k /\ k + 1 \in 0 .. N
    BY <1>1, <1>6, <1>8
  <2>2. o[k + 1] <= Len(x) /\ o[k + 1] \in Nat
    BY <1>1, <1>5, <2>1
  <2>3. IF chars[k + 1] \in DOMAIN Escaped
        THEN o[k + 1] = o[k] + 2 /\ x[o[k]] = "\\" /\ x[o[k] + 1] = Escaped[chars[k + 1]][2]
        ELSE o[k + 1] = o[k] + 1 /\ x[o[k]] = chars[k + 1]
    BY <1>2, <2>1
  <2>4. o[k + 1] = o[k] + 2 => o[k] + 1 <= Len(x)
    BY <1>1, <1>7, <2>2
  <2>5. chars[k + 1] \in Char \cup Blanks
    <3>1. \A i \in 1 .. Len(chars) : chars[i] \in Char \cup Blanks
      BY <1>1
    <3> QED
      BY <2>1, <3>1 DEF N
  <2> QED
    BY <2>3, <2>4, <2>5
<1> QED
  BY <1>1, <1>7, <1>8 DEF N

\* The byte k of the value n + 1.
LEMMA ValueByte ==
  ASSUME NEW vals, NEW x, NEW s, Whole(bytes, vals, x, s), NEW n \in 0 .. Len(vals) - 1,
         NEW k \in 1 .. Len(x[n + 1]), pos = s[n + 1] + k - 1
  PROVE  Peek = x[n + 1][k] /\ pos \in Nat
<1>1. /\ \A i \in 1 .. Len(x[n + 1]) : bytes[s[n + 1] + i - 1] = x[n + 1][i]
      /\ s[n + 1] \in Nat /\ Len(x[n + 1]) \in Nat
  BY WholeFacts
<1>2. bytes[pos] = x[n + 1][k]
  BY <1>1, Zenon
<1>3. pos \in Nat
  BY <1>1
<1> QED
  BY <1>2, <1>3 DEF Peek

\* A string begins.
LEMMA StringBegins ==
  ASSUME NEW vals, NEW x, NEW s, Whole(bytes, vals, x, s), NEW n \in 0 .. Len(vals) - 1,
         vals[n + 1][1] = "string", pos' = s[n + 1] + 1, at' = "string",
         lex' = Lex(IsName(n), <<>>, No, 0)
  PROVE  InString(vals, x, s, n)'
<1>1. Lexeme(x[n + 1], vals[n + 1]) /\ s[n + 1] \in Nat /\ Len(vals) \in Nat
  BY WholeFacts
<1>2. PICK o : Spelled(x[n + 1], vals[n + 1][2], o)
  <2>1. "string" # "int"
    OBVIOUS
  <2> QED
    BY <1>1, <2>1, Zenon DEF Lexeme
<1> DEFINE chars == vals[n + 1][2]
<1>3. chars \in Seq(Char \cup Blanks) /\ o[0] = 2 /\ Len(chars) \in Nat
  BY <1>2 DEF Spelled
<1>4. SubSeq(chars, 1, 0) = <<>>
  BY <1>3, SubSeqEmpty
<1>5. 0 \in 0 .. Len(chars) /\ s[n + 1] + 1 = s[n + 1] + o[0] - 1 /\ n < Len(vals)
  BY <1>1, <1>3
<1>6. lex' = Lex(IsName(n), SubSeq(chars, 1, 0), No, 0)
  BY <1>4
<1> QED
  BY <1>2, <1>5, <1>6 DEF InString

LEMMA LexChange ==
  ASSUME NEW l, NEW k, NEW c, NEW m, NEW i, NEW y, l = Lex(k, c, m, i)
  PROVE  /\ [l EXCEPT !.key = y] = Lex(y, c, m, i)
         /\ [l EXCEPT !.chars = y] = Lex(k, y, m, i)
         /\ [l EXCEPT !.minus = y] = Lex(k, c, y, i)
         /\ [l EXCEPT !.i = y] = Lex(k, c, m, y)
<1> DEFINE b == FALSE
<1>1. \A k1, c1, m1, i1 : Lex(k1, c1, m1, i1) = [key |-> k1, chars |-> c1, minus |-> m1, i |-> i1, big |-> b]
  BY DEF Lex
<1> HIDE DEF b
<1>2. l = [key |-> k, chars |-> c, minus |-> m, i |-> i, big |-> b]
  BY <1>1
<1>3. [l EXCEPT !.key = y] = [key |-> y, chars |-> c, minus |-> m, i |-> i, big |-> b]
  BY <1>2
<1>4. [l EXCEPT !.chars = y] = [key |-> k, chars |-> y, minus |-> m, i |-> i, big |-> b]
  BY <1>2
<1>5. [l EXCEPT !.minus = y] = [key |-> k, chars |-> c, minus |-> y, i |-> i, big |-> b]
  BY <1>2
<1>6. [l EXCEPT !.i = y] = [key |-> k, chars |-> c, minus |-> m, i |-> y, big |-> b]
  BY <1>2
<1>7. [l EXCEPT !.key = y] = Lex(y, c, m, i)
  BY <1>1, <1>3
<1>8. [l EXCEPT !.chars = y] = Lex(k, y, m, i)
  BY <1>1, <1>4
<1>9. [l EXCEPT !.minus = y] = Lex(k, c, y, i)
  BY <1>1, <1>5
<1>10. [l EXCEPT !.i = y] = Lex(k, c, m, y)
  BY <1>1, <1>6
<1> QED
  BY <1>7, <1>8, <1>9, <1>10

\* A value has been read.
LEMMA ValueEvent ==
  ASSUME NEW vals, NEW x, NEW s, open = 0, Whole(bytes, vals, x, s),
         NEW n \in 0 .. Len(vals) - 1, n % 2 = 1, Pushed(vals, n), Event(vals[n + 1]),
         Take \/ Stay, pos' = s[n + 2] - 1
  PROVE  Follows(vals, x, s)'
<1>1. Len(vals) \in Nat /\ n \in Nat /\ n \in 0 .. Len(vals) /\ n < Len(vals) /\ n % 2 # 0
  BY WholeFacts
<1>2. stack' = Append(stack, vals[n + 1]) /\ calls' = Counted(calls) /\ at' = "next" /\ lex' = NoLex
  BY DEF Event
<1>3. n + 1 \in 0 .. Len(vals) /\ Pushed(vals, n + 1)'
  BY <1>1, <1>2, PushedMore
<1>4. Between(vals, s, n + 1)'
  <2>1. (n + 1) % 2 = 0 /\ n + 1 > 0 /\ (n + 1) + 1 = n + 2
    BY <1>1
  <2> QED
    BY <1>2, <2>1 DEF Between
<1> QED
  BY <1>3, <1>4, TextStays DEF Follows

\* A member begins.
LEMMA KeyStep ==
  ASSUME NEW vals, NEW x, NEW s, open = 0, Whole(bytes, vals, x, s),
         NEW n \in 0 .. Len(vals) - 1, n % 2 = 0, Pushed(vals, n),
         at \in {"first", "member"}, pos = s[n + 1], lex = NoLex, Read
  PROVE  Follows(vals, x, s)'
<1>1. /\ Len(vals) \in Nat /\ vals[n + 1][1] = "string" /\ Lexeme(x[n + 1], vals[n + 1])
      /\ s[n + 1] \in Nat /\ Len(x[n + 1]) \in Nat /\ x[n + 1] \in Seq(Char)
  BY WholeFacts
<1>2. PICK o : Spelled(x[n + 1], vals[n + 1][2], o)
  <2>1. "string" # "int"
    OBVIOUS
  <2> QED
    BY <1>1, <2>1, Zenon DEF Lexeme
<1>3. Peek = "quote"
  <2>1. x[n + 1][1] = "quote"
    BY <1>2 DEF Spelled
  <2>2. 1 \in 1 .. Len(x[n + 1])
    BY <1>1, LexemeLong
  <2>3. pos = s[n + 1] + 1 - 1
    BY <1>1
  <2>4. Peek = x[n + 1][1]
    BY <2>2, <2>3, ValueByte
  <2> QED
    BY <2>1, <2>4
<1>4. "quote" # "lf" /\ "quote" # "}"
  OBVIOUS
<1>5. ~Skip /\ ~EmptyObject
  BY <1>3, <1>4 DEF Skip, EmptyObject, Blanks
<1>6. Key
  BY <1>5, PlaceSteps
<1>7. Take /\ at' = "string" /\ lex' = [lex EXCEPT !.key = TRUE] /\ calls' = calls /\ stack' = stack
  BY <1>3, <1>6 DEF Key
<1>8. lex' = Lex(IsName(n), <<>>, No, 0)
  <2>1. lex = Lex(No, <<>>, No, 0)
    BY NoLexIs
  <2>2. lex' = [lex EXCEPT !.key = IsName(n)]
    BY <1>7 DEF IsName
  <2>3. [lex EXCEPT !.key = IsName(n)] = Lex(IsName(n), <<>>, No, 0)
    BY <2>1, LexChange
  <2> QED
    BY <2>2, <2>3, Zenon
<1>9. pos' = s[n + 1] + 1
  BY <1>7 DEF Take
<1>11. InString(vals, x, s, n)'
  BY <1>1, <1>7, <1>8, <1>9, StringBegins
<1>12. Pushed(vals, n)' /\ n \in 0 .. Len(vals)
  BY <1>1, <1>7 DEF Pushed
<1> QED
  BY <1>7, <1>11, <1>12, TextStays DEF Follows

LEMMA ColonStep ==
  ASSUME NEW vals, NEW x, NEW s, open = 0, Whole(bytes, vals, x, s),
         NEW n \in 0 .. Len(vals) - 1, n % 2 = 1, Pushed(vals, n),
         at = "colon", pos = s[n + 1] - 1, lex = NoLex, Read
  PROVE  Follows(vals, x, s)'
<1>0. Len(vals) \in Nat /\ s[n + 1] \in Nat
  BY WholeFacts
<1>2. n > 0 /\ (n + 1) % 2 = 0
  BY <1>0
<1>1. Len(vals) \in Nat /\ s[n + 1] \in Nat /\ bytes[s[n + 1] - 1] = Mark(n + 1)
  BY <1>0, <1>2, WholeFacts
<1>3. Peek = ":"
  BY <1>1, <1>2 DEF Mark, Peek
<1>4. ":" # "lf"
  OBVIOUS
<1>5. ~Skip
  BY <1>3, <1>4 DEF Skip, Blanks
<1>6. Colon
  BY <1>5, PlaceSteps
<1>7. Take /\ at' = "value" /\ lex' = lex /\ calls' = calls /\ stack' = stack
  BY <1>3, <1>6 DEF Colon
<1>8. pos' = s[n + 1]
  BY <1>1, <1>7 DEF Take
<1>9. Between(vals, s, n)'
  BY <1>7, <1>8 DEF Between
<1>10. Pushed(vals, n)' /\ n \in 0 .. Len(vals)
  BY <1>1, <1>7 DEF Pushed
<1> QED
  BY <1>7, <1>9, <1>10, TextStays DEF Follows

\* What the text of an int begins with.
LEMMA IntBegins ==
  ASSUME NEW v, NEW i, NEW m, NEW D, Counts(v, i, m, D)
  PROVE  /\ m \in Nat \ {0} /\ Len(v) = Sign(i) + m /\ Sign(i) \in 0 .. 1 /\ v[1] = IF i < 0 THEN "-" ELSE Digit[D[1] % BASE]
         /\ \A j \in 1 .. m : /\ v[Sign(i) + j] = Digit[D[j] % BASE] /\ D[j] \in Nat /\ D[j - 1] \in Nat
                              /\ D[j] % BASE \in 0 .. BASE - 1
                              /\ D[j] = D[j - 1] * BASE + (D[j] % BASE)
                              /\ D[j] <= IF i < 0 THEN -i ELSE i
         /\ D[m] = (IF i < 0 THEN -i ELSE i) /\ D[0] = 0 /\ (m > 1 => D[1] # 0)
<1> DEFINE a == IF i < 0 THEN -i ELSE i
<1>1. PICK t : /\ Numeral(t, a, m, D) /\ Len(v) = Sign(i) + m
               /\ i < 0 => v[1] = "-"
               /\ \A j \in 1 .. m : v[Sign(i) + j] = t[j]
  BY DEF Counts
<1> HIDE DEF a
<1>2. /\ m \in Nat \ {0} /\ D \in [0 .. m -> Nat] /\ D[0] = 0 /\ D[m] = a
      /\ \A j \in 1 .. m : D[j] = D[j - 1] * BASE + (D[j] % BASE) /\ D[j] <= a
      /\ m > 1 => D[1] # 0
      /\ \A j \in 1 .. m : t[j] = Digit[D[j] % BASE]
  BY <1>1 DEF Numeral
<1>3. Sign(i) \in 0 .. 1 /\ (~(i < 0) => Sign(i) = 0)
  BY DEF Sign
<1>4. BASE \in Nat /\ BASE >= 2
  BY WidthEven
<1>5. ASSUME NEW j \in 1 .. m
      PROVE  /\ v[Sign(i) + j] = Digit[D[j] % BASE] /\ D[j] \in Nat /\ D[j - 1] \in Nat
             /\ D[j] % BASE \in 0 .. BASE - 1
             /\ D[j] = D[j - 1] * BASE + (D[j] % BASE) /\ D[j] <= a
  <2>1. j \in 0 .. m /\ j - 1 \in 0 .. m
    BY <1>2
  <2>2. D[j] \in Nat /\ D[j - 1] \in Nat
    BY <1>2, <2>1
  <2>3. D[j] % BASE \in 0 .. BASE - 1
    BY <1>4, <2>2
  <2>4. v[Sign(i) + j] = t[j] /\ t[j] = Digit[D[j] % BASE]
    BY <1>1, <1>2
  <2>5. D[j] = D[j - 1] * BASE + (D[j] % BASE) /\ D[j] <= a
    BY <1>2
  <2> QED
    BY <2>2, <2>3, <2>4, <2>5
<1>6. v[1] = IF i < 0 THEN "-" ELSE Digit[D[1] % BASE]
  <2>1. CASE i < 0
    BY <1>1, <2>1
  <2>2. CASE ~(i < 0)
    <3>1. 1 \in 1 .. m /\ Sign(i) + 1 = 1
      BY <1>2, <1>3, <2>2
    <3> QED
      BY <1>5, <2>2, <3>1
  <2> QED
    BY <2>1, <2>2
<1> QED
  BY <1>1, <1>2, <1>3, <1>5, <1>6 DEF a

\* A digit is no other mark.
LEMMA DigitMarks ==
  ASSUME NEW d \in 0 .. BASE - 1
  PROVE  /\ Digit[d] \in Digits /\ Digit[d] \notin Marks /\ Digit[d] \notin Blanks /\ Digit[d] # NUL
         /\ Digit[d] # "-" /\ Digit[d] # "quote" /\ Digit[d] \notin {"t", "n", "{", "["}
<1>1. Digit[d] \in Digits
  BY DigitChar
<1>2. Digit[d] \notin Marks /\ Digit[d] # "lf" /\ Digit[d] # NUL
  BY <1>1, BlankOK
<1>3. {"-", "quote", "t", "n", "{", "["} \subseteq Marks
  BY DEF Marks
<1> QED
  BY <1>1, <1>2, <1>3 DEF Blanks

\* A value begins.
LEMMA ValueStep ==
  ASSUME NEW vals, NEW x, NEW s, open = 0, Whole(bytes, vals, x, s),
         NEW n \in 0 .. Len(vals) - 1, n % 2 = 1, Pushed(vals, n),
         at = "value", pos = s[n + 1], lex = NoLex, Read
  PROVE  Follows(vals, x, s)'
<1>1. /\ Len(vals) \in Nat /\ Lexeme(x[n + 1], vals[n + 1])
      /\ s[n + 1] \in Nat /\ Len(x[n + 1]) \in Nat /\ x[n + 1] \in Seq(Char)
  BY WholeFacts
<1>2. Peek = x[n + 1][1]
  <2>2. 1 \in 1 .. Len(x[n + 1])
    BY <1>1, LexemeLong
  <2>3. pos = s[n + 1] + 1 - 1
    BY <1>1
  <2> QED
    BY <2>2, <2>3, ValueByte
<1>3. lex = Lex(No, <<>>, No, 0)
  BY NoLexIs
<1>4. ASSUME vals[n + 1][1] = "string", NEW o, Spelled(x[n + 1], vals[n + 1][2], o)
      PROVE  Follows(vals, x, s)'
  <2>1. Peek = "quote"
    BY <1>2, <1>4 DEF Spelled
  <2>2. "quote" \notin {"lf"} /\ "quote" \notin {"t", "n"} /\ "quote" # "{" /\ "quote" # "["
    OBVIOUS
  <2>3. StringValue
    <3>1. ~Skip
      BY <2>1, <2>2 DEF Skip, Blanks
    <3>2. ~ParseLiteral /\ ~ParseObject /\ ~ParseArray /\ ~ParseNumber
      BY <2>1, <2>2 DEF ParseLiteral, ParseObject, ParseArray, ParseNumber
    <3> QED
      BY <3>1, <3>2, PlaceSteps
  <2>4. Take /\ at' = "string" /\ calls' = calls /\ stack' = stack /\ lex' = lex
    BY <2>3 DEF StringValue
  <2>5. pos' = s[n + 1] + 1
    BY <2>4 DEF Take
  <2>6. No = IsName(n)
    BY DEF No, IsName
  <2>7. lex' = Lex(IsName(n), <<>>, No, 0)
    BY <1>3, <2>4, <2>6
  <2>8. InString(vals, x, s, n)'
    BY <1>4, <2>4, <2>5, <2>7, StringBegins
  <2>9. Pushed(vals, n)' /\ n \in 0 .. Len(vals)
    BY <1>1, <2>4 DEF Pushed
  <2> QED
    BY <2>4, <2>8, <2>9, TextStays DEF Follows
<1>5. ASSUME vals[n + 1][1] = "int", NEW m, NEW D, Counts(x[n + 1], vals[n + 1][2][1], m, D)
      PROVE  Follows(vals, x, s)'
  <2> DEFINE i == vals[n + 1][2][1]
  <2>0. x[n + 1][1] = (IF i < 0 THEN "-" ELSE Digit[D[1] % BASE]) /\ 1 \in 1 .. m /\ D[1] % BASE \in 0 .. BASE - 1
    BY <1>5, IntBegins
  <2>1. IF i < 0 THEN Peek = "-"
        ELSE Peek \notin Blanks \cup {"t", "n", "{", "[", "quote"} /\ Peek # "-"
    BY <1>2, <2>0, DigitMarks
  <2>2. "-" \notin {"lf"} \cup {"t", "n", "{", "[", "quote"}
    OBVIOUS
  <2>3. Peek \notin Blanks \cup {"t", "n", "{", "[", "quote"}
    BY <2>1, <2>2 DEF Blanks
  <2>4. ParseNumber
    <3>1. ~Skip
      BY <2>3 DEF Skip
    <3>2. ~ParseLiteral /\ ~ParseObject /\ ~ParseArray /\ ~StringValue
      BY <2>3 DEF ParseLiteral, ParseObject, ParseArray, StringValue
    <3> QED
      BY <3>1, <3>2, PlaceSteps
  <2>5. /\ at' = "sign" /\ calls' = calls /\ stack' = stack
        /\ IF Peek = "-" THEN Take /\ lex' = [lex EXCEPT !.minus = TRUE] ELSE Stay /\ lex' = lex
    BY <2>4 DEF ParseNumber
  <2>6. (Take \/ Stay) /\ lex' = Lex(No, <<>>, Minus(i), 0) /\ pos' = s[n + 1] + Sign(i)
    <3>1. CASE i < 0
      <4>1. Take /\ lex' = [lex EXCEPT !.minus = TRUE]
        BY <2>1, <2>5, <3>1
      <4>2. lex' = [lex EXCEPT !.minus = Minus(i)]
        BY <3>1, <4>1 DEF Minus
      <4>3. [lex EXCEPT !.minus = Minus(i)] = Lex(No, <<>>, Minus(i), 0)
        BY <1>3, LexChange
      <4>4. lex' = Lex(No, <<>>, Minus(i), 0)
        BY <4>2, <4>3, Zenon
      <4>5. pos' = s[n + 1] + 1 /\ Sign(i) = 1
        BY <3>1, <4>1 DEF Take, Sign
      <4> QED
        BY <4>1, <4>4, <4>5
    <3>2. CASE ~(i < 0)
      <4>1. Stay /\ lex' = lex
        BY <2>1, <2>5, <3>2
      <4>2. No = Minus(i)
        BY <3>2 DEF No, Minus
      <4>3. pos' = s[n + 1] + 0 /\ Sign(i) = 0
        BY <1>1, <3>2, <4>1 DEF Stay, Sign
      <4> QED
        BY <1>3, <4>1, <4>2, <4>3
    <3> QED
      BY <3>1, <3>2
  <2>7. InNumber(vals, x, s, n)'
    <3>1. n < Len(vals)
      BY <1>1
    <3> QED
      BY <1>5, <2>5, <2>6, <3>1 DEF InNumber
  <2>8. Pushed(vals, n)' /\ n \in 0 .. Len(vals)
    BY <1>1, <2>5 DEF Pushed
  <2> QED
    BY <2>6, <2>7, <2>8, TextStays DEF Follows
<1> QED
  BY <1>1, <1>4, <1>5 DEF Lexeme

LEMMA SubSeqMore ==
  ASSUME NEW chars, Sequence(chars), NEW k \in Nat, k < Len(chars)
  PROVE  Append(SubSeq(chars, 1, k), chars[k + 1]) = SubSeq(chars, 1, k + 1)
<1> DEFINE a == SubSeq(chars, 1, k)
           b == SubSeq(chars, 1, k + 1)
           c == Append(a, chars[k + 1])
<1>0. Len(chars) \in Nat
  BY LenProperties DEF Sequence
<1>1. Sequence(a) /\ Len(a) = k /\ \A i \in 1 .. k : a[i] = chars[i]
  <2>1. 1 \in 1 .. Len(chars) + 1 /\ k \in 1 - 1 .. Len(chars) /\ k - 1 + 1 = k /\ \A i \in 1 .. k : 1 + i - 1 = i
    BY <1>0
  <2>2. Sequence(a) /\ Len(a) = k - 1 + 1 /\ \A i \in 1 .. k - 1 + 1 : a[i] = chars[1 + i - 1]
    BY <2>1, SubSeqAny
  <2> HIDE DEF a
  <2> QED
    BY <2>1, <2>2
<1>2. Sequence(b) /\ Len(b) = k + 1 /\ \A i \in 1 .. k + 1 : b[i] = chars[i]
  <2>1. 1 \in 1 .. Len(chars) + 1 /\ k + 1 \in 1 - 1 .. Len(chars) /\ (k + 1) - 1 + 1 = k + 1
        /\ \A i \in 1 .. k + 1 : 1 + i - 1 = i
    BY <1>0
  <2>2. Sequence(b) /\ Len(b) = (k + 1) - 1 + 1 /\ \A i \in 1 .. (k + 1) - 1 + 1 : b[i] = chars[1 + i - 1]
    BY <2>1, SubSeqAny
  <2> HIDE DEF b
  <2> QED
    BY <2>1, <2>2
<1> HIDE DEF a, b
<1>3. Sequence(c) /\ Len(c) = k + 1 /\ c[k + 1] = chars[k + 1] /\ \A i \in 1 .. k : c[i] = a[i]
  BY <1>1, AppendAny
<1> HIDE DEF c
<1>4. \A i \in 1 .. k + 1 : c[i] = b[i]
  BY <1>1, <1>2, <1>3
<1>5. c = b
  BY <1>2, <1>3, <1>4, SameElements
<1> QED
  BY <1>5 DEF a, b, c

\* A plain character is not NUL and no control character.
LEMMA PlainChar ==
  ASSUME NEW c \in Char \cup Blanks, c \notin DOMAIN Escaped
  PROVE  c \notin Control /\ c # NUL /\ c # "quote" /\ c # "\\"
<1>1. c # "quote" /\ c # "\\" /\ c # "lf"
  BY EscapedShape
<1>2. c \in Char
  BY <1>1 DEF Blanks
<1>3. c # NUL
  BY <1>2, BlankOK DEF Char, Marks, NUL
<1>4. c \notin Control
  BY <1>1, <1>2, TextAssumption DEF Control
<1> QED
  BY <1>1, <1>3, <1>4

LEMMA UnescapedIs ==
  ASSUME NEW c \in DOMAIN Escaped
  PROVE  Escaped[c][2] \in DOMAIN Unescaped /\ Unescaped[Escaped[c][2]] = c
<1>1. c \in {"quote", "\\", "lf"} /\ Escaped[c][2] = IF c = "lf" THEN "n" ELSE c
  BY EscapedShape
<1>2. Unescaped["n"] = "lf" /\ Unescaped["quote"] = "quote" /\ Unescaped["\\"] = "\\"
      /\ DOMAIN Unescaped = {"quote", "\\", "n"}
  BY DEF Unescaped
<1> QED
  BY <1>1, <1>2

LEMMA LexFields == \A k, c, m, i : /\ Lex(k, c, m, i).key = k /\ Lex(k, c, m, i).chars = c
                                   /\ Lex(k, c, m, i).minus = m /\ Lex(k, c, m, i).i = i
BY DEF Lex

\* k characters of the string have been read.
StringAt(vals, x, s, n, o, k) ==
  /\ open = 0 /\ Whole(bytes, vals, x, s)
  /\ n \in 0 .. Len(vals) - 1 /\ Pushed(vals, n) /\ vals[n + 1][1] = "string"
  /\ Spelled(x[n + 1], vals[n + 1][2], o) /\ k \in 0 .. Len(vals[n + 1][2])
  /\ lex = Lex(IsName(n), SubSeq(vals[n + 1][2], 1, k), No, 0)

LEMMA StringFacts ==
  ASSUME NEW vals, NEW x, NEW s, NEW n, NEW o, NEW k, StringAt(vals, x, s, n, o, k)
  PROVE  /\ n \in Nat /\ n \in 0 .. Len(vals) /\ n < Len(vals) /\ Len(vals) \in Nat
         /\ s[n + 1] \in Nat /\ Len(x[n + 1]) \in Nat /\ s[n + 2] = s[n + 1] + Len(x[n + 1]) + 1
         /\ vals[n + 1] = <<"string", vals[n + 1][2]>>
         /\ k \in Nat /\ Len(vals[n + 1][2]) \in Nat /\ k <= Len(vals[n + 1][2])
         /\ o[k] \in Nat /\ o[k] >= 2 /\ o[k] <= Len(x[n + 1])
<1>1. /\ Whole(bytes, vals, x, s) /\ n \in 0 .. Len(vals) - 1 /\ vals[n + 1][1] = "string"
      /\ Spelled(x[n + 1], vals[n + 1][2], o) /\ k \in 0 .. Len(vals[n + 1][2])
  BY DEF StringAt
<1>2. Len(vals) \in Nat
  BY <1>1, WholeFacts
<1>3. /\ s[n + 1] \in Nat /\ Len(x[n + 1]) \in Nat /\ s[n + 2] = s[n + 1] + Len(x[n + 1]) + 1
      /\ Lexeme(x[n + 1], vals[n + 1])
  BY <1>1, WholeFacts
<1>4. n \in Nat /\ n \in 0 .. Len(vals) /\ n < Len(vals)
  BY <1>1, <1>2
<1>5. vals[n + 1] = <<"string", vals[n + 1][2]>>
  <2>1. "string" # "int"
    OBVIOUS
  <2> QED
    BY <1>1, <1>3, <2>1, Zenon DEF Lexeme
<1>6. o[k] \in Nat /\ o[k] >= 2 /\ o[k] <= Len(x[n + 1]) /\ Len(vals[n + 1][2]) \in Nat
  BY <1>1, SpelledFacts
<1>7. k \in Nat /\ k <= Len(vals[n + 1][2])
  BY <1>1, <1>6
<1> QED
  BY <1>2, <1>3, <1>4, <1>5, <1>6, <1>7

LEMMA StringByte ==
  ASSUME NEW vals, NEW x, NEW s, NEW n, NEW o, NEW k, StringAt(vals, x, s, n, o, k),
         NEW j \in Nat, j >= 1, j <= Len(x[n + 1]), pos = s[n + 1] + j - 1
  PROVE  Peek = x[n + 1][j]
<1>1. Whole(bytes, vals, x, s) /\ n \in 0 .. Len(vals) - 1
  BY DEF StringAt
<1>2. Len(x[n + 1]) \in Nat
  BY StringFacts
<1>3. j \in 1 .. Len(x[n + 1])
  BY <1>2
<1> QED
  BY <1>1, <1>3, ValueByte

\* One more character of a string.
LEMMA CharRead ==
  ASSUME NEW vals, NEW x, NEW s, NEW n, NEW o, NEW k, StringAt(vals, x, s, n, o, k),
         k < Len(vals[n + 1][2]), Take, UNCHANGED <<calls, stack>>, at' = "string", pos' = s[n + 1] + o[k + 1] - 1,
         lex' = [lex EXCEPT !.chars = Append(@, vals[n + 1][2][k + 1])]
  PROVE  Follows(vals, x, s)'
<1> DEFINE chars == vals[n + 1][2]
           a == SubSeq(chars, 1, k)
           b == SubSeq(chars, 1, k + 1)
<1>0. n \in 0 .. Len(vals) /\ n < Len(vals)
  BY StringFacts
<1>1. k \in Nat /\ Len(chars) \in Nat
  BY StringFacts
<1>2. k + 1 \in 0 .. Len(chars)
  BY <1>1
<1>3. Spelled(x[n + 1], chars, o) /\ vals[n + 1][1] = "string" /\ lex = Lex(IsName(n), a, No, 0)
      /\ open = 0 /\ Whole(bytes, vals, x, s) /\ Pushed(vals, n)
  BY DEF StringAt
<1>4. Append(a, chars[k + 1]) = b
  <2>1. Sequence(chars)
    BY <1>3 DEF Spelled, Sequence
  <2> QED
    BY <1>1, <2>1, SubSeqMore
<1>5. lex' = Lex(IsName(n), Append(a, chars[k + 1]), No, 0)
  <2> DEFINE key == IsName(n)
             e == chars[k + 1]
             zero == 0
  <2>1. lex = Lex(key, a, No, zero)
    BY <1>3
  <2> DEFINE d == Append(a, e)
             f == FALSE
  <2> HIDE DEF key, zero, a
  <2>2. lex.chars = a
    BY <2>1, LexFields
  <2>3. lex' = [lex EXCEPT !.chars = Append(lex.chars, e)]
    OBVIOUS
  <2>4. lex' = [lex EXCEPT !.chars = d]
    BY <2>2, <2>3
  <2>5. lex = [key |-> key, chars |-> a, minus |-> No, i |-> zero, big |-> f]
    BY <2>1 DEF Lex
  <2> HIDE DEF e, d, f
  <2>6. lex' = [key |-> key, chars |-> d, minus |-> No, i |-> zero, big |-> f]
    BY <2>4, <2>5
  <2>7. lex' = Lex(key, d, No, zero)
    BY <2>6 DEF Lex, f
  <2> QED
    BY <2>7 DEF key, d, e, zero
<1>6. lex' = Lex(IsName(n), b, No, 0)
  BY <1>4, <1>5, Zenon
<1>7. InString(vals, x, s, n)'
  BY <1>0, <1>2, <1>3, <1>6 DEF InString
<1>8. Pushed(vals, n)'
  BY <1>3 DEF Pushed
<1> QED
  BY <1>0, <1>3, <1>7, <1>8, TextStays DEF Follows

LEMMA EscapeStep ==
  ASSUME NEW vals, NEW x, NEW s, NEW n, NEW o, NEW k, StringAt(vals, x, s, n, o, k),
         at = "escape", pos = s[n + 1] + o[k],
         k < Len(vals[n + 1][2]), vals[n + 1][2][k + 1] \in DOMAIN Escaped, Read
  PROVE  Follows(vals, x, s)'
<1> DEFINE chars == vals[n + 1][2]
           c == chars[k + 1]
<1>0. open = 0 /\ Spelled(x[n + 1], chars, o) /\ k \in 0 .. Len(chars)
  BY DEF StringAt
<1>1. s[n + 1] \in Nat /\ o[k] \in Nat /\ Len(x[n + 1]) \in Nat
  BY StringFacts
<1>2. o[k + 1] = o[k] + 2 /\ x[n + 1][o[k] + 1] = Escaped[c][2] /\ o[k] + 1 <= Len(x[n + 1])
  BY <1>0, SpelledFacts, SMTT(40)
<1>3. Peek = Escaped[c][2]
  <2>1. o[k] + 1 \in Nat /\ o[k] + 1 >= 1 /\ pos = s[n + 1] + (o[k] + 1) - 1
    BY <1>1
  <2>2. Peek = x[n + 1][o[k] + 1]
    BY <1>2, <2>1, StringByte
  <2> QED
    BY <1>2, <2>2
<1>4. Peek \in DOMAIN Unescaped /\ Unescaped[Peek] = c
  BY <1>3, UnescapedIs
<1>5. Escape
  BY <1>0, PlaceSteps
<1>6. Take /\ at' = "string" /\ lex' = [lex EXCEPT !.chars = Append(@, c)] /\ UNCHANGED <<calls, stack>>
  BY <1>4, <1>5 DEF Escape
<1>7. pos' = s[n + 1] + o[k + 1] - 1
  <2>1. pos' = pos + 1
    BY <1>6 DEF Take
  <2> QED
    BY <1>1, <1>2, <2>1
<1> QED
  BY <1>6, <1>7, CharRead

LEMMA StringStep ==
  ASSUME NEW vals, NEW x, NEW s, NEW n, NEW o, NEW k, StringAt(vals, x, s, n, o, k),
         at = "string", pos = s[n + 1] + o[k] - 1, Read
  PROVE  Follows(vals, x, s)'
<1> DEFINE chars == vals[n + 1][2]
           c == chars[k + 1]
<1>0. open = 0 /\ Spelled(x[n + 1], chars, o) /\ k \in 0 .. Len(chars) /\ Whole(bytes, vals, x, s)
      /\ Pushed(vals, n) /\ n \in 0 .. Len(vals) - 1
  BY DEF StringAt
<1>1. s[n + 1] \in Nat /\ o[k] \in Nat /\ Len(x[n + 1]) \in Nat /\ s[n + 2] = s[n + 1] + Len(x[n + 1]) + 1
      /\ o[k] >= 2 /\ o[k] <= Len(x[n + 1]) /\ n \in Nat
  BY StringFacts
<1>2. Peek = x[n + 1][o[k]]
  <2>1. o[k] >= 1
    BY <1>1
  <2> QED
    BY <1>1, <2>1, StringByte, SMTT(40)
<1>3. ScanString \/ EndString
  BY <1>0, PlaceSteps
<1>4. ASSUME k < Len(chars), c \in DOMAIN Escaped PROVE Follows(vals, x, s)'
  <2>0. x[n + 1][o[k]] = "\\"
    BY <1>0, <1>4, SpelledFacts
  <2>1. Peek = "\\"
    BY <1>2, <2>0
  <2>2. "\\" # "quote"
    OBVIOUS
  <2>3. Take /\ at' = "escape" /\ UNCHANGED <<calls, lex, stack>>
    BY <1>3, <2>1, <2>2 DEF ScanString, EndString
  <2>4. pos' = s[n + 1] + o[k]
    <3>1. pos' = pos + 1
      BY <2>3 DEF Take
    <3> QED
      BY <1>1, <3>1, SMTT(40)
  <2>5. n < Len(vals) /\ n \in 0 .. Len(vals)
    BY StringFacts
  <2>6. InString(vals, x, s, n)'
    BY <1>4, <2>3, <2>4, <2>5 DEF InString, StringAt
  <2>7. Pushed(vals, n)'
    BY <1>0, <2>3 DEF Pushed
  <2> QED
    BY <1>0, <2>3, <2>5, <2>6, <2>7, TextStays DEF Follows
<1>5. ASSUME k < Len(chars), c \notin DOMAIN Escaped PROVE Follows(vals, x, s)'
  <2>0. c \in Char \cup Blanks /\ o[k + 1] = o[k] + 1 /\ x[n + 1][o[k]] = c
    BY <1>0, <1>5, SpelledFacts, SMTT(40)
  <2>1. Peek = c
    BY <1>2, <2>0
  <2>2. Peek \notin Control /\ Peek # NUL /\ Peek # "quote" /\ Peek # "\\"
    BY <1>5, <2>0, <2>1, PlainChar
  <2>3. Take /\ lex' = [lex EXCEPT !.chars = Append(@, Peek)] /\ UNCHANGED <<at, calls, stack>>
    BY <1>3, <2>2 DEF ScanString, EndString
  <2>4. lex' = [lex EXCEPT !.chars = Append(@, c)]
    BY <2>1, <2>3
  <2>5. pos' = s[n + 1] + o[k + 1] - 1
    <3>1. pos' = pos + 1
      BY <2>3 DEF Take
    <3>2. o[k + 1] = o[k] + 1
      BY <2>0
    <3>3. pos = s[n + 1] + o[k] - 1
      OBVIOUS
    <3> DEFINE p == s[n + 1]
               q == o[k]
               r == o[k + 1]
    <3>4. p \in Nat /\ q \in Nat /\ r = q + 1 /\ pos = p + q - 1
      BY <1>1, <3>2
    <3> HIDE DEF p, q, r
    <3>5. pos' = p + r - 1
      BY <3>1, <3>4
    <3> QED
      BY <3>5 DEF p, r
  <2>6. at' = "string"
    BY <2>3
  <2> QED
    BY <1>5, <2>3, <2>4, <2>5, <2>6, CharRead
<1>6. ASSUME k = Len(chars) PROVE Follows(vals, x, s)'
  <2>1. o[k] = Len(x[n + 1]) /\ x[n + 1][Len(x[n + 1])] = "quote" /\ chars \in Seq(Char \cup Blanks)
    BY <1>0, <1>6 DEF Spelled
  <2>2. EndString
    BY <1>2, <1>3, <2>1 DEF ScanString
  <2>3. SubSeq(chars, 1, k) = chars
    BY <1>6, <2>1, SubSeqFull
  <2>4. vals[n + 1] = <<"string", chars>>
    BY StringFacts
  <2>5. lex.chars = chars /\ lex.key = (n % 2 = 0)
    <3>1. lex = Lex(IsName(n), chars, No, 0)
      BY <2>3 DEF StringAt
    <3>2. lex.chars = chars /\ lex.key = IsName(n)
      BY <3>1, LexFields
    <3> QED
      BY <3>2 DEF IsName
  <2>6. Take
    BY <2>2 DEF EndString
  <2>7. pos' = s[n + 2] - 1
    <3>1. pos' = pos + 1
      BY <2>6 DEF Take
    <3> QED
      BY <1>1, <2>1, <3>1, SMTT(40)
  <2>8. CASE n % 2 = 0
    <3>1. stack' = Append(stack, vals[n + 1]) /\ at' = "colon" /\ lex' = NoLex /\ calls' = calls
      BY <2>2, <2>4, <2>5, <2>8 DEF EndString
    <3>2. n + 1 \in 0 .. Len(vals) /\ Pushed(vals, n + 1)'
      <4>1. n \in 0 .. Len(vals) /\ n < Len(vals) /\ Len(vals) \in Nat
        BY StringFacts
      <4> QED
        BY <1>0, <2>8, <3>1, <4>1, PushedMore
    <3>3. (n + 1) % 2 = 1 /\ (n + 1) + 1 = n + 2
      BY <1>1, <2>8, SMTT(40)
    <3>4. Between(vals, s, n + 1)'
      BY <2>7, <3>1, <3>3 DEF Between
    <3> QED
      BY <1>0, <2>6, <3>2, <3>4, TextStays DEF Follows
  <2>9. CASE n % 2 = 1
    <3>0. n % 2 # 0
      BY <1>1, <2>9
    <3>1. ~lex.key
      BY <2>5, <3>0, Zenon
    <3>2. Event(<<"string", lex.chars>>)
      BY <2>2, <3>1 DEF EndString
    <3>3. Event(vals[n + 1])
      BY <2>4, <2>5, <3>2
    <3> QED
      BY <1>0, <2>6, <2>7, <2>9, <3>3, ValueEvent
  <2> QED
    BY <1>1, <2>8, <2>9
<1> QED
  <2>1. k \in Nat /\ k <= Len(chars) /\ Len(chars) \in Nat
    BY StringFacts
  <2> QED
    BY <1>4, <1>5, <1>6, <2>1

\* A digit of 0 .. BASE - 1 is read as that number.
LEMMA ValueIs == ASSUME NEW d \in 0 .. BASE - 1, Peek = Digit[d] PROVE Value(Peek) = d
<1>1. \A e \in 0 .. BASE - 1 : Digit[e] = Digit[d] => e = d
  BY TextAssumption
<1> QED
  BY <1>1 DEF Value

LEMMA FieldKept ==
  ASSUME NEW l, NEW k, NEW c, NEW m, NEW i, NEW y, l = Lex(k, c, m, i)
  PROVE  [l EXCEPT !.i = y] = Lex(k, c, m, y)
BY LexChange

LEMMA Sum == \A a, b \in Nat : a + b \in Nat
OBVIOUS

\* An int is being read.
IntAt(vals, x, s, n, m, D) ==
  /\ open = 0 /\ Whole(bytes, vals, x, s)
  /\ n \in 0 .. Len(vals) - 1 /\ n % 2 = 1 /\ Pushed(vals, n) /\ vals[n + 1][1] = "int"
  /\ Counts(x[n + 1], vals[n + 1][2][1], m, D)

LEMMA IntFacts ==
  ASSUME NEW vals, NEW x, NEW s, NEW n, NEW m, NEW D, IntAt(vals, x, s, n, m, D)
  PROVE  LET i == vals[n + 1][2][1]
         IN  /\ n \in Nat /\ n \in 0 .. Len(vals) /\ n < Len(vals) /\ Len(vals) \in Nat
             /\ s[n + 1] \in Nat /\ Len(x[n + 1]) = Sign(i) + m /\ s[n + 2] = s[n + 1] + Sign(i) + m + 1
             /\ s[n + 2] \in Nat
             /\ vals[n + 1] = <<"int", <<i>>>> /\ i \in -Half .. Half - 1
             /\ m \in Nat \ {0} /\ Sign(i) \in Nat
<1> DEFINE i == vals[n + 1][2][1]
<1>1. /\ Whole(bytes, vals, x, s) /\ n \in 0 .. Len(vals) - 1 /\ vals[n + 1][1] = "int"
      /\ Counts(x[n + 1], i, m, D)
  BY DEF IntAt
<1>2. Len(vals) \in Nat
  BY <1>1, WholeFacts
<1>3. /\ s[n + 1] \in Nat /\ Len(x[n + 1]) \in Nat /\ s[n + 2] = s[n + 1] + Len(x[n + 1]) + 1
      /\ Lexeme(x[n + 1], vals[n + 1])
  BY <1>1, WholeFacts
<1>4. n \in Nat /\ n \in 0 .. Len(vals) /\ n < Len(vals)
  BY <1>1, <1>2
<1>5. vals[n + 1] = <<"int", <<i>>>> /\ i \in -Half .. Half - 1
  <2>1. "string" # "int"
    OBVIOUS
  <2> QED
    BY <1>1, <1>3, <2>1, Zenon DEF Lexeme
<1> HIDE DEF i
<1>6. m \in Nat \ {0} /\ Len(x[n + 1]) = Sign(i) + m /\ Sign(i) \in 0 .. 1
  BY <1>1, IntBegins
<1>7. s[n + 2] = s[n + 1] + Sign(i) + m + 1 /\ s[n + 2] \in Nat /\ Sign(i) \in Nat
  BY <1>3, <1>6
<1> QED
  BY <1>2, <1>3, <1>4, <1>5, <1>6, <1>7 DEF i

\* The digit j of an int is next.
LEMMA IntByte ==
  ASSUME NEW vals, NEW x, NEW s, NEW n, NEW m, NEW D, IntAt(vals, x, s, n, m, D),
         NEW j \in Nat, j < m, pos = s[n + 1] + Sign(vals[n + 1][2][1]) + j
  PROVE  /\ D[j + 1] % BASE \in 0 .. BASE - 1 /\ Peek = Digit[D[j + 1] % BASE] /\ Peek \in Digits
         /\ Value(Peek) = D[j + 1] % BASE
<1> DEFINE i == vals[n + 1][2][1]
           d == D[j + 1] % BASE
<1>0. Whole(bytes, vals, x, s) /\ n \in 0 .. Len(vals) - 1 /\ Counts(x[n + 1], i, m, D)
  BY DEF IntAt
<1>1. s[n + 1] \in Nat /\ m \in Nat \ {0} /\ Sign(i) \in Nat /\ Len(x[n + 1]) = Sign(i) + m
  BY IntFacts
<1>2. pos = s[n + 1] + Sign(i) + j
  OBVIOUS
<1>3. j + 1 \in 1 .. m
  BY <1>1
<1>4. x[n + 1][Sign(i) + (j + 1)] = Digit[d] /\ d \in 0 .. BASE - 1
  BY <1>0, <1>3, IntBegins
<1> HIDE DEF i, d
<1>5. Sign(i) + (j + 1) \in 1 .. Len(x[n + 1]) /\ pos = s[n + 1] + (Sign(i) + (j + 1)) - 1
  BY <1>1, <1>2, <1>3, SMTT(40)
<1>6. Peek = x[n + 1][Sign(i) + (j + 1)]
  <2> DEFINE k == Sign(i) + (j + 1)
  <2>1. k \in 1 .. Len(x[n + 1]) /\ pos = s[n + 1] + k - 1
    BY <1>5
  <2> HIDE DEF k
  <2>2. Peek = x[n + 1][k]
    BY <1>0, <2>1, ValueByte
  <2> QED
    BY <2>2 DEF k
<1>7. Peek = Digit[d] /\ d \in 0 .. BASE - 1
  BY <1>4, <1>6
<1>8. Peek \in Digits /\ Value(Peek) = d
  BY <1>7, DigitChar, ValueIs
<1> QED
  BY <1>7, <1>8 DEF d

LEMMA IntTaken ==
  ASSUME NEW vals, NEW x, NEW s, NEW n, NEW m, NEW D, IntAt(vals, x, s, n, m, D),
         NEW j \in 1 .. m, D[1] # 0, Take, at' = "digits", UNCHANGED <<calls, stack>>,
         lex' = Lex(No, <<>>, Minus(vals[n + 1][2][1]), D[j]), pos' = s[n + 1] + Sign(vals[n + 1][2][1]) + j
  PROVE  Follows(vals, x, s)'
<1>0. /\ open = 0 /\ Whole(bytes, vals, x, s) /\ n % 2 = 1 /\ Pushed(vals, n) /\ vals[n + 1][1] = "int"
      /\ Counts(x[n + 1], vals[n + 1][2][1], m, D)
  BY DEF IntAt
<1>1. n < Len(vals) /\ n \in 0 .. Len(vals)
  BY IntFacts
<1>2. InNumber(vals, x, s, n)'
  BY <1>0, <1>1 DEF InNumber
<1>3. Pushed(vals, n)'
  BY <1>0 DEF Pushed
<1> QED
  BY <1>0, <1>1, <1>2, <1>3, TextStays DEF Follows

LEMMA SignStep ==
  ASSUME NEW vals, NEW x, NEW s, NEW n, NEW m, NEW D, IntAt(vals, x, s, n, m, D),
         at = "sign", lex = Lex(No, <<>>, Minus(vals[n + 1][2][1]), 0),
         pos = s[n + 1] + Sign(vals[n + 1][2][1]), Read
  PROVE  Follows(vals, x, s)'
<1> DEFINE i == vals[n + 1][2][1]
<1>0. open = 0 /\ Counts(x[n + 1], i, m, D) /\ Whole(bytes, vals, x, s) /\ Pushed(vals, n) /\ n \in 0 .. Len(vals) - 1
      /\ n % 2 = 1
  BY DEF IntAt
<1>1. /\ s[n + 1] \in Nat /\ m \in Nat \ {0} /\ Sign(i) \in Nat /\ s[n + 2] = s[n + 1] + Sign(i) + m + 1
      /\ vals[n + 1] = <<"int", <<i>>>> /\ i \in -Half .. Half - 1
  BY IntFacts
<1>2. FirstDigit
  BY <1>0, PlaceSteps
<1>3. D[1] % BASE \in 0 .. BASE - 1 /\ Peek \in Digits /\ Value(Peek) = D[1] % BASE
  <2>1. 0 \in Nat /\ 0 < m /\ pos = s[n + 1] + Sign(i) + 0 /\ 0 + 1 = 1
    BY <1>1
  <2> QED
    BY <2>1, IntByte
<1>4. D[1] = D[0] * BASE + (D[1] % BASE) /\ D[0] = 0 /\ D[1] \in Nat /\ (m > 1 => D[1] # 0)
      /\ D[m] = (IF i < 0 THEN -i ELSE i)
  <2>1. 1 \in 1 .. m /\ 1 - 1 = 0
    BY <1>1
  <2> QED
    BY <1>0, <2>1, IntBegins
<1>5. D[1] = D[1] % BASE
  <2>1. BASE \in Nat /\ D[0] * BASE = 0
    BY <1>4, WidthEven
  <2> QED
    BY <1>3, <1>4, <2>1
<1>6. Value(Peek) = D[1]
  BY <1>3, <1>5
<1>7. CASE D[1] = 0
  <2>1. m = 1
    BY <1>1, <1>4, <1>7
  <2>2. i = 0 /\ Sign(i) = 0
    <3>1. (IF i < 0 THEN -i ELSE i) = 0 /\ i \in Int
      BY <1>1, <1>4, <1>7, <2>1, WidthEven
    <3>2. i = 0
      BY <3>1
    <3> QED
      BY <3>2 DEF Sign
  <2>3. Take /\ Event(Number(0))
    BY <1>2, <1>3, <1>6, <1>7 DEF FirstDigit
  <2>4. Number(0) = <<"int", <<0>>>>
    BY <1>1, <2>2 DEF Number
  <2>5. Event(vals[n + 1])
    BY <1>1, <2>2, <2>3, <2>4
  <2>6. pos' = s[n + 2] - 1
    <3>1. pos' = pos + 1
      BY <2>3 DEF Take
    <3> QED
      BY <1>1, <2>1, <2>2, <3>1
  <2> QED
    BY <1>0, <2>3, <2>5, <2>6, ValueEvent
<1>8. CASE D[1] # 0
  <2>1. Take /\ at' = "digits" /\ lex' = [lex EXCEPT !.i = Value(Peek)] /\ UNCHANGED <<calls, stack>>
    BY <1>2, <1>3, <1>6, <1>8 DEF FirstDigit
  <2>2. lex' = Lex(No, <<>>, Minus(i), D[1])
    <3> DEFINE v == Value(Peek)
    <3>1. lex' = [lex EXCEPT !.i = v]
      BY <2>1
    <3> HIDE DEF v
    <3>2. [lex EXCEPT !.i = v] = Lex(No, <<>>, Minus(i), v)
      BY FieldKept
    <3>3. lex' = Lex(No, <<>>, Minus(i), v)
      BY <3>1, <3>2, Zenon
    <3> QED
      BY <1>6, <3>3 DEF v
  <2>3. pos' = s[n + 1] + Sign(i) + 1
    <3>1. pos' = pos + 1
      BY <2>1 DEF Take
    <3> QED
      BY <1>1, <3>1
  <2>4. 1 \in 1 .. m
    BY <1>1
  <2> QED
    BY <1>8, <2>1, <2>2, <2>3, <2>4, IntTaken
<1> QED
  BY <1>7, <1>8

\* After an int there is no digit.
LEMMA AfterInt ==
  ASSUME NEW vals, NEW x, NEW s, Whole(bytes, vals, x, s), NEW n \in 0 .. Len(vals) - 1,
         pos = s[n + 2] - 1
  PROVE  Peek \notin Digits
<1>1. Len(vals) \in Nat
  BY WholeFacts
<1>2. CASE n + 1 < Len(vals)
  <2> DEFINE k == n + 1
  <2>1. k \in 0 .. Len(vals) - 1 /\ k > 0 /\ k + 1 = n + 2
    BY <1>1, <1>2
  <2> HIDE DEF k
  <2>2. bytes[s[k + 1] - 1] = Mark(k + 1)
    BY <2>1, WholeFacts
  <2>3. Peek = Mark(k + 1)
    BY <2>1, <2>2 DEF Peek
  <2>4. Mark(k + 1) \in Marks
    BY DEF Mark, Marks
  <2> QED
    BY <2>3, <2>4, BlankOK
<1>3. CASE ~(n + 1 < Len(vals))
  <2>1. Len(vals) + 1 = n + 2
    BY <1>1, <1>3
  <2>2. bytes[s[Len(vals) + 1] - 1] = "}"
    BY DEF Whole
  <2>3. Peek = "}"
    BY <2>1, <2>2, Zenon DEF Peek
  <2>4. "}" \in Marks
    BY Zenon DEF Marks
  <2> QED
    BY <2>3, <2>4, BlankOK, Zenon
<1> QED
  BY <1>2, <1>3

\* What the number of an int's digits becomes.
LEMMA IntKept ==
  ASSUME NEW i \in -Half .. Half - 1, NEW c, lex = Lex(No, c, Minus(i), IF i < 0 THEN -i ELSE i)
  PROVE  ~lex.big /\ IntValue = <<"int", <<i>>>>
<1> DEFINE a == IF i < 0 THEN -i ELSE i
           b == FALSE
<1>0. lex = [key |-> No, chars |-> c, minus |-> Minus(i), i |-> a, big |-> b]
  BY DEF Lex
<1> HIDE DEF a, b
<1>1. lex.i = a /\ lex.minus = Minus(i) /\ lex.big = b
  BY <1>0
<1>2. ~lex.big
  BY <1>1 DEF b
<1>w. Width = 2 * Half /\ Half \in Nat /\ Width \in Nat /\ Half >= 1
  BY WidthEven
<1>3. CASE i < 0
  <2>1. lex.minus
    BY <1>1, <1>3 DEF Minus
  <2>2. lex.i = -i
    BY <1>1, <1>3 DEF a
  <2>3. (Width - lex.i) % Width = Width + i
    <3>1. Width - lex.i = Width + i /\ Width + i \in 0 .. Width - 1
      BY <1>w, <1>3, <2>2
    <3> QED
      BY <1>w, <3>1
  <2>4. Signed(Width + i) = i
    BY <1>w, <1>3 DEF Signed
  <2> QED
    BY <1>2, <2>1, <2>3, <2>4 DEF IntValue
<1>4. CASE ~(i < 0)
  <2>1. ~lex.minus
    BY <1>1, <1>4 DEF Minus
  <2>2. lex.i = i
    BY <1>1, <1>4 DEF a
  <2>3. ~(i >= Half)
    BY <1>w
  <2> QED
    BY <1>2, <2>1, <2>2, <2>3 DEF IntValue
<1> QED
  BY <1>3, <1>4

\* No number of an int's digits is too big.
LEMMA DigitsFit ==
  ASSUME NEW i \in -Half .. Half - 1, NEW c, NEW e \in Nat, lex = Lex(No, c, Minus(i), e),
         NEW d \in 0 .. BASE - 1, e * BASE + d <= IF i < 0 THEN -i ELSE i
  PROVE  ~lex.big /\ ~TooBig(d) /\ lex.i = e
<1> DEFINE b == FALSE
           p == e * BASE + d
<1>0. lex = [key |-> No, chars |-> c, minus |-> Minus(i), i |-> e, big |-> b]
  BY DEF Lex
<1> HIDE DEF b
<1>1. lex.i = e /\ lex.minus = Minus(i) /\ lex.big = b
  BY <1>0
<1>2. ~lex.big
  BY <1>1 DEF b
<1>w. Width = 2 * Half /\ Half \in Nat /\ Width \in Nat /\ Half >= 1 /\ BASE \in Nat
  BY WidthEven
<1>3. Limit = IF i < 0 THEN Half ELSE Width - 1
  <2>1. Minus(i) = (i < 0)
    BY DEF Minus
  <2>2. CASE i < 0
    <3>1. lex.minus
      BY <1>1, <2>1, <2>2
    <3> QED
      BY <2>2, <3>1 DEF Limit
  <2>3. CASE ~(i < 0)
    <3>1. ~lex.minus
      BY <1>1, <2>1, <2>3
    <3> QED
      BY <2>3, <3>1 DEF Limit
  <2> QED
    BY <2>2, <2>3
<1>4. p \in Nat /\ p <= IF i < 0 THEN -i ELSE i
  <2>1. e * BASE \in Nat
    BY <1>w
  <2> QED
    BY <2>1
<1>5. TooBig(d) <=> p > Limit
  BY <1>1, DigitLimit
<1> HIDE DEF p
<1>6. ~(p > Limit)
  BY <1>3, <1>4, <1>w
<1> QED
  BY <1>1, <1>2, <1>5, <1>6

LEMMA DigitsStep ==
  ASSUME NEW vals, NEW x, NEW s, NEW n, NEW m, NEW D, IntAt(vals, x, s, n, m, D), NEW j \in 1 .. m,
         at = "digits", D[1] # 0, lex = Lex(No, <<>>, Minus(vals[n + 1][2][1]), D[j]),
         pos = s[n + 1] + Sign(vals[n + 1][2][1]) + j, Read
  PROVE  Follows(vals, x, s)'
<1> DEFINE i == vals[n + 1][2][1]
           a == IF i < 0 THEN -i ELSE i
           minus == Minus(i)
<1>0. open = 0 /\ Counts(x[n + 1], i, m, D) /\ Whole(bytes, vals, x, s) /\ Pushed(vals, n) /\ n \in 0 .. Len(vals) - 1
      /\ n % 2 = 1
  BY DEF IntAt
<1>1. /\ s[n + 1] \in Nat /\ m \in Nat \ {0} /\ Sign(i) \in Nat /\ s[n + 2] = s[n + 1] + Sign(i) + m + 1
      /\ vals[n + 1] = <<"int", <<i>>>> /\ i \in -Half .. Half - 1 /\ s[n + 2] \in Nat
  BY IntFacts
<1>2. NextDigit \/ EndNumber
  BY <1>0, PlaceSteps
<1>3. D[m] = a /\ \A k \in 1 .. m : /\ D[k] \in Nat /\ D[k - 1] \in Nat /\ D[k] % BASE \in 0 .. BASE - 1
                                    /\ D[k] = D[k - 1] * BASE + (D[k] % BASE) /\ D[k] <= a
  BY <1>0, IntBegins
<1>j. j \in Nat /\ j >= 1 /\ j <= m
  BY <1>1
<1>4. CASE j < m
  <2> DEFINE d == D[j + 1] % BASE
  <2>1. d \in 0 .. BASE - 1 /\ Peek \in Digits /\ Value(Peek) = d
    BY <1>4, <1>j, IntByte
  <2>2. D[j + 1] = D[j] * BASE + d /\ D[j + 1] <= a /\ D[j] \in Nat
    <3>1. j + 1 \in 1 .. m /\ (j + 1) - 1 = j
      BY <1>1, <1>4, <1>j
    <3> QED
      BY <1>3, <3>1
  <2> HIDE DEF d
  <2>3. ~lex.big /\ ~TooBig(d) /\ lex.i = D[j]
    <3> DEFINE e == D[j]
    <3>1. e \in Nat /\ e * BASE + d <= (IF i < 0 THEN -i ELSE i) /\ lex = Lex(No, <<>>, Minus(i), e)
      BY <2>2
    <3> HIDE DEF e, i
    <3>2. ~lex.big /\ ~TooBig(d) /\ lex.i = e
      BY <1>1, <2>1, <3>1, DigitsFit
    <3> QED
      BY <3>2 DEF e
  <2>4. NextDigit
    BY <1>2, <2>1 DEF EndNumber
  <2>5. /\ Take /\ at' = "digits" /\ UNCHANGED <<calls, stack>>
        /\ lex' = [lex EXCEPT !.i = lex.i * BASE + Value(Peek)]
    BY <2>1, <2>3, <2>4 DEF NextDigit
  <2>6. lex' = Lex(No, <<>>, Minus(i), D[j + 1])
    <3> DEFINE y == lex.i * BASE + Value(Peek)
    <3>1. lex' = [lex EXCEPT !.i = y]
      BY <2>5
    <3>2. y = D[j + 1]
      BY <2>1, <2>2, <2>3
    <3> HIDE DEF y
    <3>3. [lex EXCEPT !.i = y] = Lex(No, <<>>, Minus(i), y)
      BY FieldKept
    <3>4. lex' = Lex(No, <<>>, Minus(i), y)
      BY <3>1, <3>3, Zenon
    <3> QED
      BY <3>2, <3>4
  <2>7. pos' = s[n + 1] + Sign(i) + (j + 1)
    <3>1. pos' = pos + 1
      BY <2>5 DEF Take
    <3> QED
      BY <1>1, <1>j, <3>1, SMTT(40)
  <2>8. j + 1 \in 1 .. m
    BY <1>1, <1>4, <1>j
  <2> QED
    BY <2>5, <2>6, <2>7, <2>8, IntTaken
<1>5. CASE j = m
  <2>1. pos = s[n + 2] - 1
    BY <1>1, <1>5
  <2>2. Peek \notin Digits
    BY <1>0, <2>1, AfterInt
  <2>4. ~lex.big /\ IntValue = vals[n + 1]
    <3>1. lex = Lex(No, <<>>, Minus(i), IF i < 0 THEN -i ELSE i)
      BY <1>3, <1>5
    <3> HIDE DEF i
    <3>2. ~lex.big /\ IntValue = <<"int", <<i>>>>
      BY <1>1, <3>1, IntKept
    <3> QED
      BY <1>1, <3>2
  <2>3. Stay /\ Event(IntValue)
    BY <1>2, <2>2, <2>4 DEF NextDigit, EndNumber
  <2>5. pos' = s[n + 2] - 1
    BY <2>1, <2>3 DEF Stay
  <2> QED
    BY <1>0, <2>3, <2>4, <2>5, ValueEvent
<1> QED
  <2>1. j < m \/ j = m
    BY <1>1, <1>j
  <2> QED
    BY <1>4, <1>5, <2>1

\* What the values of the object are when it ends: they are the values above it.
LEMMA ObjectCloses ==
  ASSUME NEW vals, Sequence(vals), Len(vals) \in Nat, Len(vals) % 2 = 0, Pushed(vals, Len(vals)),
         Closes(Last(calls).count)
  PROVE  stack' = <<<<"object", vals>>>> /\ calls' = <<>> /\ at' = "next" /\ lex' = lex
<1> DEFINE m == Len(vals)
           c == m \div 2
           u == SubSeq(stack, 2, m + 1)
<1>1. /\ Sequence(stack) /\ Len(stack) = m + 1 /\ \A i \in 1 .. m : stack[i + 1] = vals[i]
      /\ calls = <<[what |-> "object", count |-> c]>>
  BY DEF Pushed
<1>2. m \in Nat /\ 2 * c = m
  OBVIOUS
<1>3. u = vals
  <2>1. 2 \in 1 .. Len(stack) + 1 /\ m + 1 \in 2 - 1 .. Len(stack) /\ (m + 1) - 2 + 1 = m
        /\ \A i \in 1 .. m : 2 + i - 1 = i + 1
    BY <1>1, <1>2
  <2>2. Sequence(u) /\ Len(u) = (m + 1) - 2 + 1 /\ \A i \in 1 .. (m + 1) - 2 + 1 : u[i] = stack[2 + i - 1]
    BY <1>1, <2>1, SubSeqAny
  <2> HIDE DEF u
  <2>3. Len(u) = m /\ \A i \in 1 .. m : u[i] = vals[i]
    BY <1>1, <2>1, <2>2
  <2> QED
    BY <2>2, <2>3, SameElements
<1> HIDE DEF m, c, u
<1>4. Last(calls) = [what |-> "object", count |-> c]
  BY <1>1 DEF Last
<1>5. Last(calls).what = "object" /\ Last(calls).count = c
  BY <1>4
<1>6. Front(calls) = <<>>
  BY <1>1, SubSeqEmpty DEF Front
<1>7. Counted(Front(calls)) = <<>>
  BY <1>6 DEF Counted
<1>8. SubSeq(stack, 1, 0) = <<>>
  BY SubSeqEmpty
<1>9. Len(stack) - 2 * c = 1 /\ Len(stack) = m + 1
  BY <1>1, <1>2
<1>10. /\ stack' = Append(SubSeq(stack, 1, (Len(stack) - 2 * c) - 1),
                          <<"object", SubSeq(stack, (Len(stack) - 2 * c) + 1, Len(stack))>>)
       /\ calls' = Counted(Front(calls)) /\ at' = "next" /\ lex' = lex
  BY <1>5 DEF Closes
<1>11. stack' = Append(SubSeq(stack, 1, 0), <<"object", SubSeq(stack, 2, m + 1)>>)
  <2>1. (Len(stack) - 2 * c) - 1 = 0 /\ (Len(stack) - 2 * c) + 1 = 2
    BY <1>9
  <2> QED
    BY <1>9, <1>10, <2>1
<1>12. stack' = <<<<"object", vals>>>>
  BY <1>3, <1>8, <1>11, AppendNone DEF u
<1> QED
  BY <1>7, <1>10, <1>12

\* A value has been read: a comma or the end follows.
LEMMA NextStep ==
  ASSUME NEW vals, NEW x, NEW s, open = 0, Whole(bytes, vals, x, s),
         NEW n \in 0 .. Len(vals), n > 0, n % 2 = 0, Pushed(vals, n),
         at = "next", pos = s[n + 1] - 1, lex = NoLex, Read
  PROVE  Follows(vals, x, s)'
<1>0. Len(vals) \in Nat /\ Sequence(vals) /\ Len(vals) % 2 = 0 /\ Len(vals) > 0
  BY WholeFacts
<1>c. calls = <<[what |-> "object", count |-> n \div 2]>>
  BY DEF Pushed
<1>1. calls # <<>> /\ Last(calls).what = "object"
  <2> DEFINE c == n \div 2
  <2>1. calls = <<[what |-> "object", count |-> c]>>
    BY <1>c
  <2> HIDE DEF c
  <2> QED
    BY <2>1 DEF Last
<1>2. Closing[Last(calls).what] = "}"
  BY <1>1 DEF Closing
<1>3. CASE n < Len(vals)
  <2>1. n \in 0 .. Len(vals) - 1
    BY <1>0, <1>3
  <2>2. bytes[s[n + 1] - 1] = Mark(n + 1) /\ s[n + 1] \in Nat
    BY <2>1, WholeFacts
  <2>3. (n + 1) % 2 # 0
    OBVIOUS
  <2>4. Peek = ","
    BY <2>2, <2>3 DEF Mark, Peek
  <2>5. "," # "lf" /\ "," # "}" 
    OBVIOUS
  <2>6. Peek \notin Blanks /\ Peek # "}"
    BY <2>4, <2>5, Zenon DEF Blanks
  <2>7. Peek \in Blanks \cup {",", Closing[Last(calls).what]}
    BY <2>4, Zenon
  <2>8. AfterComma
    <3>1. ~Skip
      BY <2>6 DEF Skip
    <3>2. ~EndObjectOrArray
      BY <1>2, <2>6, Zenon DEF EndObjectOrArray
    <3>3. ~MissComma
      BY <2>7, Zenon DEF MissComma
    <3>4. ~EndRoot
      BY <1>1 DEF EndRoot
    <3> QED
      BY <3>1, <3>2, <3>3, <3>4, PlaceSteps
  <2>9. Take /\ at' = "member" /\ UNCHANGED <<calls, lex, stack>>
    BY <1>1, <2>8 DEF AfterComma
  <2>10. pos' = s[n + 1]
    BY <2>2, <2>9 DEF Take
  <2>11. Between(vals, s, n)'
    BY <1>3, <2>9, <2>10 DEF Between
  <2>12. Pushed(vals, n)'
    BY <2>9 DEF Pushed
  <2> QED
    BY <2>9, <2>11, <2>12, TextStays DEF Follows
<1>4. CASE n = Len(vals)
  <2>1. bytes[s[n + 1] - 1] = "}"
    BY <1>4 DEF Whole
  <2>2. Peek = "}"
    BY <2>1, Zenon DEF Peek
  <2>3. "}" # "lf" /\ "}" # ","
    OBVIOUS
  <2>4. Peek \notin Blanks /\ Peek # ","
    BY <2>2, <2>3, Zenon DEF Blanks
  <2>5. Peek \in Blanks \cup {",", Closing[Last(calls).what]}
    BY <1>2, <2>2, Zenon
  <2>6. EndObjectOrArray
    <3>1. ~Skip
      BY <2>4 DEF Skip
    <3>2. ~AfterComma
      BY <2>4 DEF AfterComma
    <3>3. ~MissComma
      BY <2>5, Zenon DEF MissComma
    <3>4. ~EndRoot
      BY <1>1 DEF EndRoot
    <3> QED
      BY <3>1, <3>2, <3>3, <3>4, PlaceSteps
  <2>7. Take /\ Closes(Last(calls).count)
    BY <2>6 DEF EndObjectOrArray
  <2>8. stack' = <<<<"object", vals>>>> /\ calls' = <<>> /\ at' = "next" /\ lex' = lex
    BY <1>0, <1>4, <2>7, ObjectCloses
  <2>9. pos' = s[Len(vals) + 1]
    <3>1. s[Len(vals) + 1] \in Nat
      <4>1. Framed(bytes, vals, x, s)
        BY DEF Whole
      <4> QED
        BY <4>1, FrameOrder
    <3>2. pos' = pos + 1
      BY <2>7 DEF Take
    <3> QED
      BY <1>4, <3>1, <3>2
  <2>10. Ends(vals, s)'
    BY <2>8, <2>9 DEF Ends
  <2> QED
    BY <2>7, <2>10, TextStays DEF Follows
<1> QED
  BY <1>0, <1>3, <1>4

\* After the object the text ends.
LEMMA EndsStep ==
  ASSUME NEW vals, NEW x, NEW s, open = 0, Whole(bytes, vals, x, s), Ends(vals, s), Read
  PROVE  Follows(vals, x, s)'
<1>1. /\ at \in {"next", "parsed"} /\ pos = s[Len(vals) + 1]
      /\ calls = <<>> /\ stack = <<<<"object", vals>>>> /\ lex = NoLex
  BY DEF Ends
<1>2. Peek = NUL
  <2>1. bytes[s[Len(vals) + 1]] = NUL
    BY DEF Whole
  <2> QED
    BY <1>1, <2>1, Zenon DEF Peek
<1>3. Peek \notin Blanks
  BY <1>2, BlankOK
<1>4. at = "next"
  BY <1>1, PlaceSteps
<1>5. EndRoot
  <2>1. ~Skip
    BY <1>3 DEF Skip
  <2>2. ~AfterComma /\ ~EndObjectOrArray /\ ~MissComma
    BY <1>1 DEF AfterComma, EndObjectOrArray, MissComma
  <2> QED
    BY <1>4, <2>1, <2>2, PlaceSteps
<1>6. Stay /\ at' = "parsed" /\ UNCHANGED <<calls, lex, stack>>
  BY <1>2, <1>5 DEF EndRoot
<1>7. Ends(vals, s)'
  BY <1>1, <1>6 DEF Ends, Stay
<1> QED
  BY <1>6, <1>7, TextStays DEF Follows

\* Every step of the reader follows the writer's text.
LEMMA FollowsStep ==
  ASSUME NEW vals, NEW x, NEW s, Follows(vals, x, s), Read
  PROVE  Follows(vals, x, s)'
<1>0. open = 0 /\ Whole(bytes, vals, x, s)
  BY DEF Follows
<1>1. Len(vals) \in Nat /\ Len(vals) > 0 /\ Len(vals) % 2 = 0
  BY <1>0, WholeFacts
<1>2. CASE Begins
  BY <1>2, BeginsStep
<1>3. CASE Ends(vals, s)
  BY <1>0, <1>3, EndsStep
<1>4. ASSUME NEW n \in 0 .. Len(vals), Pushed(vals, n), Between(vals, s, n)
      PROVE  Follows(vals, x, s)'
  <2>0. lex = NoLex /\ n \in Nat
    BY <1>4 DEF Between
  <2>1. CASE at = "first" /\ n = 0 /\ pos = s[1]
    <3>1. n \in 0 .. Len(vals) - 1 /\ n % 2 = 0 /\ pos = s[n + 1]
      BY <1>1, <2>1
    <3> QED
      BY <1>0, <1>4, <2>0, <2>1, <3>1, KeyStep
  <2>2. CASE at = "next" /\ n % 2 = 0 /\ n > 0 /\ pos = s[n + 1] - 1
    BY <1>0, <1>4, <2>0, <2>2, NextStep
  <2>3. CASE at = "member" /\ n % 2 = 0 /\ n < Len(vals) /\ n > 0 /\ pos = s[n + 1]
    <3>1. n \in 0 .. Len(vals) - 1
      BY <1>1, <2>3
    <3> QED
      BY <1>0, <1>4, <2>0, <2>3, <3>1, KeyStep
  <2>4. CASE at = "colon" /\ n % 2 = 1 /\ pos = s[n + 1] - 1
    <3>1. n \in 0 .. Len(vals) - 1
      BY <1>1, <2>4
    <3> QED
      BY <1>0, <1>4, <2>0, <2>4, <3>1, ColonStep
  <2>5. CASE at = "value" /\ n % 2 = 1 /\ pos = s[n + 1]
    <3>1. n \in 0 .. Len(vals) - 1
      BY <1>1, <2>5
    <3> QED
      BY <1>0, <1>4, <2>0, <2>5, <3>1, ValueStep
  <2> QED
    BY <1>4, <2>1, <2>2, <2>3, <2>4, <2>5 DEF Between
<1>5. ASSUME NEW n \in 0 .. Len(vals), Pushed(vals, n), InString(vals, x, s, n)
      PROVE  Follows(vals, x, s)'
  <2>1. n \in 0 .. Len(vals) - 1
    <3>1. n < Len(vals)
      BY <1>5 DEF InString
    <3> QED
      BY <1>1, <3>1
  <2>2. PICK o : \E k \in 0 .. Len(vals[n + 1][2]) :
          /\ Spelled(x[n + 1], vals[n + 1][2], o)
          /\ lex = Lex(IsName(n), SubSeq(vals[n + 1][2], 1, k), No, 0)
          /\ \/ at = "string" /\ pos = s[n + 1] + o[k] - 1
             \/ /\ at = "escape" /\ pos = s[n + 1] + o[k]
                /\ k < Len(vals[n + 1][2]) /\ vals[n + 1][2][k + 1] \in DOMAIN Escaped
    BY <1>5 DEF InString
  <2>3. PICK k \in 0 .. Len(vals[n + 1][2]) :
          /\ Spelled(x[n + 1], vals[n + 1][2], o)
          /\ lex = Lex(IsName(n), SubSeq(vals[n + 1][2], 1, k), No, 0)
          /\ \/ at = "string" /\ pos = s[n + 1] + o[k] - 1
             \/ /\ at = "escape" /\ pos = s[n + 1] + o[k]
                /\ k < Len(vals[n + 1][2]) /\ vals[n + 1][2][k + 1] \in DOMAIN Escaped
    BY <2>2
  <2>4. vals[n + 1][1] = "string"
    BY <1>5 DEF InString
  <2>5. StringAt(vals, x, s, n, o, k)
    BY <1>0, <1>5, <2>1, <2>3, <2>4 DEF StringAt
  <2> QED
    BY <2>3, <2>5, StringStep, EscapeStep
<1>6. ASSUME NEW n \in 0 .. Len(vals), Pushed(vals, n), InNumber(vals, x, s, n)
      PROVE  Follows(vals, x, s)'
  <2> DEFINE i == vals[n + 1][2][1]
  <2>0. n < Len(vals) /\ n % 2 = 1 /\ vals[n + 1][1] = "int"
    BY <1>6 DEF InNumber
  <2>1. n \in 0 .. Len(vals) - 1
    BY <1>1, <2>0
  <2>2. CASE at = "sign" /\ lex = Lex(No, <<>>, Minus(i), 0) /\ pos = s[n + 1] + Sign(i)
    <3>1. Lexeme(x[n + 1], vals[n + 1])
      BY <1>0, <2>1, WholeFacts
    <3>2. PICK m, D : Counts(x[n + 1], i, m, D)
      <4>1. "int" # "string"
        OBVIOUS
      <4> QED
        BY <2>0, <3>1, <4>1, Zenon DEF Lexeme
    <3>3. IntAt(vals, x, s, n, m, D)
      BY <1>0, <1>6, <2>0, <2>1, <3>2 DEF IntAt
    <3> QED
      BY <2>2, <3>3, SignStep
  <2>3. ASSUME NEW m, NEW D, NEW j \in 1 .. m, Counts(x[n + 1], i, m, D), D[1] # 0, at = "digits",
               lex = Lex(No, <<>>, Minus(i), D[j]), pos = s[n + 1] + Sign(i) + j
        PROVE  Follows(vals, x, s)'
    <3>1. IntAt(vals, x, s, n, m, D)
      BY <1>0, <1>6, <2>0, <2>1, <2>3 DEF IntAt
    <3> QED
      BY <2>3, <3>1, DigitsStep
  <2> QED
    BY <1>6, <2>2, <2>3 DEF InNumber
<1> QED
  BY <1>2, <1>3, <1>4, <1>5, <1>6 DEF Follows

\* Names, which are strings, and values in turn.
Members(v) == Sequence(v) /\ Len(v) % 2 = 0 /\ \A i \in 1 .. Len(v) : i % 2 = 1 => v[i][1] = "string"

LEMMA MembersMore ==
  \A v, a, b : Members(v) /\ a[1] = "string" =>
    /\ Members(v \o <<a, b>>) /\ EndsInTwo(v \o <<a, b>>, v, a, b)
    /\ Append(Append(v, a), b) = v \o <<a, b>>
<1> TAKE v, a, b
<1> HAVE Members(v) /\ a[1] = "string"
<1> DEFINE w == v \o <<a, b>>
           n == Len(v)
<1>1. Sequence(v) /\ n % 2 = 0 /\ \A i \in 1 .. n : i % 2 = 1 => v[i][1] = "string"
  BY DEF Members
<1>2. Append(Append(v, a), b) = w /\ EndsInTwo(w, v, a, b)
  BY <1>1, TwoMore
<1> HIDE DEF w
<1>3. Sequence(w) /\ n \in Nat /\ Len(w) = n + 2 /\ w[n + 1] = a /\ w[n + 2] = b
      /\ \A i \in 1 .. n : w[i] = v[i]
  BY <1>2 DEF EndsInTwo
<1> HIDE DEF n
<1>4. Len(w) % 2 = 0
  BY <1>1, <1>3
<1>5. ASSUME NEW i \in 1 .. Len(w), i % 2 = 1 PROVE w[i][1] = "string"
  <2>1. i \in 1 .. n \/ i = n + 1 \/ i = n + 2
    BY <1>3
  <2>2. i # n + 2
    BY <1>1, <1>3, <1>5
  <2> QED
    BY <1>1, <1>3, <1>5, <2>1, <2>2
<1>6. Members(w)
  BY <1>3, <1>4, <1>5 DEF Members
<1> QED
  BY <1>2, <1>6 DEF w

LEMMA NoMore == ASSUME NEW v, Sequence(v) PROVE v \o <<>> = v
<1>1. PICK S : v \in Seq(S)
  BY DEF Sequence
<1> QED
  BY <1>1, ConcatEmptySeq

LEMMA FirstMember == \A a, b : Append(Append(<<>>, a), b) = <<a, b>>
<1> TAKE a, b
<1>1. <<>> \in Seq({}) /\ <<a, b>> \in Seq({a, b})
  OBVIOUS
<1>2. Sequence(<<>>)
  BY <1>1 DEF Sequence
<1>3. Append(Append(<<>>, a), b) = <<>> \o <<a, b>>
  BY <1>2, TwoMore
<1>4. <<>> \o <<a, b>> = <<a, b>>
  BY <1>1, ConcatEmptySeq, Zenon
<1> QED
  BY <1>3, <1>4, Zenon

LEMMA PairMembers == \A a, b : a[1] = "string" => Members(<<a, b>>) /\ Len(<<a, b>>) = 2
<1> TAKE a, b
<1> HAVE a[1] = "string"
<1>1. <<a, b>> \in Seq({a, b}) /\ Len(<<a, b>>) = 2 /\ <<a, b>>[1] = a
  OBVIOUS
<1>2. \A i \in 1 .. 2 : i % 2 = 1 => i = 1
  OBVIOUS
<1> DEFINE v == <<a, b>>
           S == {a, b}
<1>3. v \in Seq(S) /\ Len(v) = 2 /\ v[1][1] = "string"
  BY <1>1
<1> HIDE DEF v, S
<1>4. Sequence(v)
  BY <1>3 DEF Sequence
<1>5. Len(v) % 2 = 0
  BY <1>3
<1> QED
  BY <1>2, <1>3, <1>4, <1>5 DEF Members, v

\* The values of an answer.
StatusValues(status, contents) ==
  <<<<"string", StatusName>>, <<"int", <<status>>>>>>
  \o (IF contents = {} THEN <<>>
      ELSE <<<<"string", ContentsName>>, <<"string", CHOOSE c \in contents : TRUE>>>>)

AnswerValues(status, contents, user) ==
  StatusValues(status, contents)
  \o (IF Signed(user) = 0 THEN <<>> ELSE <<<<"string", UserName>>, <<"int", <<Signed(user)>>>>>>)

LEMMA SignedUser ==
  ASSUME NEW user \in 0 .. Width - 1
  PROVE  Signed(user) \in -Half .. Half - 1 /\ (Signed(user) = 0 <=> user = 0)
<1>1. Signed(user) \in -Half .. Half - 1
  BY IndexKept
<1>2. Signed(user) = 0 <=> user = 0
  BY WidthEven DEF Signed
<1> QED
  BY <1>1, <1>2

LEMMA NamesOK ==
  /\ StatusName \in Seq(Char \cup Blanks) /\ ContentsName \in Seq(Char \cup Blanks)
  /\ UserName \in Seq(Char \cup Blanks) /\ \A c \in Contents : c \in Seq(Char \cup Blanks)
BY ExchangeAssumption

\* What Status writes.
LEMMA StatusWrites ==
  ASSUME NEW status \in 0 .. Half - 1, NEW contents \in {{}} \cup {{c} : c \in Contents}
  PROVE  /\ Members(StatusValues(status, contents))
         /\ Len(StatusValues(status, contents)) = IF contents = {} THEN 2 ELSE 4
         /\ \E x, s : Written(Status(status, contents), StatusValues(status, contents), x, s)
<1> DEFINE a == <<"string", StatusName>>
           b == <<"int", <<status>>>>
           c == CHOOSE e \in contents : TRUE
           d == <<"string", ContentsName>>
           f == <<"string", c>>
           opened == WriteInt(WriteString(StartObject(NewWriter), StatusName), status)
           v == <<a, b>>
<1>0. status \in -Half .. Half - 1
  BY WidthEven
<1>1. PICK x, s : Written(opened, v, x, s)
  <2>1. PICK x, s : Written(opened, Append(Append(<<>>, a), b), x, s)
    BY <1>0, StartWritten, NamesOK, WriteIntMember
  <2>2. Append(Append(<<>>, a), b) = v
    BY FirstMember
  <2> QED
    BY <2>1, <2>2
<1>2. Members(v) /\ Len(v) = 2 /\ Sequence(v)
  <2>1. a[1] = "string"
    OBVIOUS
  <2> HIDE DEF a, b
  <2> QED
    BY <2>1, PairMembers DEF Members
<1>3. StatusValues(status, contents) = v \o (IF contents = {} THEN <<>> ELSE <<d, f>>)
  BY DEF StatusValues
<1>4. Status(status, contents) = IF contents = {} THEN opened
                                 ELSE WriteString(WriteString(opened, ContentsName), c)
  BY DEF Status
<1>5. contents # {} => c \in Contents
  OBVIOUS
<1>6. d[1] = "string"
  OBVIOUS
<1> HIDE DEF v, opened, c
<1>7. CASE contents = {}
  <2>1. StatusValues(status, contents) = v
    BY <1>2, <1>3, <1>7, NoMore
  <2>2. Status(status, contents) = opened
    BY <1>4, <1>7
  <2> QED
    BY <1>1, <1>2, <1>7, <2>1, <2>2
<1>8. CASE contents # {}
  <2>1. StatusValues(status, contents) = v \o <<d, f>>
    BY <1>3, <1>8
  <2>2. Status(status, contents) = WriteString(WriteString(opened, ContentsName), c)
    BY <1>4, <1>8
  <2>3. c \in Seq(Char \cup Blanks) /\ ContentsName \in Seq(Char \cup Blanks)
    BY <1>5, <1>8, NamesOK
  <2>4. PICK y, r : Written(WriteString(WriteString(opened, ContentsName), c), Append(Append(v, d), f), y, r)
    BY <1>1, <2>3, WriteStringMember
  <2> HIDE DEF d, f
  <2>7. Members(v \o <<d, f>>) /\ Append(Append(v, d), f) = v \o <<d, f>> /\ EndsInTwo(v \o <<d, f>>, v, d, f)
    BY <1>2, <1>6, MembersMore
  <2>6. Members(v \o <<d, f>>) /\ Append(Append(v, d), f) = v \o <<d, f>> /\ Len(v \o <<d, f>>) = Len(v) + 2
    BY <2>7 DEF EndsInTwo
  <2>5. Members(v \o <<d, f>>) /\ Append(Append(v, d), f) = v \o <<d, f>> /\ Len(v \o <<d, f>>) = 4
    BY <1>2, <2>6
  <2> QED
    BY <1>8, <2>1, <2>2, <2>4, <2>5
<1> QED
  BY <1>7, <1>8

\* The answer's text is the object of its values.
LEMMA AnswerText ==
  ASSUME NEW status \in 0 .. Half - 1, NEW contents \in {{}} \cup {{c} : c \in Contents},
         NEW user \in 0 .. Width - 1
  PROVE  \E x, s : ObjectText(Answer(status, contents, user), AnswerValues(status, contents, user), x, s)
<1> DEFINE v == StatusValues(status, contents)
           w == Status(status, contents)
           a == <<"string", UserName>>
           b == <<"int", <<Signed(user)>>>>
<1>1. Members(v) /\ Len(v) \in {2, 4}
  BY StatusWrites
<1>2. PICK x, s : Written(w, v, x, s)
  BY StatusWrites
<1>3. Signed(user) \in -Half .. Half - 1 /\ (Signed(user) = 0 <=> user = 0)
  BY SignedUser
<1>4. AnswerValues(status, contents, user) = v \o (IF Signed(user) = 0 THEN <<>> ELSE <<a, b>>)
  BY DEF AnswerValues
<1>5. Answer(status, contents, user)
        = EndObject(IF user = 0 THEN w ELSE WriteInt(WriteString(w, UserName), Signed(user))).os
  BY DEF Answer
<1>6. a[1] = "string"
  OBVIOUS
<1> HIDE DEF v, w
<1>7. CASE user = 0
  <2>1. AnswerValues(status, contents, user) = v
    BY <1>1, <1>3, <1>4, <1>7, NoMore DEF Members
  <2>2. Answer(status, contents, user) = EndObject(w).os
    BY <1>5, <1>7
  <2>3. ObjectText(EndObject(w).os, v, x, s)
    <3>1. Len(v) > 0 /\ Len(v) % 2 = 0 /\ \A i \in 1 .. Len(v) : i % 2 = 1 => v[i][1] = "string"
      <4>1. Len(v) > 0
        BY <1>1, SMTT(40)
      <4> QED
        BY <1>1, <4>1 DEF Members
    <3> QED
      BY <1>2, <3>1, EndWritten, Zenon
  <2> QED
    BY <2>1, <2>2, <2>3
<1>8. CASE user # 0
  <2>1. AnswerValues(status, contents, user) = v \o <<a, b>>
    BY <1>3, <1>4, <1>8
  <2>2. Answer(status, contents, user) = EndObject(WriteInt(WriteString(w, UserName), Signed(user))).os
    BY <1>5, <1>8
  <2>3. PICK y, r : Written(WriteInt(WriteString(w, UserName), Signed(user)), Append(Append(v, a), b), y, r)
    BY <1>2, <1>3, NamesOK, WriteIntMember
  <2> DEFINE u == WriteInt(WriteString(w, UserName), Signed(user))
             z == v \o <<a, b>>
  <2> HIDE DEF a, b
  <2>8. Members(z) /\ Append(Append(v, a), b) = z /\ EndsInTwo(z, v, a, b)
    BY <1>1, <1>6, MembersMore
  <2>7. Members(z) /\ Append(Append(v, a), b) = z /\ Len(z) = Len(v) + 2
    BY <2>8 DEF EndsInTwo
  <2>4. Members(z) /\ Append(Append(v, a), b) = z /\ Len(z) > 0
    BY <1>1, <2>7
  <2>5. Written(u, z, y, r)
    BY <2>3, <2>4
  <2> HIDE DEF u, z
  <2>6. ObjectText(EndObject(u).os, z, y, r)
    BY <2>4, <2>5, EndWritten DEF Members
  <2> QED
    BY <2>1, <2>2, <2>6 DEF u, z
<1> QED
  BY <1>7, <1>8

\* A request of one member: the user index.
LEMMA EchoText ==
  ASSUME NEW n \in -Half .. Half - 1
  PROVE  \E x, s : ObjectText(EndObject(WriteInt(WriteString(StartObject(NewWriter), UserName), n)).os,
                              <<<<"string", UserName>>, <<"int", <<n>>>>>>, x, s)
<1> DEFINE a == <<"string", UserName>>
           b == <<"int", <<n>>>>
           u == WriteInt(WriteString(StartObject(NewWriter), UserName), n)
           v == <<a, b>>
<1>1. PICK x, s : Written(u, Append(Append(<<>>, a), b), x, s)
  BY StartWritten, NamesOK, WriteIntMember
<1>2. Append(Append(<<>>, a), b) = v
  BY FirstMember
<1>3. Members(v) /\ Len(v) = 2
  <2>1. a[1] = "string"
    OBVIOUS
  <2> HIDE DEF a, b
  <2> QED
    BY <2>1, PairMembers
<1>4. Written(u, v, x, s)
  BY <1>1, <1>2
<1> HIDE DEF u, v
<1>5. Len(v) > 0 /\ Len(v) % 2 = 0 /\ \A i \in 1 .. Len(v) : i % 2 = 1 => v[i][1] = "string"
  BY <1>3 DEF Members
<1>6. ObjectText(EndObject(u).os, v, x, s)
  BY <1>4, <1>5, EndWritten
<1> QED
  BY <1>6 DEF u, v

\* The text with its NUL, also when it is padded.
LEMMA SentWhole ==
  ASSUME NEW t, NEW vals, NEW x, NEW s, ObjectText(t, vals, x, s)
  PROVE  LET p == PaddingDataPKCS7(Append(t, NUL))
         IN  /\ Whole(Append(t, NUL), vals, x, s) /\ Whole(p, vals, x, s) /\ Whole(Append(p, NUL), vals, x, s)
             /\ Append(t, NUL) \in Seq(Char \cup {NUL}) /\ Len(Append(t, NUL)) > 0
<1> DEFINE q == Append(t, NUL)
           p == PaddingDataPKCS7(q)
           S == Char \cup {NUL}
           r == Append(p, NUL)
<1>0. t \in Seq(Char)
  BY DEF ObjectText
<1>1. q \in Seq(S) /\ Len(q) = Len(t) + 1 /\ q[Len(t) + 1] = NUL /\ \A k \in 1 .. Len(t) : q[k] = t[k]
      /\ Len(t) \in Nat
  <2>1. t \in Seq(S) /\ NUL \in S
    BY <1>0, SeqMonotonic
  <2> QED
    BY <2>1, AppendProperties
<1>2. Whole(q, vals, x, s)
  BY <1>1, TextWhole
<1> HIDE DEF q, S
<1>3. /\ \A k \in 1 .. Len(q) : p[k] = q[k]
      /\ Len(p) = Len(q) + Remain(Len(q)) /\ Remain(Len(q)) \in 1 .. BLOCK
  BY <1>1, PaddedShape
<1>4. p[Len(t) + 1] = NUL /\ \A k \in 1 .. Len(t) : p[k] = t[k]
  BY <1>1, <1>3
<1>5. Whole(p, vals, x, s)
  <2> HIDE DEF p
  <2> QED
    BY <1>4, TextWhole
<1>6. Sequence(p)
  <2>1. p = [k \in 1 .. Len(q) + Remain(Len(q)) |->
              IF k <= Len(q) THEN q[k] ELSE PadByte[Remain(Len(q))]]
    BY DEF PaddingDataPKCS7
  <2> DEFINE n == Len(q) + Remain(Len(q))
             T == {p[k] : k \in 1 .. n}
  <2>2. n \in Nat
    BY <1>1, <1>3, PayloadAssumption
  <2>3. p = [k \in 1 .. n |-> p[k]]
    BY <2>1
  <2> HIDE DEF p, n
  <2>4. p \in [1 .. n -> T]
    BY <2>3
  <2>5. p \in Seq(T)
    BY <2>2, <2>4, SeqDef
  <2> QED
    BY <2>5 DEF Sequence
<1> HIDE DEF p
<1>7. \A k \in 1 .. Len(p) : r[k] = p[k]
  BY <1>6, AppendAny
<1>8. r[Len(t) + 1] = NUL /\ \A k \in 1 .. Len(t) : r[k] = t[k]
  <2>1. Len(p) \in Nat /\ Len(t) + 1 <= Len(p)
    BY <1>1, <1>3, PayloadAssumption
  <2> QED
    BY <1>1, <1>4, <1>7, <2>1
<1> HIDE DEF r
<1>9. Whole(r, vals, x, s)
  BY <1>8, TextWhole
<1> QED
  BY <1>1, <1>2, <1>5, <1>9 DEF q, p, r, S

-----------------------------------------------------------------------------
(* A member that is looked up.                                             *)

NoName(v, name) == \A k \in 1 .. Len(v) \div 2 : v[2 * k - 1] # <<"string", name>>

LEMMA NotFound ==
  ASSUME NEW v, NEW name, NoName(v, name)
  PROVE  ~HasMember(<<"object", v>>, name)
<1> DEFINE o == <<"object", v>>
           size == Len(v) \div 2
           named == {k \in 1 .. size : v[2 * k - 1] = <<"string", name>>}
<1>1. o[2] = v
  OBVIOUS
<1>2. named = {}
  BY DEF NoName
<1>3. FindMember(o, name) = IF named = {} THEN size ELSE (CHOOSE k \in named : \A j \in named : k <= j) - 1
  BY <1>1 DEF FindMember
<1> HIDE DEF named, o
<1>4. FindMember(o, name) = size
  BY <1>2, <1>3
<1>5. ~(size < size)
  <2>1. size \in Int \/ size \notin Int
    OBVIOUS
  <2> QED
    OBVIOUS
<1> QED
  BY <1>1, <1>4, <1>5 DEF HasMember, o

LEMMA Found ==
  ASSUME NEW v, NEW name, Len(v) \in Nat, NEW K \in 1 .. Len(v) \div 2,
         v[2 * K - 1] = <<"string", name>>, \A j \in 1 .. K - 1 : v[2 * j - 1] # <<"string", name>>
  PROVE  HasMember(<<"object", v>>, name) /\ Member(<<"object", v>>, name) = v[2 * K]
<1> DEFINE o == <<"object", v>>
           size == Len(v) \div 2
           named == {k \in 1 .. size : v[2 * k - 1] = <<"string", name>>}
           first == CHOOSE k \in named : \A j \in named : k <= j
<1>1. o[2] = v
  OBVIOUS
<1>2. size \in Nat /\ K \in Nat /\ K <= size /\ K >= 1
  OBVIOUS
<1>3. K \in named
  OBVIOUS
<1>4. \A k \in named : k \in 1 .. size /\ ~(k \in 1 .. K - 1)
  OBVIOUS
<1>5. FindMember(o, name) = IF named = {} THEN size ELSE first - 1
  BY <1>1 DEF FindMember
<1> HIDE DEF named, o, size
<1>6. \A k \in named : k \in Nat /\ K <= k
  BY <1>2, <1>4
<1>7. first = K
  <2>1. \A k \in named : (\A j \in named : k <= j) => k = K
    BY <1>2, <1>3, <1>6
  <2>2. K \in named /\ \A j \in named : K <= j
    BY <1>3, <1>6
  <2> QED
    BY <2>1, <2>2
<1> HIDE DEF first
<1>8. FindMember(o, name) = K - 1
  BY <1>3, <1>5, <1>7
<1>9. HasMember(o, name)
  BY <1>1, <1>2, <1>8 DEF HasMember, size
<1>10. Member(o, name) = v[2 * K]
  <2>1. 2 * (K - 1) + 2 = 2 * K
    BY <1>2
  <2>2. Member(o, name) = v[2 * FindMember(o, name) + 2]
    BY <1>1 DEF Member
  <2> QED
    BY <1>8, <2>1, <2>2
<1> QED
  BY <1>9, <1>10 DEF o

LEMMA SameString == \A a, b : <<"string", a>> = <<"string", b>> => a = b
<1> TAKE a, b
<1> HAVE <<"string", a>> = <<"string", b>>
<1>1. <<"string", a>>[2] = <<"string", b>>[2]
  OBVIOUS
<1> QED
  BY <1>1

\* The status and the contents of the file are no user index.
LEMMA StatusNames ==
  ASSUME NEW status \in 0 .. Half - 1, NEW contents \in {{}} \cup {{c} : c \in Contents}
  PROVE  NoName(StatusValues(status, contents), UserName)
<1> DEFINE a == <<"string", StatusName>>
           b == <<"int", <<status>>>>
           d == <<"string", ContentsName>>
           f == <<"string", CHOOSE c \in contents : TRUE>>
           v == <<a, b>>
           u == <<"string", UserName>>
           w == StatusValues(status, contents)
<1>1. a # u /\ d # u
  BY SameString, ExchangeAssumption
<1>2. w = v \o (IF contents = {} THEN <<>> ELSE <<d, f>>)
  BY DEF StatusValues
<1>3. a[1] = "string" /\ d[1] = "string"
  OBVIOUS
<1>4. v[1] = a
  OBVIOUS
<1>5. Len(w) = IF contents = {} THEN 2 ELSE 4
  BY StatusWrites
<1>n. NoName(w, UserName) <=> \A k \in 1 .. Len(w) \div 2 : w[2 * k - 1] # u
  BY DEF NoName
<1> HIDE DEF a, b, d, f, w, u
<1>6. Members(v) /\ Len(v) = 2
  BY <1>3, PairMembers
<1> HIDE DEF v
<1>7. CASE contents = {}
  <2>1. w = v
    BY <1>2, <1>6, <1>7, NoMore DEF Members
  <2>2. \A k \in 1 .. Len(w) \div 2 : 2 * k - 1 = 1
    BY <1>5, <1>7
  <2>3. w[1] # u
    BY <1>1, <1>4, <2>1
  <2>4. \A k \in 1 .. Len(w) \div 2 : w[2 * k - 1] # u
    BY <2>2, <2>3
  <2> QED
    BY <1>n, <2>4 DEF w
<1>8. CASE contents # {}
  <2>1. w = v \o <<d, f>>
    BY <1>2, <1>8
  <2>2. EndsInTwo(w, v, d, f)
    BY <1>3, <1>6, <2>1, MembersMore
  <2>3. w[1] = a /\ w[3] = d
    <3>1. Len(v) + 1 = 3 /\ 1 \in 1 .. Len(v)
      BY <1>6
    <3> QED
      BY <1>4, <2>2, <3>1 DEF EndsInTwo
  <2>4. \A k \in 1 .. Len(w) \div 2 : 2 * k - 1 = 1 \/ 2 * k - 1 = 3
    BY <1>5, <1>8
  <2>5. w[1] # u /\ w[3] # u
    BY <1>1, <2>3
  <2>6. \A k \in 1 .. Len(w) \div 2 : w[2 * k - 1] # u
    BY <2>4, <2>5
  <2> QED
    BY <1>n, <2>6 DEF w
<1> QED
  BY <1>7, <1>8 DEF w

LEMMA AnswerMember ==
  ASSUME NEW status \in 0 .. Half - 1, NEW contents \in {{}} \cup {{c} : c \in Contents},
         NEW user \in 0 .. Width - 1
  PROVE  LET o == <<"object", AnswerValues(status, contents, user)>>
         IN  IF user = 0 THEN ~HasMember(o, UserName)
             ELSE HasMember(o, UserName) /\ Member(o, UserName) = <<"int", <<Signed(user)>>>>
<1> DEFINE v == StatusValues(status, contents)
           w == AnswerValues(status, contents, user)
           a == <<"string", UserName>>
           b == <<"int", <<Signed(user)>>>>
<1>1. Members(v) /\ Len(v) \in {2, 4}
  BY StatusWrites
<1>2. NoName(v, UserName)
  BY StatusNames
<1>3. Signed(user) = 0 <=> user = 0
  BY SignedUser
<1>4. w = v \o (IF Signed(user) = 0 THEN <<>> ELSE <<a, b>>)
  BY DEF AnswerValues
<1>5. a[1] = "string"
  OBVIOUS
<1>n. \A k \in 1 .. Len(v) \div 2 : v[2 * k - 1] # a
  BY <1>2 DEF NoName
<1> HIDE DEF v, w, b
<1>6. CASE user = 0
  <2>1. w = v
    BY <1>1, <1>3, <1>4, <1>6, NoMore DEF Members
  <2>2. ~HasMember(<<"object", w>>, UserName)
    BY <1>2, <2>1, NotFound
  <2> QED
    BY <1>6, <2>2 DEF w
<1>7. CASE user # 0
  <2>1. w = v \o <<a, b>>
    BY <1>3, <1>4, <1>7
  <2>2. EndsInTwo(w, v, a, b)
    BY <1>1, <1>5, <2>1, MembersMore
  <2> DEFINE K == Len(v) \div 2 + 1
  <2>3. /\ Len(w) = Len(v) + 2 /\ \A i \in 1 .. Len(v) : w[i] = v[i]
        /\ w[Len(v) + 1] = a /\ w[Len(v) + 2] = b
    BY <2>2 DEF EndsInTwo
  <2>4. /\ 2 * K - 1 = Len(v) + 1 /\ 2 * K = Len(v) + 2 /\ K \in 1 .. Len(w) \div 2 /\ Len(w) \in Nat
        /\ \A j \in 1 .. K - 1 : j \in 1 .. Len(v) \div 2 /\ 2 * j - 1 \in 1 .. Len(v)
    <3> DEFINE L == Len(v)
    <3>1. L \in {2, 4} /\ Len(w) = L + 2 /\ K = L \div 2 + 1
      BY <1>1, <2>3
    <3> HIDE DEF K, L
    <3>2. /\ 2 * K - 1 = L + 1 /\ 2 * K = L + 2 /\ K \in 1 .. Len(w) \div 2 /\ Len(w) \in Nat
          /\ \A j \in 1 .. K - 1 : j \in 1 .. L \div 2 /\ 2 * j - 1 \in 1 .. L
      <4>1. CASE L = 2
        BY <3>1, <4>1
      <4>2. CASE L = 4
        BY <3>1, <4>2
      <4> QED
        BY <3>1, <4>1, <4>2
    <3> QED
      BY <3>2 DEF L
  <2> HIDE DEF K
  <2>5. w[2 * K - 1] = <<"string", UserName>> /\ w[2 * K] = b
    BY <2>3, <2>4
  <2>6. \A j \in 1 .. K - 1 : w[2 * j - 1] # <<"string", UserName>>
    BY <1>n, <2>3, <2>4
  <2>7. HasMember(<<"object", w>>, UserName) /\ Member(<<"object", w>>, UserName) = w[2 * K]
    BY <2>4, <2>5, <2>6, Found
  <2> QED
    BY <1>7, <2>5, <2>7 DEF w, b
<1> QED
  BY <1>6, <1>7

EchoValues(n) == <<<<"string", UserName>>, <<"int", <<n>>>>>>

LEMMA EchoMember ==
  ASSUME NEW n
  PROVE  HasMember(<<"object", EchoValues(n)>>, UserName)
         /\ Member(<<"object", EchoValues(n)>>, UserName) = <<"int", <<n>>>>
<1> DEFINE v == EchoValues(n)
           K == 1
<1>1. Len(v) = 2 /\ v[1] = <<"string", UserName>> /\ v[2] = <<"int", <<n>>>>
  BY DEF EchoValues
<1> HIDE DEF v
<1>2. K \in 1 .. Len(v) \div 2 /\ 2 * K - 1 = 1 /\ 2 * K = 2 /\ \A j \in 1 .. K - 1 : FALSE
  BY <1>1
<1> HIDE DEF K
<1>3. v[2 * K - 1] = <<"string", UserName>> /\ \A j \in 1 .. K - 1 : v[2 * j - 1] # <<"string", UserName>>
  BY <1>1, <1>2
<1>4. Len(v) \in Nat
  BY <1>1
<1>5. HasMember(<<"object", v>>, UserName) /\ Member(<<"object", v>>, UserName) = v[2 * K]
  BY <1>2, <1>3, <1>4, Found
<1> QED
  BY <1>1, <1>2, <1>5 DEF v

-----------------------------------------------------------------------------
(* The exchange.                                                           *)

LEMMA StartFollows ==
  ASSUME NEW text, NEW vals, NEW x, NEW s, Whole(text, vals, x, s), Starts(text, 0)
  PROVE  Follows(vals, x, s)'
<1>1. /\ bytes' = text /\ open' = 0 /\ pos' = 1 /\ at' = "root" /\ calls' = <<>> /\ lex' = NoLex
      /\ stack' = <<>>
  BY DEF Starts
<1>2. Whole(bytes, vals, x, s)'
  BY <1>1
<1>3. Begins'
  BY <1>1 DEF Begins
<1> QED
  BY <1>1, <1>2, <1>3 DEF Follows

\* When the reader stops, the document is what was written.
LEMMA Followed ==
  ASSUME NEW vals, NEW x, NEW s, Follows(vals, x, s), ~Busy
  PROVE  at = "parsed" /\ Doc = <<"object", vals>>
<1>1. at \in {"parsed", "failed"}
  BY DEF Busy
<1>2. ~Begins
  BY <1>1 DEF Begins
<1>3. \A n : ~Between(vals, s, n) /\ ~InString(vals, x, s, n) /\ ~InNumber(vals, x, s, n)
  BY <1>1 DEF Between, InString, InNumber
<1>4. Ends(vals, s)
  BY <1>2, <1>3 DEF Follows
<1>5. at = "parsed" /\ stack = <<<<"object", vals>>>>
  BY <1>1, <1>4 DEF Ends
<1> QED
  BY <1>5 DEF Doc

LEMMA FollowingKept ==
  ASSUME NEW vals, NEW x, NEW s, Follows(vals, x, s), UNCHANGED reading
  PROVE  Follows(vals, x, s)'
BY ZenonT(40) DEF Follows, Begins, Between, InString, InNumber, Ends, Pushed, reading

\* What the reader reads is what was written.
AnswerInv ==
  /\ stage = "idle" => answer = NoAnswer
  /\ stage = "client" =>
       /\ answer.status \in 0 .. Half - 1 /\ answer.contents \in {{}} \cup {{c} : c \in Contents}
       /\ answer.user \in 0 .. Width - 1
       /\ \E x, s : Follows(AnswerValues(answer.status, answer.contents, answer.user), x, s)
  /\ stage = "server" /\ answer # NoAnswer =>
       /\ command = "start" /\ answer.user \in 0 .. Width - 1
       /\ \E x, s : Follows(EchoValues(Signed(answer.user)), x, s)
  /\ stage = "dispatched" /\ answer # NoAnswer =>
       command = "start" /\ form = "complete" /\ user_id = answer.user

LEMMA WriteAnswerKeeps == ASSUME AnswerInv, WriteAnswer PROVE AnswerInv'
<1>1. PICK status \in Statuses, user \in 0 .. Width - 1,
           contents \in {{}} \cup {{c} : c \in Contents}, encrypted \in BOOLEAN :
        LET text == Append(Answer(status, contents, user), NUL)
        IN  /\ answer' = [status |-> status, contents |-> contents, user |-> user]
            /\ Starts(IF encrypted THEN PaddingDataPKCS7(text) ELSE text, 0)
  BY DEF WriteAnswer
<1> DEFINE t == Answer(status, contents, user)
           v == AnswerValues(status, contents, user)
<1>2. status \in 0 .. Half - 1
  BY ExchangeAssumption
<1>3. PICK x, s : ObjectText(t, v, x, s)
  BY <1>2, AnswerText
<1>4. Starts(Append(t, NUL), 0) \/ Starts(PaddingDataPKCS7(Append(t, NUL)), 0)
  BY <1>1
<1>5. answer'.status = status /\ answer'.contents = contents /\ answer'.user = user
  BY <1>1
<1>6. stage' = "client"
  BY DEF WriteAnswer
<1> HIDE DEF t, v
<1>7. Follows(v, x, s)'
  BY <1>3, <1>4, SentWhole, StartFollows
<1>8. v = AnswerValues(answer'.status, answer'.contents, answer'.user)
  BY <1>5 DEF v
<1> QED
  BY <1>2, <1>5, <1>6, <1>7, <1>8 DEF AnswerInv

\* What a client sends back does decrypt.
LEMMA EchoDecrypts ==
  ASSUME NEW Byte, NEW q \in Seq(Byte), Len(q) > 0
  PROVE  LET p == PaddingDataPKCS7(q)
         IN  DecryptData(p) # 0 /\ Len(p) # DecryptData(p)
<1> DEFINE p == PaddingDataPKCS7(q)
           r == Remain(Len(q))
<1>1. r \in 1 .. BLOCK /\ Len(p) = Len(q) + r /\ Len(q) \in Nat
  BY PaddedShape
<1>2. UnPaddingDataPKCS7(p) = Len(q)
  BY PaddingUndone
<1>3. (Len(q) + r) % BLOCK = 0
  BY <1>1, WholeBlocks
<1> HIDE DEF p, r
<1>4. BLOCK \in Nat
  BY PayloadAssumption
<1>5. Len(p) > 0 /\ Len(p) # Len(q) /\ Len(q) # 0 /\ Len(p) % BLOCK = 0
  BY <1>1, <1>3, <1>4
<1>6. p # <<>>
  BY <1>5
<1>7. DecryptData(p) = Len(q)
  BY <1>2, <1>5, <1>6 DEF DecryptData
<1> QED
  BY <1>5, <1>7 DEF p

LEMMA PaddedBytes ==
  \A text \in Seq(Char \cup {NUL}) : PaddingDataPKCS7(text) \in Seq(Bytes \cup {NUL})
<1> SUFFICES ASSUME NEW text \in Seq(Char \cup {NUL})
             PROVE  PaddingDataPKCS7(text) \in Seq(Bytes \cup {NUL})
  OBVIOUS
<1> DEFINE r == Remain(Len(text))
<1>1. Len(text) \in Nat /\ r \in 1 .. BLOCK /\ BLOCK \in Nat
  BY RemainRange, PayloadAssumption
<1>2. PadByte[r] \in Bytes /\ Char \cup {NUL} \subseteq Bytes \cup {NUL}
  BY <1>1 DEF Bytes, Control
<1>3. Len(text) + r \in Nat
  BY <1>1
<1>4. \A k \in 1 .. Len(text) + r : k <= Len(text) => text[k] \in Char \cup {NUL}
  BY <1>1
<1> HIDE DEF r
<1>5. [k \in 1 .. Len(text) + r |-> IF k <= Len(text) THEN text[k] ELSE PadByte[r]]
        \in [1 .. Len(text) + r -> Bytes \cup {NUL}]
  BY <1>2, <1>4
<1>6. PaddingDataPKCS7(text) = [k \in 1 .. Len(text) + r |-> IF k <= Len(text) THEN text[k] ELSE PadByte[r]]
  BY DEF PaddingDataPKCS7, r
<1> QED
  BY <1>3, <1>5, <1>6, IsASeq

PacketBytes == packet \in Seq(Bytes \cup {NUL})

LEMMA ClientSendsKeeps == ASSUME AnswerInv, ClientSends PROVE AnswerInv' /\ PacketBytes'
<1> DEFINE status == answer.status
           contents == answer.contents
           user == answer.user
           v == AnswerValues(status, contents, user)
           i == Signed(user)
           p == PaddingDataPKCS7(Append(Echo, NUL))
<1>1. /\ stage = "client" /\ at = "parsed" /\ HasMember(Doc, UserName)
      /\ Decrypts(p) /\ answer' = answer
  BY DEF ClientSends
<1>2. /\ status \in 0 .. Half - 1 /\ contents \in {{}} \cup {{c} : c \in Contents}
      /\ user \in 0 .. Width - 1 /\ \E x, s : Follows(v, x, s)
  BY <1>1 DEF AnswerInv
<1>3. Doc = <<"object", v>>
  <2>1. ~Busy
    BY <1>1 DEF Busy
  <2> QED
    BY <1>2, <2>1, Followed
<1>4. user # 0 /\ Member(Doc, UserName) = <<"int", <<i>>>>
  <2>1. LET o == <<"object", AnswerValues(status, contents, user)>>
        IN  IF user = 0 THEN ~HasMember(o, UserName)
            ELSE HasMember(o, UserName) /\ Member(o, UserName) = <<"int", <<Signed(user)>>>>
    BY <1>2, AnswerMember
  <2> QED
    BY <1>1, <1>3, <2>1
<1>5. i \in -Half .. Half - 1
  BY <1>2, SignedUser
<1> HIDE DEF status, contents, v, i
<1>6. Echo = EndObject(WriteInt(WriteString(StartObject(NewWriter), UserName), i)).os
  <2> DEFINE found == CHOOSE n \in -Width .. Width : Member(Doc, UserName) = <<"int", <<n>>>>
  <2>1. \A n : <<"int", <<n>>>> = <<"int", <<i>>>> => n = i
    OBVIOUS
  <2>2. i \in -Width .. Width
    BY <1>5, WidthEven
  <2>3. found = i
    BY <1>4, <2>1, <2>2
  <2> HIDE DEF found
  <2>4. Echo = EndObject(WriteInt(WriteString(StartObject(NewWriter), UserName), found)).os
    BY DEF Echo, found
  <2> QED
    BY <2>3, <2>4
<1>7. PICK x, s : ObjectText(Echo, EchoValues(i), x, s)
  BY <1>5, <1>6, EchoText DEF EchoValues
<1>8. /\ Whole(Append(p, NUL), EchoValues(i), x, s)
      /\ Append(Echo, NUL) \in Seq(Char \cup {NUL}) /\ Len(Append(Echo, NUL)) > 0
  BY <1>7, SentWhole
<1>9. DecryptData(p) # 0 /\ Len(p) # DecryptData(p)
  BY <1>8, EchoDecrypts
<1> HIDE DEF p
<1>10. command' = "start" /\ stage' = "server" /\ Starts(Append(p, NUL), 0)
  BY <1>1, <1>9 DEF Decrypts
<1>11. PICK text, vals : text = Append(p, NUL) /\ vals = EchoValues(i)
  OBVIOUS
<1>12. Whole(text, vals, x, s) /\ Starts(text, 0)
  BY <1>8, <1>10, <1>11
<1>13. Follows(vals, x, s)'
  BY <1>12, StartFollows
<1>14. vals = EchoValues(Signed(answer'.user)) /\ answer'.user \in 0 .. Width - 1
  BY <1>1, <1>2, <1>11 DEF i
<1>15. packet' = p
  BY <1>1 DEF Decrypts, p
<1>16. p \in Seq(Bytes \cup {NUL})
  BY <1>8, PaddedBytes DEF p
<1> QED
  BY <1>10, <1>13, <1>14, <1>15, <1>16 DEF AnswerInv, PacketBytes

LEMMA DispatchKeeps == ASSUME AnswerInv, Dispatch PROVE AnswerInv'
<1>1. stage = "server" /\ ~Busy /\ stage' = "dispatched" /\ answer' = answer /\ command' = command
  BY DEF Dispatch
<1>2. ASSUME answer # NoAnswer
      PROVE  command = "start" /\ form' = "complete" /\ user_id' = answer.user
  <2> DEFINE i == Signed(answer.user)
  <2>1. command = "start" /\ answer.user \in 0 .. Width - 1 /\ \E x, s : Follows(EchoValues(i), x, s)
    BY <1>1, <1>2 DEF AnswerInv
  <2>2. Unsigned(i) = answer.user
    BY <2>1, IndexKept
  <2> HIDE DEF i
  <2>3. Doc = <<"object", EchoValues(i)>>
    BY <1>1, <2>1, Followed
  <2>4. HasMember(Doc, UserName) /\ Member(Doc, UserName) = <<"int", <<i>>>>
    BY <2>3, EchoMember
  <2>5. Doc[1] = "object" /\ Member(Doc, UserName)[1] = "int" /\ Member(Doc, UserName)[2][1] = i
    BY <2>3, <2>4
  <2>6. command # "quit"
    BY <2>1
  <2>7. form' = "complete" /\ user_id' = Unsigned(Member(Doc, UserName)[2][1])
    BY <2>4, <2>5, <2>6 DEF Dispatch
  <2> QED
    BY <2>1, <2>2, <2>5, <2>7
<1> QED
  BY <1>1, <1>2 DEF AnswerInv

LEMMA AnswerStep == AnswerInv /\ [Next]_vars => AnswerInv'
<1> SUFFICES ASSUME AnswerInv, [Next]_vars PROVE AnswerInv'
  OBVIOUS
<1>1. CASE Request \/ SealedRequest
  <2>1. stage = "idle" /\ stage' = "server" /\ answer' = answer
    BY <1>1 DEF Request, SealedRequest, Decrypts
  <2> QED
    BY <2>1 DEF AnswerInv
<1>2. CASE Reads
  <2>1. Read /\ UNCHANGED <<stage, answer, packet, command, form, user_id>>
    BY <1>2 DEF Reads
  <2>2. \A vals : (\E x, s : Follows(vals, x, s)) => \E x, s : Follows(vals, x, s)'
    BY <2>1, FollowsStep
  <2> QED
    BY <2>1, <2>2 DEF AnswerInv
<1>3. CASE UNCHANGED vars
  <2>1. UNCHANGED reading /\ UNCHANGED <<stage, answer, packet, command, form, user_id>>
    BY <1>3 DEF vars
  <2>2. \A vals : (\E x, s : Follows(vals, x, s)) => \E x, s : Follows(vals, x, s)'
    BY <2>1, FollowingKept
  <2> QED
    BY <2>1, <2>2 DEF AnswerInv
<1> QED
  BY <1>1, <1>2, <1>3, WriteAnswerKeeps, ClientSendsKeeps, DispatchKeeps DEF Next

\* The client reads the status, the file and the user index that the server wrote, and the
\* index that the client sends back names the same user.
THEOREM AnswerCorrect == Spec => []AnswerKept
<1>1. Init => AnswerInv
  BY DEF Init, AnswerInv
<1>2. AnswerInv => AnswerKept
  <2> SUFFICES ASSUME AnswerInv PROVE AnswerKept
    OBVIOUS
  <2> DEFINE v == AnswerValues(answer.status, answer.contents, answer.user)
  <2>1. stage = "client" /\ ~Busy => Doc = <<"object", v>>
    BY Followed DEF AnswerInv
  <2> QED
    BY <2>1 DEF AnswerInv, AnswerKept, AnswerValues, StatusValues
<1> QED
  BY <1>1, <1>2, AnswerStep, PTL DEF Spec
-----------------------------------------------------------------------------
\* Packets are bytes: the sender's own, or a text with its NUL and its padding.
LEMMA PacketStep == AnswerInv /\ PacketBytes /\ [Next]_vars => PacketBytes'
<1> SUFFICES ASSUME AnswerInv, PacketBytes, [Next]_vars PROVE PacketBytes'
  OBVIOUS
<1>1. CASE SealedRequest
  <2>1. PICK n \in 0 .. BLOCK * MaxBlocks : \E p \in [1 .. n -> SealedBytes] : Decrypts(p)
    BY <1>1 DEF SealedRequest
  <2>2. PICK p \in [1 .. n -> SealedBytes] : packet' = p
    BY <2>1 DEF Decrypts
  <2>3. n \in Nat
    OBVIOUS
  <2>4. \A k \in 1 .. n : p[k] \in Bytes \cup {NUL}
    BY ExchangeAssumption
  <2>5. p \in [1 .. n -> Bytes \cup {NUL}]
    BY <2>2, <2>4
  <2> QED
    BY <2>2, <2>3, <2>5, IsASeq DEF PacketBytes
<1>2. CASE ClientSends
  BY <1>2, ClientSendsKeeps
<1>3. CASE Request \/ WriteAnswer \/ Dispatch \/ Reads \/ UNCHANGED vars
  <2>1. packet' = packet
    BY <1>3 DEF Request, WriteAnswer, Dispatch, Reads, vars
  <2> QED
    BY <2>1 DEF PacketBytes
<1> QED
  BY <1>1, <1>2, <1>3 DEF Next

\* When dispatch_command has a packet of the encrypted build, whoever sent it, it goes on to
\* parse exactly if a text was padded into it, and else ends the session
\* (net_connect.cc:305-311): the length alone tells.  An empty packet that is not refused is
\* a request of the clear build.
SealedOnly == stage \in {"server", "dispatched"} /\ ~(packet = <<>> /\ command = "start")
                => (command = "start" <=> Sealed)

\* Packets nobody padded a text into are refused, and no others.
THEOREM SealedOnlyCorrect == Spec => []SealedOnly
<1>1. Init => SealInv /\ AnswerInv /\ PacketBytes
  BY EmptySeq DEF Init, SealInv, AnswerInv, PacketBytes
<1>2. SealInv /\ PacketBytes => SealedOnly
  BY DEF SealInv, Told, SealedOnly, PacketBytes
<1> QED
  BY <1>1, <1>2, SealStep, AnswerStep, PacketStep, PTL DEF Spec

-----------------------------------------------------------------------------
(* What has been read, put together from parts.  The text is JSON as far   *)
(* as the parts are, and the document's stack holds the values of those    *)
(* that are whole.                                                         *)

LEMMA Regrouped == \A C : \A x, y, z \in Seq(C) : (x \o y) \o z = x \o (y \o z)
BY ConcatAssociative

LEMMA OneMore == \A C : \A x \in Seq(C) : \A e \in C :
  Append(x, e) = x \o <<e>> /\ Append(x, e) \in Seq(C) /\ <<e>> \in Seq(C)
BY AppendIsConcat, AppendProperties

LEMMA MoreOnRight == \A C : \A x, y \in Seq(C) : \A e \in C :
  Append(x \o y, e) = x \o Append(y, e) /\ x \o y \in Seq(C)
<1> TAKE C
<1> TAKE x, y \in Seq(C)
<1> TAKE e \in C
<1>1. x \o y \in Seq(C) /\ <<e>> \in Seq(C)
  BY ConcatProperties
<1>2. Append(x \o y, e) = (x \o y) \o <<e>> /\ Append(y, e) = y \o <<e>>
  BY <1>1, OneMore
<1>3. (x \o y) \o <<e>> = x \o (y \o <<e>>)
  BY <1>1, Regrouped
<1> QED
  BY <1>1, <1>2, <1>3

\* A word that is not empty ends in a byte.
LEMMA LastByte == \A C : \A n \in Nat : \A x \in Seq(C) : Len(x) = n + 1 =>
  \E y \in Seq(C) : \E e \in C : Len(y) = n /\ x = Append(y, e)
<1> TAKE C
<1> TAKE n \in Nat
<1> TAKE x \in Seq(C)
<1> HAVE Len(x) = n + 1
<1>1. x # <<>>
  BY EmptySeq
<1>2. PICK y \in Seq(C) : \E e \in C : x = Append(y, e)
  BY <1>1, SequenceEmptyOrAppend
<1>3. PICK e \in C : x = Append(y, e)
  BY <1>2
<1>4. Len(x) = Len(y) + 1 /\ Len(y) \in Nat
  BY <1>3, AppendProperties, LenProperties
<1> QED
  BY <1>3, <1>4

\* Blanks mean nothing, alone or before a value or name.
Blank(chars, b) == b \in Seq(chars \cap Blanks)

LEMMA BlankIn ==
  ASSUME NEW chars, NEW max \in Nat
  PROVE  \A b : Blank(chars, b) => b \in Seq(chars) /\ In(chars, max, "blanks", b, <<>>)
<1> DEFINE B == chars \cap Blanks
           P == {n \in Nat : \A b \in Seq(B) : Len(b) = n => In(chars, max, "blanks", b, <<>>)}
<1>1. 0 \in P
  <2>1. ASSUME NEW b \in Seq(B), Len(b) = 0 PROVE In(chars, max, "blanks", b, <<>>)
    <3>1. b = <<>>
      BY <2>1, EmptySeq
    <3> QED
      BY <3>1, NoBlanks
  <2> QED
    BY <2>1
<1>2. ASSUME NEW n \in Nat, n \in P PROVE n + 1 \in P
  <2>1. ASSUME NEW b \in Seq(B), Len(b) = n + 1 PROVE In(chars, max, "blanks", b, <<>>)
    <3>1. PICK y \in Seq(B) : \E e \in B : Len(y) = n /\ b = Append(y, e)
      BY <2>1, LastByte
    <3>2. PICK e \in B : Len(y) = n /\ b = Append(y, e)
      BY <3>1
    <3>3. In(chars, max, "blanks", y, <<>>)
      BY <1>2, <3>2
    <3> QED
      BY <3>2, <3>3, MoreBlanks
  <2> QED
    BY <2>1
<1>3. Nat \subseteq P
  <2> HIDE DEF P
  <2> QED
    BY <1>1, <1>2, Induction
<1>4. ASSUME NEW b \in Seq(B) PROVE In(chars, max, "blanks", b, <<>>)
  <2>1. Len(b) \in Nat
    OBVIOUS
  <2> QED
    BY <1>3, <2>1
<1> QED
  BY <1>4 DEF Blank, In

LEMMA Lead ==
  ASSUME NEW chars, NEW max \in Nat, NEW f \in Spaceable
  PROVE  \A b, u, v : Blank(chars, b) /\ In(chars, max, f, u, v) => In(chars, max, f, b \o u, v)
<1> DEFINE B == chars \cap Blanks
           P == {n \in Nat : \A b \in Seq(B) : Len(b) = n =>
                   \A u, v : In(chars, max, f, u, v) => In(chars, max, f, b \o u, v)}
<1>0. B \subseteq chars
  OBVIOUS
<1>1. 0 \in P
  <2>1. ASSUME NEW b \in Seq(B), Len(b) = 0, NEW u, NEW v, In(chars, max, f, u, v)
        PROVE  In(chars, max, f, b \o u, v)
    <3>1. b = <<>> /\ u \in Seq(chars)
      BY <2>1, EmptySeq DEF In
    <3>2. b \o u = u
      BY <3>1, ConcatEmptySeq
    <3> QED
      BY <2>1, <3>2
  <2> QED
    BY <2>1
<1>2. ASSUME NEW n \in Nat, n \in P PROVE n + 1 \in P
  <2>1. ASSUME NEW b \in Seq(B), Len(b) = n + 1, NEW u, NEW v, In(chars, max, f, u, v)
        PROVE  In(chars, max, f, b \o u, v)
    <3>1. PICK y \in Seq(B) : \E e \in B : Len(y) = n /\ b = Append(y, e)
      BY <2>1, LastByte, SMTT(40)
    <3>2. PICK e \in B : Len(y) = n /\ b = Append(y, e)
      BY <3>1
    <3>3. In(chars, max, f, <<e>> \o u, v)
      BY <2>1, MoreSpace
    <3>4. In(chars, max, f, y \o (<<e>> \o u), v)
      BY <1>2, <3>2, <3>3
    <3>5. y \in Seq(chars) /\ <<e>> \in Seq(chars) /\ u \in Seq(chars) /\ b = y \o <<e>>
      BY <1>0, <2>1, <3>2, SeqMonotonic, OneMore DEF In
    <3>6. b \o u = y \o (<<e>> \o u)
      BY <3>5, Regrouped
    <3> QED
      BY <3>4, <3>6
  <2> QED
    BY <2>1
<1>3. Nat \subseteq P
  <2> HIDE DEF P
  <2> QED
    BY <1>1, <1>2, Induction
<1>4. ASSUME NEW b \in Seq(B), NEW u, NEW v, In(chars, max, f, u, v) PROVE In(chars, max, f, b \o u, v)
  <2>1. Len(b) \in Nat
    OBVIOUS
  <2> QED
    BY <1>3, <1>4, <2>1
<1> QED
  BY <1>4 DEF Blank

-----------------------------------------------------------------------------
LEMMA SameSet ==
  ASSUME NEW x, NEW y, Sequence(x), Sequence(y)
  PROVE  \E S : x \in Seq(S) /\ y \in Seq(S)
<1>1. PICK S : x \in Seq(S)
  BY DEF Sequence
<1>2. PICK T : y \in Seq(T)
  BY DEF Sequence
<1>3. x \in Seq(S \cup T) /\ y \in Seq(S \cup T)
  BY <1>1, <1>2, SeqMonotonic
<1> QED
  BY <1>3

\* Sequences of any elements, with one and two more.
LEMMA OneAfter ==
  ASSUME NEW x, Sequence(x), NEW e
  PROVE  Append(x, e) = x \o <<e>> /\ Sequence(Append(x, e))
<1>1. Sequence(<<e>>)
  BY Single
<1>2. PICK S : x \in Seq(S) /\ <<e>> \in Seq(S)
  BY <1>1, SameSet
<1> DEFINE T == S \cup {e}
<1>3. x \in Seq(T) /\ e \in T
  BY <1>2, SeqMonotonic
<1> HIDE DEF T
<1>4. Append(x, e) = x \o <<e>>
  BY <1>3, OneMore
<1> QED
  BY <1>4, AppendAny

LEMMA TwoAfter ==
  ASSUME NEW x, Sequence(x), NEW d, NEW e
  PROVE  Append(Append(x, d), e) = x \o (<<d>> \o <<e>>)
<1>1. PICK S : x \in Seq(S)
  BY DEF Sequence
<1> DEFINE T == S \cup {d, e}
<1>2. x \in Seq(T) /\ d \in T /\ e \in T
  BY <1>1, SeqMonotonic
<1> HIDE DEF T
<1>3. <<d>> \in Seq(T) /\ <<e>> \in Seq(T) /\ Append(x, d) \in Seq(T) /\ Append(x, d) = x \o <<d>>
  BY <1>2, OneMore
<1>4. Append(Append(x, d), e) = (x \o <<d>>) \o <<e>>
  BY <1>2, <1>3, OneMore
<1> QED
  BY <1>2, <1>3, <1>4, Regrouped

\* What has been read of an object when a member's name may follow, and of an object, array
\* or text when a value may.
KeyBefore(chars, max, r, vals) ==
  /\ Sequence(vals) /\ r \in Seq(chars)
  /\ \/ r = <<>> /\ vals = <<>>
     \/ "," \in chars /\ \E w : In(chars, max, "members", w, vals) /\ r = Append(w, ",")

ValueBefore(chars, max, kind, r, vals) ==
  /\ Sequence(vals) /\ r \in Seq(chars)
  /\ \/ kind # "object" /\ r = <<>> /\ vals = <<>>
     \/ /\ kind = "array" /\ "," \in chars
        /\ \E w : In(chars, max, "elements", w, vals) /\ r = Append(w, ",")
     \/ /\ kind = "object" /\ ":" \in chars
        /\ \E k, names, w, n : /\ KeyBefore(chars, max, k, names) /\ In(chars, max, "name", w, <<n>>)
                               /\ r = k \o Append(w, ":") /\ vals = Append(names, n)

LEMMA ElementsRead ==
  ASSUME NEW chars, NEW max \in Nat, NEW r, NEW vals, ValueBefore(chars, max, "array", r, vals),
         NEW u, NEW v, In(chars, max, "values", u, v)
  PROVE  In(chars, max, "elements", r \o u, Append(vals, v))
<1>1. Sequence(vals) /\ u \in Seq(chars)
  BY DEF ValueBefore, In
<1>2. CASE r = <<>> /\ vals = <<>>
  <2>1. r \o u = u /\ Append(vals, v) = <<v>>
    BY <1>1, <1>2, ConcatEmptySeq, AppendNone
  <2> QED
    BY <2>1, OneValue
<1>3. CASE "," \in chars /\ \E w : In(chars, max, "elements", w, vals) /\ r = Append(w, ",")
  <2>1. PICK w : In(chars, max, "elements", w, vals) /\ r = Append(w, ",")
    BY <1>3
  <2>2. In(chars, max, "elements", w \o <<",">> \o u, vals \o <<v>>)
    BY <1>3, <2>1, MoreElements
  <2>3. r = w \o <<",">>
    BY <1>3, <2>1, OneMore DEF In
  <2>4. Append(vals, v) = vals \o <<v>>
    BY <1>1, OneAfter
  <2> QED
    BY <2>2, <2>3, <2>4
<1> QED
  BY <1>2, <1>3 DEF ValueBefore

LEMMA MembersRead ==
  ASSUME NEW chars, NEW max \in Nat, NEW r, NEW vals, ValueBefore(chars, max, "object", r, vals),
         NEW u, NEW v, In(chars, max, "values", u, v)
  PROVE  In(chars, max, "members", r \o u, Append(vals, v))
<1>1. Sequence(vals) /\ u \in Seq(chars) /\ ":" \in chars
  BY DEF ValueBefore, In
<1>2. PICK k, names, w, n : /\ KeyBefore(chars, max, k, names) /\ In(chars, max, "name", w, <<n>>)
                            /\ r = k \o Append(w, ":") /\ vals = Append(names, n)
  BY DEF ValueBefore
<1> DEFINE x == w \o <<":">> \o u
           y == <<n>> \o <<v>>
<1>3. In(chars, max, "member", x, y) /\ In(chars, max, "members", x, y)
  BY <1>1, <1>2, NewMember
<1>4. Sequence(names) /\ k \in Seq(chars) /\ w \in Seq(chars) /\ Append(w, ":") = w \o <<":">>
      /\ Append(w, ":") \in Seq(chars)
  BY <1>1, <1>2, OneMore DEF In, KeyBefore
<1>5. r \o u = k \o x
  <2> DEFINE z == Append(w, ":")
  <2>1. z \in Seq(chars) /\ r = k \o z /\ z \o u = x
    BY <1>2, <1>4
  <2> HIDE DEF z, x
  <2>2. k \in Seq(chars) /\ z \in Seq(chars) /\ u \in Seq(chars)
    BY <1>1, <1>4, <2>1
  <2>3. (k \o z) \o u = k \o (z \o u)
    BY <2>2, ConcatAssociative
  <2> QED
    BY <2>1, <2>3
<1>6. Append(vals, v) = names \o y
  BY <1>2, <1>4, TwoAfter
<1>7. x \in Seq(chars) /\ Sequence(y)
  BY <1>3, Single, Joins DEF In
<1> HIDE DEF x, y
<1>8. CASE k = <<>> /\ names = <<>>
  <2>1. k \o x = x
    BY <1>7, <1>8, ConcatEmptySeq
  <2>2. names \o y = y
    <3>1. PICK S : y \in Seq(S)
      BY <1>7 DEF Sequence
    <3> QED
      BY <1>8, <3>1, ConcatEmptySeq
  <2> QED
    BY <1>3, <1>5, <1>6, <2>1, <2>2
<1>9. CASE "," \in chars /\ \E q : In(chars, max, "members", q, names) /\ k = Append(q, ",")
  <2>1. PICK q : In(chars, max, "members", q, names) /\ k = Append(q, ",")
    BY <1>9
  <2>2. In(chars, max, "members", q \o <<",">> \o x, names \o y)
    BY <1>3, <1>9, <2>1, MoreMembers
  <2>3. k = q \o <<",">>
    BY <1>9, <2>1, OneMore DEF In
  <2> QED
    BY <1>5, <1>6, <2>2, <2>3
<1> QED
  BY <1>2, <1>8, <1>9 DEF KeyBefore

-----------------------------------------------------------------------------
LEMMA OneCounted ==
  \A c \in Activation : LET x == [c EXCEPT !.count = @ + 1]
                        IN  x \in Activation /\ x.what = c.what /\ x.count = c.count + 1
BY DEF Activation

LEMMA CountedShape ==
  ASSUME NEW cs \in Seq(Activation), cs # <<>>
  PROVE  /\ Len(cs) \in Nat \ {0} /\ Last(cs) = cs[Len(cs)] /\ cs[Len(cs)] \in Activation
         /\ Counted(cs) \in Seq(Activation) /\ Len(Counted(cs)) = Len(cs) /\ Counted(cs) # <<>>
         /\ \A i \in 1 .. Len(cs) - 1 : Counted(cs)[i] = cs[i]
         /\ \A i \in 1 .. Len(cs) : Counted(cs)[i].what = cs[i].what
         /\ Counted(cs)[Len(cs)].count = cs[Len(cs)].count + 1
<1> DEFINE m == Len(cs)
           c == cs[m]
           after == Counted(cs)
<1>1. m \in Nat \ {0} /\ c \in Activation /\ \A i \in 1 .. m : cs[i] \in Activation
  BY EmptySeq, ElementOfSeq, LenProperties
<1>2. after = [cs EXCEPT ![m].count = @ + 1]
  BY DEF Counted
<1>3. cs \in [1 .. m -> Activation]
  BY LenProperties
<1> DEFINE x == [c EXCEPT !.count = @ + 1]
<1>8. x \in Activation /\ x.what = c.what /\ x.count = c.count + 1
  BY <1>1, OneCounted
<1>9. after = [cs EXCEPT ![m] = x]
  BY <1>2
<1> HIDE DEF x, m, c, after
<1>4. /\ after \in [1 .. m -> Activation]
      /\ \A i \in 1 .. m - 1 : after[i] = cs[i]
      /\ after[m].what = c.what /\ after[m].count = c.count + 1
  BY <1>1, <1>3, <1>8, <1>9
<1> USE DEF m, c, after
<1>5. after \in Seq(Activation) /\ Len(after) = m
  <2> DEFINE n == m
  <2>1. n \in Nat /\ after \in [1 .. n -> Activation]
    BY <1>1, <1>4
  <2> HIDE DEF n, after
  <2> QED
    BY <2>1 DEF n
<1>6. after # <<>>
  BY <1>1, <1>5, EmptySeq
<1>7. \A i \in 1 .. m : after[i].what = cs[i].what
  <2> TAKE i \in 1 .. m
  <2>1. i = m \/ i \in 1 .. m - 1
    BY <1>1
  <2> QED
    BY <1>4, <2>1
<1> HIDE DEF after
<1> QED
  BY <1>1, <1>4, <1>5, <1>6, <1>7 DEF after, Last

\* Where a call began: the text up to its bracket, and the stack with its object or array.
\* The root is a call of its own.
Outer == [what |-> "root", count |-> 0]
CallAt(cs, i) == IF i = 0 THEN Outer ELSE cs[i]
Opening == [object |-> "{", array |-> "["]

\* After the text p, with the stack s, a value may follow in a call that began at g; or a name.
ValueAt(chars, max, g, call, p, s) ==
  \E r, vals : /\ ValueBefore(chars, max, call.what, r, vals) /\ p = g.text \o r
               /\ s = g.stack \o vals /\ Len(vals) = OnStack(call) + Name(call)

KeyAt(chars, max, g, call, p, s) ==
  \E r, vals : /\ KeyBefore(chars, max, r, vals) /\ p = g.text \o r
               /\ s = g.stack \o vals /\ Len(vals) = OnStack(call) /\ call.what = "object"

Opens(chars, max, g, call, h, what) ==
  \E p, s, b : /\ ValueAt(chars, max, g, call, p, s) /\ Blank(chars, b) /\ Opening[what] \in chars
               /\ h.text = p \o Append(b, Opening[what]) /\ h.stack = Append(s, <<what, <<>>>>)

\* Where each call began.
Chain(chars, max, cs, F) ==
  /\ F[0].text = <<>> /\ F[0].stack = <<>>
  /\ \A i \in 0 .. Len(cs) : F[i].text \in Seq(chars) /\ Sequence(F[i].stack)
  /\ \A i \in 1 .. Len(cs) : Opens(chars, max, F[i - 1], CallAt(cs, i - 1), F[i], cs[i].what)

ValueReady(chars, max, cs, p, s) ==
  \E F : Chain(chars, max, cs, F) /\ ValueAt(chars, max, F[Len(cs)], CallAt(cs, Len(cs)), p, s)

KeyReady(chars, max, cs, p, s) ==
  \E F : Chain(chars, max, cs, F) /\ KeyAt(chars, max, F[Len(cs)], CallAt(cs, Len(cs)), p, s)

\* A call has just begun.
Fresh(chars, max, cs, p, s) ==
  /\ cs # <<>> /\ Last(cs).count = 0
  /\ \E F : Chain(chars, max, cs, F) /\ p = F[Len(cs)].text /\ s = F[Len(cs)].stack

LEMMA AtWords ==
  ASSUME NEW chars, NEW max, NEW g, g.text \in Seq(chars), Sequence(g.stack), NEW call, NEW p, NEW s,
         ValueAt(chars, max, g, call, p, s) \/ KeyAt(chars, max, g, call, p, s)
  PROVE  p \in Seq(chars) /\ Sequence(s)
<1>1. PICK r, vals : r \in Seq(chars) /\ Sequence(vals) /\ p = g.text \o r /\ s = g.stack \o vals
  BY DEF ValueAt, KeyAt, ValueBefore, KeyBefore
<1> QED
  BY <1>1, Joins, ConcatProperties

LEMMA ReadyWords ==
  ASSUME NEW chars, NEW max, NEW cs \in Seq(Activation), NEW p, NEW s,
         \/ ValueReady(chars, max, cs, p, s) \/ KeyReady(chars, max, cs, p, s) \/ Fresh(chars, max, cs, p, s)
  PROVE  p \in Seq(chars) /\ Sequence(s)
<1>1. Len(cs) \in 0 .. Len(cs)
  BY LenProperties
<1>2. CASE ValueReady(chars, max, cs, p, s) \/ KeyReady(chars, max, cs, p, s)
  <2>1. PICK F : /\ Chain(chars, max, cs, F)
                 /\ \/ ValueAt(chars, max, F[Len(cs)], CallAt(cs, Len(cs)), p, s)
                    \/ KeyAt(chars, max, F[Len(cs)], CallAt(cs, Len(cs)), p, s)
    BY <1>2 DEF ValueReady, KeyReady
  <2>2. F[Len(cs)].text \in Seq(chars) /\ Sequence(F[Len(cs)].stack)
    BY <1>1, <2>1 DEF Chain
  <2> QED
    BY <2>1, <2>2, AtWords
<1>3. CASE Fresh(chars, max, cs, p, s)
  BY <1>1, <1>3 DEF Fresh, Chain
<1> QED
  BY <1>2, <1>3

LEMMA RootReady == ASSUME NEW chars, NEW max PROVE ValueReady(chars, max, <<>>, <<>>, <<>>)
<1> DEFINE g == [text |-> <<>>, stack |-> <<>>]
           F == [i \in 0 .. 0 |-> g]
<1>1. F[0] = g /\ g.text = <<>> /\ g.stack = <<>>
  OBVIOUS
<1>2. /\ Len(<<>>) = 0 /\ <<>> \in Seq(chars) /\ <<>> \o <<>> = <<>>
      /\ 0 .. 0 = {0} /\ 1 .. 0 = {}
  OBVIOUS
<1>3. Sequence(<<>>)
  BY EmptySeq DEF Sequence
<1> HIDE DEF F, g
<1>4. Chain(chars, max, <<>>, F)
  BY <1>1, <1>2, <1>3 DEF Chain
<1>5. Outer.what = "root" /\ OnStack(Outer) = 0 /\ Name(Outer) = 0
  BY DEF Outer, OnStack, Name
<1>6. ValueBefore(chars, max, "root", <<>>, <<>>)
  BY <1>2, <1>3 DEF ValueBefore
<1>7. ValueAt(chars, max, g, Outer, <<>>, <<>>)
  BY <1>1, <1>2, <1>5, <1>6 DEF ValueAt
<1>8. CallAt(<<>>, Len(<<>>)) = Outer /\ F[Len(<<>>)] = g
  BY <1>1, <1>2 DEF CallAt
<1> QED
  BY <1>4, <1>7, <1>8 DEF ValueReady

\* Nothing can be said of the root but that nothing has been read.
LEMMA RootHas ==
  ASSUME NEW chars, NEW max, NEW p, NEW s, ValueReady(chars, max, <<>>, p, s)
  PROVE  p = <<>> /\ s = <<>>
<1>1. Len(<<>>) = 0 /\ <<>> \o <<>> = <<>>
  OBVIOUS
<1>2. PICK F : Chain(chars, max, <<>>, F) /\ ValueAt(chars, max, F[0], Outer, p, s)
  BY <1>1 DEF ValueReady, CallAt
<1>3. F[0].text = <<>> /\ F[0].stack = <<>>
  BY <1>2 DEF Chain
<1>4. PICK r, vals : /\ ValueBefore(chars, max, "root", r, vals) /\ p = F[0].text \o r
                     /\ s = F[0].stack \o vals
  BY <1>2 DEF ValueAt, Outer
<1>5. r = <<>> /\ vals = <<>>
  BY <1>4 DEF ValueBefore
<1> QED
  BY <1>1, <1>3, <1>4, <1>5

LEMMA ChainSame ==
  ASSUME NEW chars, NEW max, NEW cs, NEW F, Chain(chars, max, cs, F), NEW ds,
         Len(cs) \in Nat, Len(ds) \in Nat, Len(ds) <= Len(cs),
         \A i \in 1 .. Len(ds) : ds[i].what = cs[i].what,
         \A i \in 1 .. Len(ds) - 1 : ds[i] = cs[i]
  PROVE  Chain(chars, max, ds, F)
<1>1. \A i \in 0 .. Len(ds) : i \in 0 .. Len(cs)
  OBVIOUS
<1>2. ASSUME NEW i \in 1 .. Len(ds)
      PROVE  Opens(chars, max, F[i - 1], CallAt(ds, i - 1), F[i], ds[i].what)
  <2>1. i \in 1 .. Len(cs) /\ i \in Nat /\ (i - 1 # 0 => i - 1 \in 1 .. Len(ds) - 1)
    OBVIOUS
  <2>2. CallAt(ds, i - 1) = CallAt(cs, i - 1)
    BY <2>1 DEF CallAt
  <2>3. ds[i].what = cs[i].what
    OBVIOUS
  <2>4. Opens(chars, max, F[i - 1], CallAt(cs, i - 1), F[i], cs[i].what)
    BY <2>1 DEF Chain
  <2> QED
    BY <2>2, <2>3, <2>4
<1> QED
  BY <1>1, <1>2 DEF Chain

LEMMA InnermostCall ==
  ASSUME NEW cs \in Seq(Activation), cs # <<>>
  PROVE  /\ Len(cs) \in Nat \ {0} /\ Last(cs) = cs[Len(cs)] /\ Last(cs) \in Activation
         /\ CallAt(cs, Len(cs)) = Last(cs)
BY CountedShape DEF CallAt

LEMMA FreshReady ==
  ASSUME NEW chars, NEW max, NEW cs \in Seq(Activation), NEW p, NEW s, Fresh(chars, max, cs, p, s)
  PROVE  IF Last(cs).what = "object" THEN KeyReady(chars, max, cs, p, s) ELSE ValueReady(chars, max, cs, p, s)
<1>1. PICK F : Chain(chars, max, cs, F) /\ p = F[Len(cs)].text /\ s = F[Len(cs)].stack
  BY DEF Fresh
<1> DEFINE call == Last(cs)
           g == F[Len(cs)]
<1>2. call \in Activation /\ CallAt(cs, Len(cs)) = call /\ call.count = 0 /\ Len(cs) \in Nat
  BY InnermostCall DEF Fresh
<1>3. Len(cs) \in 0 .. Len(cs)
  BY <1>2
<1>4. g.text \in Seq(chars) /\ Sequence(g.stack)
  BY <1>1, <1>3 DEF Chain
<1>5. p = g.text \o <<>> /\ s = g.stack \o <<>>
  BY <1>1, <1>4, ConcatEmptySeq, NoMore
<1>6. <<>> \in Seq(chars) /\ Sequence(<<>>) /\ Len(<<>>) = 0
  BY EmptySeq DEF Sequence
<1> HIDE DEF call, g
<1>7. OnStack(call) = 0 /\ (call.what # "object" => Name(call) = 0)
  BY <1>2 DEF OnStack, Name
<1>8. CASE call.what = "object"
  <2>1. KeyBefore(chars, max, <<>>, <<>>)
    BY <1>6 DEF KeyBefore
  <2>2. KeyAt(chars, max, g, call, p, s)
    BY <1>5, <1>6, <1>7, <1>8, <2>1 DEF KeyAt
  <2> QED
    BY <1>1, <1>2, <1>8, <2>2 DEF KeyReady, g, call
<1>9. CASE call.what # "object"
  <2>1. ValueBefore(chars, max, call.what, <<>>, <<>>)
    BY <1>6, <1>9 DEF ValueBefore
  <2>2. ValueAt(chars, max, g, call, p, s)
    <3>1. Len(<<>>) = OnStack(call) + Name(call)
      BY <1>6, <1>7, <1>9
    <3> QED
      BY <1>5, <2>1, <3>1 DEF ValueAt
  <2> QED
    BY <1>1, <1>2, <1>9, <2>2 DEF ValueReady, g, call
<1> QED
  BY <1>8, <1>9 DEF call

\* An object or array begins where a value may.
LEMMA Begun ==
  ASSUME NEW chars, NEW max, NEW cs \in Seq(Activation), NEW p, NEW s, ValueReady(chars, max, cs, p, s),
         NEW b, Blank(chars, b), NEW what \in {"object", "array"}, Opening[what] \in chars
  PROVE  Fresh(chars, max, Append(cs, [what |-> what, count |-> 0]),
               p \o Append(b, Opening[what]), Append(s, <<what, <<>>>>))
<1> DEFINE call == [what |-> what, count |-> 0]
           ds == Append(cs, call)
           m == Len(cs)
           t == p \o Append(b, Opening[what])
           u == Append(s, <<what, <<>>>>)
           h == [text |-> t, stack |-> u]
<1>1. PICK F : Chain(chars, max, cs, F) /\ ValueAt(chars, max, F[m], CallAt(cs, m), p, s)
  BY DEF ValueReady
<1> DEFINE G == [i \in 0 .. m + 1 |-> IF i = m + 1 THEN h ELSE F[i]]
<1>2. call \in Activation /\ call.what = what /\ call.count = 0
  BY DEF Activation
<1>3. p \in Seq(chars) /\ Sequence(s)
  BY ReadyWords
<1>4. t \in Seq(chars) /\ Sequence(u)
  <2>1. b \in Seq(chars)
    <3>1. b \in Seq(chars \cap Blanks)
      BY DEF Blank
    <3> QED
      BY <3>1, SeqMonotonic
  <2>2. Append(b, Opening[what]) \in Seq(chars)
    BY <2>1, OneMore
  <2> QED
    BY <1>3, <2>2, OneAfter, ConcatProperties
<1>5. h.text = t /\ h.stack = u
  OBVIOUS
<1> HIDE DEF call, h, t, u
<1>6. /\ m \in Nat /\ Len(ds) = m + 1 /\ ds[m + 1] = call /\ ds # <<>> /\ Last(ds) = call
      /\ \A i \in 1 .. m : ds[i] = cs[i]
  <2>1. ds \in Seq(Activation) /\ m \in Nat /\ Len(ds) = m + 1 /\ ds[m + 1] = call
        /\ \A i \in 1 .. m : ds[i] = cs[i]
    BY <1>2, AppendProperties, LenProperties
  <2>2. ds # <<>>
    BY <2>1, EmptySeq
  <2> QED
    BY <2>1, <2>2 DEF Last
<1> HIDE DEF ds
<1>7. G[m + 1] = h /\ \A i \in 0 .. m : G[i] = F[i]
  BY <1>6
<1> HIDE DEF G
<1>8. Chain(chars, max, ds, G)
  <2>1. G[0].text = <<>> /\ G[0].stack = <<>>
    BY <1>1, <1>6, <1>7 DEF Chain
  <2>2. ASSUME NEW i \in 0 .. Len(ds) PROVE G[i].text \in Seq(chars) /\ Sequence(G[i].stack)
    <3>1. i = m + 1 \/ i \in 0 .. m
      BY <1>6
    <3> QED
      BY <1>1, <1>4, <1>5, <1>7, <3>1 DEF Chain
  <2>3. ASSUME NEW i \in 1 .. Len(ds)
        PROVE  Opens(chars, max, G[i - 1], CallAt(ds, i - 1), G[i], ds[i].what)
    <3>1. CASE i = m + 1
      <4>1. i - 1 = m /\ m \in 0 .. m
        BY <1>6, <3>1
      <4>2. CallAt(ds, m) = CallAt(cs, m)
        <5>1. m # 0 => m \in 1 .. m
          BY <1>6
        <5> QED
          BY <1>6, <5>1 DEF CallAt
      <4>3. Opens(chars, max, F[m], CallAt(cs, m), h, what)
        BY <1>1, <1>5 DEF Opens, t, u
      <4> QED
        BY <1>2, <1>6, <1>7, <3>1, <4>1, <4>2, <4>3
    <3>2. CASE i # m + 1
      <4>1. i \in 1 .. m /\ i \in 0 .. m /\ i - 1 \in 0 .. m /\ (i - 1 # 0 => i - 1 \in 1 .. m)
        BY <1>6, <3>2
      <4>2. CallAt(ds, i - 1) = CallAt(cs, i - 1)
        BY <1>6, <4>1 DEF CallAt
      <4>3. Opens(chars, max, F[i - 1], CallAt(cs, i - 1), F[i], cs[i].what)
        BY <1>1, <4>1 DEF Chain
      <4> QED
        BY <1>6, <1>7, <4>1, <4>2, <4>3
    <3> QED
      BY <3>1, <3>2
  <2> QED
    BY <2>1, <2>2, <2>3 DEF Chain
<1>9. Fresh(chars, max, ds, t, u)
  BY <1>2, <1>5, <1>6, <1>7, <1>8 DEF Fresh
<1> QED
  BY <1>9 DEF ds, t, u, call

LEMMA StackCounts ==
  ASSUME NEW call \in Activation, NEW after, after.what = call.what, after.count = call.count + 1
  PROVE  OnStack(after) = OnStack(call) + Name(call) + 1 /\ OnStack(call) \in Nat /\ Name(call) \in Nat
BY DEF OnStack, Name, Activation

\* Sequences put together; hidden from the provers, which would look into them.
Cat(x, y) == x \o y
Add(x, e) == Append(x, e)

LEMMA CatIs == \A x, y, e : Cat(x, y) = x \o y /\ Add(x, e) = Append(x, e)
BY DEF Cat, Add

LEMMA CatIn == \A C : \A x, y \in Seq(C) : \A e \in C : Cat(x, y) \in Seq(C) /\ Add(x, e) \in Seq(C) /\ <<e>> \in Seq(C)
BY ConcatProperties, AppendProperties DEF Cat, Add

LEMMA CatAssoc == \A C : \A x, y, z \in Seq(C) : Cat(Cat(x, y), z) = Cat(x, Cat(y, z))
BY ConcatAssociative DEF Cat

LEMMA CatAdd == \A C : \A x, y \in Seq(C) : \A e \in C : Add(Cat(x, y), e) = Cat(x, Add(y, e))
<1> TAKE C
<1> TAKE x, y \in Seq(C)
<1> TAKE e \in C
<1>1. Append(x \o y, e) = x \o Append(y, e)
  OBVIOUS
<1> QED
  BY <1>1 DEF Cat, Add

LEMMA CatOne == \A C : \A x \in Seq(C) : \A e \in C : Add(x, e) = Cat(x, <<e>>)
BY OneMore DEF Cat, Add

LEMMA LastAfter ==
  ASSUME NEW f, Sequence(f), NEW w, Sequence(w), NEW v
  PROVE  Add(Cat(f, w), v) = Cat(f, Add(w, v))
<1>1. PICK S : f \in Seq(S) /\ w \in Seq(S)
  BY SameSet
<1> DEFINE T == S \cup {v}
<1>2. f \in Seq(T) /\ w \in Seq(T) /\ v \in T
  BY <1>1, SeqMonotonic
<1> HIDE DEF T
<1> QED
  BY <1>2, CatAdd

\* What the innermost call has read, and its values with one more.
ReadBy(chars, max, cs, p, s, v, F, r, vals) ==
  /\ Chain(chars, max, cs, F) /\ Chain(chars, max, Counted(cs), F)
  /\ ValueBefore(chars, max, Last(cs).what, r, vals)
  /\ p = Cat(F[Len(cs)].text, r) /\ Add(s, v) = Cat(F[Len(cs)].stack, Add(vals, v))
  /\ Len(Add(vals, v)) = OnStack(Last(Counted(cs))) /\ Last(Counted(cs)).what = Last(cs).what
  /\ CallAt(Counted(cs), Len(Counted(cs))) = Last(Counted(cs)) /\ Len(Counted(cs)) = Len(cs)
  /\ F[Len(cs)].text \in Seq(chars) /\ Sequence(F[Len(cs)].stack)

LEMMA Counting ==
  ASSUME NEW chars, NEW max, NEW cs \in Seq(Activation), cs # <<>>, NEW p, NEW s,
         ValueReady(chars, max, cs, p, s), NEW v
  PROVE  \E F, r, vals : ReadBy(chars, max, cs, p, s, v, F, r, vals)
<1> DEFINE call == Last(cs)
           ds == Counted(cs)
           after == Last(ds)
           m == Len(cs)
<1>1. /\ m \in Nat \ {0} /\ call \in Activation /\ CallAt(cs, m) = call /\ call = cs[m]
      /\ ds \in Seq(Activation) /\ ds # <<>> /\ Len(ds) = m
      /\ \A i \in 1 .. m : ds[i].what = cs[i].what
      /\ \A i \in 1 .. m - 1 : ds[i] = cs[i]
      /\ ds[m].count = cs[m].count + 1
  BY CountedShape, InnermostCall
<1>2. CallAt(ds, m) = after /\ after = ds[m]
  BY <1>1, InnermostCall
<1>3. PICK F : Chain(chars, max, cs, F) /\ ValueAt(chars, max, F[m], call, p, s)
  BY <1>1 DEF ValueReady
<1> HIDE DEF call, ds, after, m
<1>4. after.what = call.what /\ after.count = call.count + 1
  BY <1>1, <1>2
<1>5. PICK r, vals : /\ ValueBefore(chars, max, call.what, r, vals) /\ p = F[m].text \o r
                     /\ s = F[m].stack \o vals /\ Len(vals) = OnStack(call) + Name(call)
  BY <1>3 DEF ValueAt
<1>6. F[m].text \in Seq(chars) /\ Sequence(F[m].stack) /\ Sequence(vals)
  <2>1. m \in 0 .. Len(cs)
    BY <1>1 DEF m
  <2> QED
    BY <1>3, <1>5, <2>1 DEF Chain, ValueBefore
<1>7. Append(s, v) = F[m].stack \o Append(vals, v)
  <2> DEFINE f == F[m].stack
  <2>1. Sequence(f) /\ Sequence(vals) /\ s = Cat(f, vals)
    BY <1>5, <1>6 DEF Cat
  <2> HIDE DEF f
  <2>2. Add(s, v) = Cat(f, Add(vals, v))
    BY <2>1, LastAfter
  <2> QED
    BY <2>2 DEF Cat, Add, f
<1>8. Len(Append(vals, v)) = OnStack(after)
  <2>1. Len(Append(vals, v)) = Len(vals) + 1
    BY <1>6, AppendAny
  <2>2. OnStack(after) = OnStack(call) + Name(call) + 1
    BY <1>1, <1>4, StackCounts
  <2> QED
    BY <1>5, <2>1, <2>2
<1>9. Chain(chars, max, ds, F)
  BY <1>1, <1>3, ChainSame DEF m
<1> QED
  BY <1>1, <1>2, <1>3, <1>4, <1>5, <1>6, <1>7, <1>8, <1>9 DEF call, ds, after, m, Cat, Add, ReadBy

LEMMA RightWords ==
  ASSUME NEW chars, NEW f \in Seq(chars), NEW r \in Seq(chars), NEW u \in Seq(chars), NEW e \in chars
  PROVE  Cat(Cat(f, r), Add(u, e)) = Cat(f, Add(Cat(r, u), e)) /\ Add(Cat(r, u), e) \in Seq(chars)
<1>1. Add(u, e) \in Seq(chars) /\ Cat(r, u) \in Seq(chars)
  BY CatIn
<1>2. Cat(Cat(f, r), Add(u, e)) = Cat(f, Cat(r, Add(u, e)))
  BY <1>1, CatAssoc
<1>3. Cat(r, Add(u, e)) = Add(Cat(r, u), e)
  BY CatAdd
<1> QED
  BY <1>1, <1>2, <1>3, CatIn

\* Named, as the provers take some bytes for operators.
CommaByte == ","
ColonByte == ":"

\* A comma after a value of an array or object.
LEMMA NextReady ==
  ASSUME NEW chars, NEW max \in Nat, CommaByte \in chars, NEW cs \in Seq(Activation), cs # <<>>, NEW p, NEW s,
         ValueReady(chars, max, cs, p, s), NEW u, NEW v, In(chars, max, "values", u, v)
  PROVE  IF Last(cs).what = "object"
         THEN KeyReady(chars, max, Counted(cs), p \o Append(u, CommaByte), Append(s, v))
         ELSE ValueReady(chars, max, Counted(cs), p \o Append(u, CommaByte), Append(s, v))
<1> DEFINE call == Last(cs)
           ds == Counted(cs)
           after == Last(ds)
           m == Len(cs)
           q == p \o Append(u, CommaByte)
<1>0. PICK F, r, vals : ReadBy(chars, max, cs, p, s, v, F, r, vals)
  BY Counting
<1>1. /\ Chain(chars, max, ds, F)
      /\ ValueBefore(chars, max, call.what, r, vals)
      /\ p = Cat(F[m].text, r) /\ Add(s, v) = Cat(F[m].stack, Add(vals, v))
      /\ Len(Add(vals, v)) = OnStack(after) /\ after.what = call.what
      /\ CallAt(ds, Len(ds)) = after /\ Len(ds) = m
      /\ F[m].text \in Seq(chars) /\ Sequence(F[m].stack)
  BY <1>0 DEF ReadBy
<1>2. call.what \in {"object", "array"}
  BY InnermostCall DEF Activation
<1> HIDE DEF call, ds, after, m
<1>10. Append(s, v) = F[m].stack \o Append(vals, v) /\ Len(Append(vals, v)) = OnStack(after)
  BY <1>1 DEF Cat, Add
<1> DEFINE w == Append(vals, v)
           x == r \o u
           y == Append(x, CommaByte)
<1>3. Sequence(w) /\ r \in Seq(chars) /\ u \in Seq(chars)
  BY <1>1, OneAfter DEF ValueBefore, In
<1>4. q = F[m].text \o y /\ y \in Seq(chars)
  <2> DEFINE f == F[m].text
             e == CommaByte
  <2>1. f \in Seq(chars) /\ p = Cat(f, r) /\ q = Cat(p, Add(u, e)) /\ y = Add(Cat(r, u), e) /\ e \in chars
    BY <1>1 DEF Cat, Add
  <2> HIDE DEF f, q, y, x, e, w
  <2>2. q = Cat(f, y) /\ y \in Seq(chars)
    BY <1>3, <2>1, RightWords
  <2> QED
    BY <2>2 DEF f, Cat
<1>5. CASE call.what = "object"
  <2>1. In(chars, max, "members", x, w)
    BY <1>1, <1>5, MembersRead
  <2>2. KeyBefore(chars, max, y, w)
    BY <1>3, <1>4, <2>1 DEF KeyBefore, CommaByte
  <2> HIDE DEF w, y, q
  <2>3. KeyAt(chars, max, F[m], after, q, Append(s, v))
    BY <1>1, <1>4, <1>5, <1>10, <2>2 DEF KeyAt, w
  <2> QED
    BY <1>1, <1>5, <2>3 DEF KeyReady, call, ds, q
<1>6. CASE call.what = "array"
  <2>1. In(chars, max, "elements", x, w)
    BY <1>1, <1>6, ElementsRead
  <2>2. ValueBefore(chars, max, "array", y, w)
    BY <1>3, <1>4, <2>1 DEF ValueBefore, CommaByte
  <2> HIDE DEF w, y, q
  <2>3. Len(w) = OnStack(after) + Name(after)
    <3>1. Len(w) \in Nat /\ Len(w) = OnStack(after)
      BY <1>10, <1>3, Joins DEF w
    <3>2. Name(after) = 0
      BY <1>1, <1>6 DEF Name
    <3>3. \A k, l, n \in Int : k = l /\ n = 0 => k = l + n
      OBVIOUS
    <3> HIDE DEF w
    <3> QED
      BY <3>1, <3>2, <3>3
  <2>4. ValueAt(chars, max, F[m], after, q, Append(s, v))
    BY <1>1, <1>4, <1>6, <1>10, <2>2, <2>3 DEF ValueAt, w
  <2> QED
    BY <1>1, <1>6, <2>4 DEF ValueReady, call, ds, q
<1> QED
  BY <1>2, <1>5, <1>6 DEF call

\* The name of a member and its colon.
LEMMA NamedReady ==
  ASSUME NEW chars, NEW max \in Nat, ColonByte \in chars, NEW cs \in Seq(Activation), cs # <<>>, NEW p, NEW s,
         KeyReady(chars, max, cs, p, s), NEW u, NEW n, In(chars, max, "name", u, <<n>>)
  PROVE  ValueReady(chars, max, cs, p \o Append(u, ColonByte), Append(s, n))
<1> DEFINE call == Last(cs)
           m == Len(cs)
           q == p \o Append(u, ColonByte)
<1>1. m \in Nat \ {0} /\ call \in Activation /\ CallAt(cs, m) = call
  BY InnermostCall
<1>2. PICK F : Chain(chars, max, cs, F) /\ KeyAt(chars, max, F[m], call, p, s)
  BY <1>1 DEF KeyReady
<1>3. PICK k, names : /\ KeyBefore(chars, max, k, names) /\ p = F[m].text \o k
                      /\ s = F[m].stack \o names /\ Len(names) = OnStack(call) /\ call.what = "object"
  BY <1>2 DEF KeyAt
<1> HIDE DEF call
<1>4. F[m].text \in Seq(chars) /\ Sequence(F[m].stack)
  BY <1>1, <1>2 DEF Chain
<1>5. Sequence(names) /\ k \in Seq(chars) /\ u \in Seq(chars)
  BY <1>3 DEF KeyBefore, In
<1> DEFINE x == Append(u, ColonByte)
           r == k \o x
           vals == Append(names, n)
<1>6. x \in Seq(chars) /\ r \in Seq(chars)
  BY <1>5, OneMore, ConcatProperties
<1>7. q = F[m].text \o r
  <2> DEFINE f == F[m].text
  <2>1. f \in Seq(chars) /\ p = f \o k /\ q = p \o x
    BY <1>3, <1>4
  <2> HIDE DEF f, x, q
  <2>2. (f \o k) \o x = f \o (k \o x)
    BY <1>5, <1>6, <2>1, ConcatAssociative, SMTT(40)
  <2> QED
    BY <2>1, <2>2 DEF f
<1>8. Sequence(vals) /\ Len(vals) = Len(names) + 1
  BY <1>5, AppendAny
<1>9. Append(s, n) = F[m].stack \o vals
  <2> DEFINE f == F[m].stack
  <2>1. Sequence(f) /\ Sequence(names) /\ s = Cat(f, names)
    BY <1>3, <1>4, <1>5 DEF Cat
  <2> HIDE DEF f
  <2>2. Add(s, n) = Cat(f, Add(names, n))
    BY <2>1, LastAfter
  <2> QED
    BY <2>2 DEF Cat, Add, f
<1>10. ValueBefore(chars, max, "object", r, vals)
  <2> HIDE DEF r, x, vals
  <2>1. r = k \o Append(u, ColonByte) /\ vals = Append(names, n)
    BY DEF r, x, vals
  <2> QED
    BY <1>3, <1>6, <1>8, <2>1 DEF ValueBefore, ColonByte
<1>11. Len(vals) = OnStack(call) + Name(call)
  BY <1>3, <1>8 DEF Name
<1> HIDE DEF r, vals, q, x
<1>12. ValueAt(chars, max, F[m], call, q, Append(s, n))
  BY <1>3, <1>7, <1>9, <1>10, <1>11 DEF ValueAt
<1> QED
  BY <1>1, <1>2, <1>12 DEF ValueReady, call, q, x

LEMMA FrontShape ==
  ASSUME NEW cs \in Seq(Activation), cs # <<>>
  PROVE  /\ Front(cs) \in Seq(Activation) /\ Len(Front(cs)) = Len(cs) - 1
         /\ \A i \in 1 .. Len(cs) - 1 : Front(cs)[i] = cs[i]
<1> DEFINE m == Len(cs)
           front == Front(cs)
<1>1. m \in Nat \ {0} /\ \A i \in 1 .. m : cs[i] \in Activation
  BY EmptySeq, ElementOfSeq, LenProperties
<1>2. front = SubSeq(cs, 1, m - 1) /\ m - 1 \in Int /\ 1 \in Int /\ \A i \in 1 .. m - 1 : cs[i] \in Activation
  BY <1>1 DEF Front
<1>3. /\ SubSeq(cs, 1, m - 1) \in Seq(Activation)
      /\ Len(SubSeq(cs, 1, m - 1)) = IF 1 <= m - 1 THEN (m - 1) - 1 + 1 ELSE 0
      /\ \A i \in 1 .. (m - 1) - 1 + 1 : SubSeq(cs, 1, m - 1)[i] = cs[1 + i - 1]
  BY <1>2, SubSeqProperties
<1> HIDE DEF front, m
<1>4. (m - 1) - 1 + 1 = m - 1 /\ (IF 1 <= m - 1 THEN (m - 1) - 1 + 1 ELSE 0) = m - 1
  BY <1>1
<1>5. \A i \in 1 .. m - 1 : 1 + i - 1 = i
  BY <1>1
<1>6. front \in Seq(Activation) /\ Len(front) = m - 1 /\ \A i \in 1 .. m - 1 : front[i] = cs[i]
  BY <1>2, <1>3, <1>4, <1>5
<1> QED
  BY <1>6 DEF front, m

LEMMA Wrapped ==
  ASSUME NEW C, NEW p \in Seq(C), NEW b \in Seq(C), NEW w \in Seq(C), NEW o \in C, NEW z \in C
  PROVE  Add(Cat(Cat(p, Add(b, o)), w), z) = Cat(p, Cat(b, Cat(Cat(<<o>>, w), <<z>>)))
<1> DEFINE d == <<o>>
           e == <<z>>
           v == Add(b, o)
           u == Cat(d, w)
           q == Cat(v, w)
<1>1. d \in Seq(C) /\ e \in Seq(C) /\ v \in Seq(C) /\ v = Cat(b, d)
  BY CatIn, CatOne
<1>2. Add(u, z) = Cat(u, e)
  <2> HIDE DEF d
  <2>1. u \in Seq(C)
    BY <1>1, CatIn
  <2> HIDE DEF u
  <2> QED
    BY <2>1, CatOne
<1> HIDE DEF d, e, v
<1>3. u \in Seq(C) /\ q \in Seq(C) /\ Cat(Cat(p, v), w) = Cat(p, q)
  BY <1>1, CatIn, CatAssoc
<1>4. Cat(Cat(b, d), w) = Cat(b, u)
  BY <1>1, CatAssoc
<1>5. Add(Cat(p, q), z) = Cat(p, Add(q, z))
  BY <1>3, CatAdd
<1>6. Add(Cat(b, u), z) = Cat(b, Add(u, z))
  BY <1>3, CatAdd
<1> HIDE DEF u
<1>7. Add(Cat(Cat(p, v), w), z) = Cat(p, Cat(b, Cat(u, e)))
  BY <1>1, <1>2, <1>3, <1>4, <1>5, <1>6
<1> QED
  BY <1>7 DEF v, u, d, e

\* What an object or array has between its brackets.
Part == [object |-> "members", array |-> "elements"]

LEMMA BracketedValue ==
  ASSUME NEW chars, NEW max \in Nat, NEW kind \in {"object", "array"}, Opening[kind] \in chars,
         Closing[kind] \in chars, NEW w, NEW V, Between2(w, V, chars, max, Part[kind])
  PROVE  In(chars, max, "values", Cat(Cat(<<Opening[kind]>>, w), <<Closing[kind]>>), <<kind, V>>)
<1>1. CASE kind = "object"
  <2>1. Opening[kind] = "{" /\ Closing[kind] = "}" /\ Part[kind] = "members"
    BY <1>1, Zenon DEF Opening, Closing, Part
  <2> QED
    BY <1>1, <2>1, ObjectValue, Zenon DEF Cat
<1>2. CASE kind = "array"
  <2>1. Opening[kind] = "[" /\ Closing[kind] = "]" /\ Part[kind] = "elements"
    BY <1>2, Zenon DEF Opening, Closing, Part
  <2> QED
    BY <1>2, <2>1, ArrayValue, Zenon DEF Cat
<1> QED
  BY <1>1, <1>2

\* An object or array ends: after p, with s below it, x is its text.
EndsAt(chars, max, cs, F, w, V, p, s, x) ==
  LET kind == Last(cs).what
  IN  /\ ValueReady(chars, max, Front(cs), p, s) /\ In(chars, max, "values", x, <<kind, V>>)
      /\ Add(Cat(F[Len(cs)].text, w), Closing[kind]) = Cat(p, x)
      /\ F[Len(cs)].stack = Add(s, <<kind, <<>>>>) /\ Sequence(s)

\* The end of an object or array is the end of a value where it began.
LEMMA Ended ==
  ASSUME NEW chars, NEW max \in Nat, NEW cs \in Seq(Activation), cs # <<>>, NEW F, Chain(chars, max, cs, F),
         NEW kind, kind = Last(cs).what, Closing[kind] \in chars, NEW w, NEW V, Between2(w, V, chars, max, Part[kind])
  PROVE  \E p, s, x : EndsAt(chars, max, cs, F, w, V, p, s, x)
<1> DEFINE m == Len(cs)
           o == Opening[kind]
           z == Closing[kind]
<1>1. m \in Nat \ {0} /\ Last(cs) = cs[m] /\ kind \in {"object", "array"}
  BY InnermostCall DEF Activation
<1>2. Opens(chars, max, F[m - 1], CallAt(cs, m - 1), F[m], cs[m].what)
  <2>1. m \in 1 .. Len(cs)
    BY <1>1
  <2> QED
    BY <2>1 DEF Chain
<1>3. PICK p, s, b : /\ ValueAt(chars, max, F[m - 1], CallAt(cs, m - 1), p, s) /\ Blank(chars, b) /\ o \in chars
                     /\ F[m].text = p \o Append(b, o) /\ F[m].stack = Append(s, <<kind, <<>>>>)
  BY <1>1, <1>2 DEF Opens
<1>4. F[m].text = Cat(p, Add(b, o)) /\ F[m].stack = Add(s, <<kind, <<>>>>)
  BY <1>3 DEF Cat, Add
<1> DEFINE y == Cat(Cat(<<o>>, w), <<z>>)
           x == Cat(b, y)
<1>5. In(chars, max, "values", y, <<kind, V>>)
  BY <1>1, <1>3, BracketedValue
<1>6. In(chars, max, "values", x, <<kind, V>>)
  BY <1>3, <1>5, Lead DEF Cat, Spaceable
<1>7. F[m - 1].text \in Seq(chars) /\ Sequence(F[m - 1].stack)
  <2>1. m - 1 \in 0 .. Len(cs)
    BY <1>1
  <2> QED
    BY <2>1 DEF Chain
<1>8. p \in Seq(chars) /\ Sequence(s) /\ b \in Seq(chars) /\ w \in Seq(chars)
  <2>1. p \in Seq(chars) /\ Sequence(s)
    BY <1>3, <1>7, AtWords
  <2>2. b \in Seq(chars)
    BY <1>3, BlankIn
  <2>3. w \in Seq(chars)
    BY DEF Between2, In
  <2> QED
    BY <2>1, <2>2, <2>3
<1> HIDE DEF o, z
<1>9. Add(Cat(Cat(p, Add(b, o)), w), z) = Cat(p, x)
  <2>1. o \in chars /\ z \in chars
    BY <1>3 DEF z
  <2> QED
    BY <1>8, <2>1, Wrapped
<1>10. ValueReady(chars, max, Front(cs), p, s)
  <2> DEFINE ds == Front(cs)
  <2>1. ds \in Seq(Activation) /\ Len(ds) = m - 1 /\ \A i \in 1 .. m - 1 : ds[i] = cs[i]
    BY FrontShape
  <2> HIDE DEF ds
  <2>2. Chain(chars, max, ds, F)
    <3>1. /\ Len(cs) \in Nat /\ Len(ds) \in Nat /\ Len(ds) <= Len(cs)
          /\ \A i \in 1 .. Len(ds) : ds[i].what = cs[i].what
          /\ \A i \in 1 .. Len(ds) - 1 : ds[i] = cs[i]
      BY <1>1, <2>1
    <3> QED
      BY <3>1, ChainSame
  <2>3. CallAt(ds, m - 1) = CallAt(cs, m - 1)
    BY <1>1, <2>1 DEF CallAt
  <2>4. ValueAt(chars, max, F[Len(ds)], CallAt(ds, Len(ds)), p, s)
    BY <1>3, <2>1, <2>3
  <2> QED
    BY <2>2, <2>4 DEF ValueReady, ds
<1> HIDE DEF x
<1> QED
  BY <1>4, <1>6, <1>8, <1>9, <1>10 DEF z, EndsAt

\* The whole of what is closed: its text and what its end leaves on the stack.
Closed(chars, max, cs, t, s, V) ==
  \E p, below, x : /\ ValueReady(chars, max, Front(cs), p, below) /\ Sequence(below)
                   /\ In(chars, max, "values", x, <<Last(cs).what, V>>)
                   /\ Add(t, Closing[Last(cs).what]) = Cat(p, x)
                   /\ s = Cat(Add(below, <<Last(cs).what, <<>>>>), V)

LEMMA EndsEmpty ==
  ASSUME NEW chars, NEW max \in Nat, NEW cs \in Seq(Activation), NEW p, NEW s, Fresh(chars, max, cs, p, s),
         NEW b, Blank(chars, b), Closing[Last(cs).what] \in chars
  PROVE  Closed(chars, max, cs, Cat(p, b), s, <<>>)
<1>1. PICK F : Chain(chars, max, cs, F) /\ p = F[Len(cs)].text /\ s = F[Len(cs)].stack /\ cs # <<>>
  BY DEF Fresh
<1> DEFINE kind == Last(cs).what
<1>2. Between2(b, <<>>, chars, max, Part[kind])
  BY BlankIn DEF Between2
<1>5. PICK q, below, x : EndsAt(chars, max, cs, F, b, <<>>, q, below, x)
  BY <1>1, <1>2, Ended
<1>3.   /\ ValueReady(chars, max, Front(cs), q, below) /\ In(chars, max, "values", x, <<kind, <<>>>>)
        /\ Add(Cat(F[Len(cs)].text, b), Closing[kind]) = Cat(q, x)
        /\ F[Len(cs)].stack = Add(below, <<kind, <<>>>>) /\ Sequence(below)
  BY <1>5 DEF EndsAt
<1>4. s = Cat(Add(below, <<kind, <<>>>>), <<>>)
  <2>1. Sequence(Append(below, <<kind, <<>>>>))
    BY <1>3, OneAfter
  <2> DEFINE y == Append(below, <<kind, <<>>>>)
  <2>2. y \o <<>> = y
    <3> HIDE DEF y
    <3> QED
      BY <2>1, NoMore DEF y
  <2> QED
    BY <1>1, <1>3, <2>2 DEF Cat, Add
<1> QED
  BY <1>1, <1>3, <1>4 DEF Closed

LEMMA EndsFull ==
  ASSUME NEW chars, NEW max \in Nat, NEW cs \in Seq(Activation), cs # <<>>, NEW p, NEW s,
         ValueReady(chars, max, cs, p, s), NEW u, NEW v, In(chars, max, "values", u, v),
         NEW ds, ds = Counted(cs), Closing[Last(ds).what] \in chars
  PROVE  \E V : Closed(chars, max, ds, Cat(p, u), Add(s, v), V) /\ Sequence(V) /\ Len(V) = OnStack(Last(ds))
<1> DEFINE kind == Last(ds).what
<1>0. PICK F, r, vals : ReadBy(chars, max, cs, p, s, v, F, r, vals)
  BY Counting
<1>1. /\ Chain(chars, max, ds, F)
      /\ ValueBefore(chars, max, kind, r, vals)
      /\ p = Cat(F[Len(ds)].text, r) /\ Add(s, v) = Cat(F[Len(ds)].stack, Add(vals, v))
      /\ Len(Add(vals, v)) = OnStack(Last(ds))
      /\ F[Len(ds)].text \in Seq(chars) /\ Sequence(F[Len(ds)].stack)
  BY <1>0 DEF ReadBy
<1>2. ds \in Seq(Activation) /\ ds # <<>> /\ kind \in {"object", "array"}
  <2>1. ds \in Seq(Activation) /\ ds # <<>>
    BY CountedShape
  <2> QED
    BY <2>1, InnermostCall DEF Activation
<1> DEFINE w == Cat(r, u)
           V == Add(vals, v)
<1>3. Between2(w, V, chars, max, Part[kind])
  <2>1. CASE kind = "object"
    <3>1. In(chars, max, "members", r \o u, Append(vals, v)) /\ Part[kind] = "members"
      BY <1>1, <2>1, MembersRead DEF Part
    <3> QED
      BY <3>1 DEF Between2, Cat, Add
  <2>2. CASE kind = "array"
    <3>1. In(chars, max, "elements", r \o u, Append(vals, v)) /\ Part[kind] = "elements"
      BY <1>1, <2>2, ElementsRead DEF Part
    <3> QED
      BY <3>1 DEF Between2, Cat, Add
  <2> QED
    BY <1>2, <2>1, <2>2
<1>4. Sequence(V) /\ Sequence(vals) /\ r \in Seq(chars) /\ u \in Seq(chars)
  BY OneAfter, <1>1 DEF ValueBefore, Add, In
<1> HIDE DEF V
<1>9. PICK q, below, x : EndsAt(chars, max, ds, F, w, V, q, below, x)
  BY <1>1, <1>2, <1>3, Ended
<1>5.   /\ ValueReady(chars, max, Front(ds), q, below) /\ In(chars, max, "values", x, <<kind, V>>)
        /\ Add(Cat(F[Len(ds)].text, w), Closing[kind]) = Cat(q, x)
        /\ F[Len(ds)].stack = Add(below, <<kind, <<>>>>) /\ Sequence(below)
  BY <1>9 DEF EndsAt
<1>6. Cat(p, u) = Cat(F[Len(ds)].text, w)
  BY <1>1, <1>4, CatAssoc
<1> HIDE DEF w
<1>7. Add(s, v) = Cat(Add(below, <<kind, <<>>>>), V)
  BY <1>1, <1>5 DEF V
<1>8. Closed(chars, max, ds, Cat(p, u), Add(s, v), V)
  BY <1>5, <1>6, <1>7 DEF Closed
<1> QED
  BY <1>1, <1>4, <1>8 DEF V

\* a, one more element and V make up s.
Parted(s, a, V) ==
  /\ Len(s) - Len(V) = Len(a) + 1 /\ Len(a) \in Nat /\ Len(V) \in Nat
  /\ SubSeq(s, 1, Len(a)) = a /\ SubSeq(s, Len(a) + 2, Len(s)) = V

LEMMA CutT ==
  ASSUME NEW T, NEW a \in Seq(T), NEW x \in T, NEW V \in Seq(T), NEW s, s = Cat(Add(a, x), V)
  PROVE  Parted(s, a, V)
<1> DEFINE m == Len(a)
           n == Len(V)
           z == Append(a, x) \o V
<1>0. s = z
  BY DEF Cat, Add
<1>1. m \in Nat /\ n \in Nat
  OBVIOUS
<1>8. z \in Seq(T) /\ Len(z) = m + 1 + n /\ \A i \in 1 .. m : z[i] = a[i]
  OBVIOUS
<1>9. \A i \in 1 .. n : z[m + 1 + i] = V[i]
  OBVIOUS
<1> HIDE DEF z
<1>2. s \in Seq(T) /\ Len(s) = m + 1 + n /\ \A i \in 1 .. m : s[i] = a[i]
  BY <1>0, <1>8
<1>3. \A i \in 1 .. n : s[m + 1 + i] = V[i]
  BY <1>0, <1>9
<1>4. SubSeq(s, 1, m) = a
  <2>1. SubSeq(s, 1, m) \in Seq(T) /\ Len(SubSeq(s, 1, m)) = m /\ \A i \in 1 .. m : SubSeq(s, 1, m)[i] = s[i]
    BY <1>1, <1>2
  <2> QED
    BY <1>2, <2>1, SeqEqual
<1>5. SubSeq(s, m + 2, m + 1 + n) = V
  <2>1. /\ SubSeq(s, m + 2, m + 1 + n) \in Seq(T) /\ Len(SubSeq(s, m + 2, m + 1 + n)) = n
        /\ \A i \in 1 .. n : SubSeq(s, m + 2, m + 1 + n)[i] = s[m + 1 + i]
    BY <1>1, <1>2
  <2> QED
    BY <1>3, <2>1, SeqEqual
<1> QED
  BY <1>1, <1>2, <1>4, <1>5 DEF Parted

\* What EndObject and EndArray leave on the stack.
Popped(s, n, what) == LET below == Len(s) - n
                      IN  Append(SubSeq(s, 1, below - 1), <<what, SubSeq(s, below + 1, Len(s))>>)

LEMMA Pops ==
  ASSUME NEW below, Sequence(below), NEW V, Sequence(V), NEW what, NEW s, s = Cat(Add(below, <<what, <<>>>>), V)
  PROVE  Popped(s, Len(V), what) = Add(below, <<what, V>>)
<1> DEFINE x == <<what, <<>>>>
<1>1. PICK S : below \in Seq(S) /\ V \in Seq(S)
  BY SameSet
<1> DEFINE T == S \cup {x}
<1>2. below \in Seq(T) /\ V \in Seq(T) /\ x \in T /\ s = Cat(Add(below, x), V)
  BY <1>1, SeqMonotonic
<1> HIDE DEF T, x
<1> DEFINE m == Len(below)
           n == Len(V)
<1>3. Len(s) - n = m + 1 /\ m \in Nat /\ SubSeq(s, 1, m) = below /\ SubSeq(s, m + 2, Len(s)) = V
  <2>1. Parted(s, below, V)
    BY <1>2, CutT
  <2> QED
    BY <2>1 DEF Parted
<1> HIDE DEF m, n
<1>4. (m + 1) - 1 = m /\ (m + 1) + 1 = m + 2
  BY <1>3
<1>5. Popped(s, n, what) = Append(below, <<what, V>>)
  BY <1>3, <1>4 DEF Popped
<1> QED
  BY <1>5 DEF n, Add

-----------------------------------------------------------------------------
(* The text read so far and where it stands: t is read, of the bytes chars. *)

\* Nothing of the lexeme that comes next but blanks.
Gaps == {"root", "value", "first", "element", "member"}

AtGap(chars, max, t, place, cs, s) ==
  \E p, b : /\ t = Cat(p, b) /\ Blank(chars, b)
            /\ place \in {"root", "value"} => ValueReady(chars, max, cs, p, s)
            /\ place \in {"first", "element"} => Fresh(chars, max, cs, p, s)
            /\ place = "member" => KeyReady(chars, max, cs, p, s)

\* In a string, or after a backslash in it.
Quote == "quote"
Backslash == "\\"
Opened == <<Quote>>
WithinString(chars, max, cs, x, s, p, b, i) ==
  /\ Blank(chars, b) /\ Quote \in chars /\ In(chars, max, "insides", i, x.chars)
  /\ (x.key => KeyReady(chars, max, cs, p, s)) /\ (~x.key => ValueReady(chars, max, cs, p, s))

AtString(chars, max, t, cs, x, s) ==
  \E p, b, i : WithinString(chars, max, cs, x, s, p, b, i) /\ t = Cat(p, Cat(b, Cat(Opened, i)))

AtEscape(chars, max, t, cs, x, s) ==
  \E p, b, i : /\ WithinString(chars, max, cs, x, s, p, b, i) /\ Backslash \in chars
               /\ t = Cat(p, Cat(b, Cat(Opened, Add(i, Backslash))))

AtColon(chars, max, t, cs, s) ==
  \E p, u, n, below : /\ t = Cat(p, u) /\ In(chars, max, "name", u, <<n>>)
                      /\ KeyReady(chars, max, cs, p, below) /\ s = Add(below, n)

\* In a number: its sign, and its digits so far.
MinusByte == "-"
SignOf(minus) == IF minus THEN <<MinusByte>> ELSE <<>>
Signs(chars, minus, b, g) == Blank(chars, b) /\ (minus => MinusByte \in chars) /\ g = Cat(b, SignOf(minus))
Largest(minus) == IF minus THEN Half ELSE Width - 1

AtSign(chars, max, t, cs, x, s) ==
  /\ ~x.big /\ x.minus \in BOOLEAN
  /\ \E p, b, g : Signs(chars, x.minus, b, g) /\ t = Cat(p, g) /\ ValueReady(chars, max, cs, p, s)

AtDigits(chars, max, t, cs, x, s) ==
  /\ x.minus \in BOOLEAN
  /\ \E p, b, g, D, n :
                     /\ Signs(chars, x.minus, b, g) /\ t = Cat(p, Cat(g, D)) /\ ValueReady(chars, max, cs, p, s)
                     /\ In(chars, max, "numerals", D, n) /\ D # <<>> /\ D # <<Digit[0]>> /\ n \in Nat
                     /\ (x.big => n > Largest(x.minus)) /\ (~x.big => x.i = n)

\* After a value.
AtNext(chars, max, t, cs, s) ==
  \E p, u, v, ds, below : /\ t = Cat(p, u) /\ In(chars, max, "values", u, v)
                          /\ ds \in Seq(Activation) /\ cs = Counted(ds)
                          /\ ValueReady(chars, max, ds, p, below) /\ s = Add(below, v)

AtEnd(chars, max, t, s) == \E v : In(chars, max, "values", t, v) /\ s = <<v>>

Placed(chars, max, t, place, cs, x, s) ==
  /\ place \notin {"string", "escape", "sign", "digits"} => x = NoLex
  /\ place \in Gaps => AtGap(chars, max, t, place, cs, s)
  /\ place = "string" => AtString(chars, max, t, cs, x, s)
  /\ place = "escape" => AtEscape(chars, max, t, cs, x, s)
  /\ place = "colon"  => AtColon(chars, max, t, cs, s)
  /\ place = "sign"   => AtSign(chars, max, t, cs, x, s)
  /\ place = "digits" => AtDigits(chars, max, t, cs, x, s)
  /\ place = "next"   => AtNext(chars, max, t, cs, s)
  /\ place = "parsed" => AtEnd(chars, max, t, s)

LEMMA BlankWords ==
  ASSUME NEW chars, NEW b, Blank(chars, b), NEW ch, ch \in chars, ch \in Blanks
  PROVE  b \in Seq(chars) /\ Blank(chars, Add(b, ch))
<1> DEFINE B == chars \cap Blanks
<1>1. b \in Seq(B) /\ ch \in B
  BY DEF Blank
<1>2. B \subseteq chars
  OBVIOUS
<1>3. Append(b, ch) \in Seq(B)
  BY <1>1, AppendProperties
<1> QED
  BY <1>1, <1>2, <1>3, SeqMonotonic DEF Blank, Add

LEMMA BlankSeq == \A chars, b : Blank(chars, b) => b \in Seq(chars)
<1> TAKE chars, b
<1> HAVE Blank(chars, b)
<1>1. b \in Seq(chars \cap Blanks) /\ chars \cap Blanks \subseteq chars
  BY DEF Blank
<1> QED
  BY <1>1, SeqMonotonic

\* A blank between lexemes.
LEMMA GapBlank ==
  ASSUME NEW chars, NEW max \in Nat, NEW t, NEW place \in Gaps, NEW cs \in Seq(Activation), NEW s,
         AtGap(chars, max, t, place, cs, s), NEW ch \in chars, ch \in Blanks
  PROVE  AtGap(chars, max, Add(t, ch), place, cs, s)
<1>1. PICK p, b : /\ t = Cat(p, b) /\ Blank(chars, b)
                  /\ place \in {"root", "value"} => ValueReady(chars, max, cs, p, s)
                  /\ place \in {"first", "element"} => Fresh(chars, max, cs, p, s)
                  /\ place = "member" => KeyReady(chars, max, cs, p, s)
  BY DEF AtGap
<1>2. p \in Seq(chars)
  BY <1>1, ReadyWords DEF Gaps
<1>3. b \in Seq(chars) /\ Blank(chars, Add(b, ch))
  BY <1>1, BlankWords
<1>4. Add(t, ch) = Cat(p, Add(b, ch))
  BY <1>1, <1>2, <1>3, CatAdd
<1> QED
  BY <1>1, <1>3, <1>4 DEF AtGap

LEMMA ColonBlank ==
  ASSUME NEW chars, NEW max \in Nat, NEW t, NEW cs \in Seq(Activation), NEW s,
         AtColon(chars, max, t, cs, s), NEW ch \in chars, ch \in Blanks
  PROVE  AtColon(chars, max, Add(t, ch), cs, s)
<1>1. PICK p, u, n, below : /\ t = Cat(p, u) /\ In(chars, max, "name", u, <<n>>)
                            /\ KeyReady(chars, max, cs, p, below) /\ s = Add(below, n)
  BY DEF AtColon
<1>2. p \in Seq(chars) /\ u \in Seq(chars)
  BY <1>1, ReadyWords DEF In
<1>3. In(chars, max, "name", Add(u, ch), <<n>>)
  BY <1>1, MoreSpace DEF Spaceable, Add
<1>4. Add(t, ch) = Cat(p, Add(u, ch))
  BY <1>1, <1>2, CatAdd
<1> QED
  BY <1>1, <1>3, <1>4 DEF AtColon

LEMMA NextBlank ==
  ASSUME NEW chars, NEW max \in Nat, NEW t, NEW cs, NEW s,
         AtNext(chars, max, t, cs, s), NEW ch \in chars, ch \in Blanks
  PROVE  AtNext(chars, max, Add(t, ch), cs, s)
<1>1. PICK p, u, v, ds, below : /\ t = Cat(p, u) /\ In(chars, max, "values", u, v)
                                /\ ds \in Seq(Activation) /\ cs = Counted(ds)
                                /\ ValueReady(chars, max, ds, p, below) /\ s = Add(below, v)
  BY DEF AtNext
<1>2. p \in Seq(chars) /\ u \in Seq(chars)
  BY <1>1, ReadyWords DEF In
<1>3. In(chars, max, "values", Add(u, ch), v)
  BY <1>1, MoreSpace DEF Spaceable, Add
<1>4. Add(t, ch) = Cat(p, Add(u, ch))
  BY <1>1, <1>2, CatAdd
<1> QED
  BY <1>1, <1>3, <1>4 DEF AtNext

\* Values of one byte.
LEMMA TrueRead ==
  ASSUME NEW chars, NEW max \in Nat, NEW t, NEW cs \in Seq(Activation), NEW s,
         AtGap(chars, max, t, "value", cs, s), NEW ch \in chars, ch = "t"
  PROVE  AtNext(chars, max, Add(t, ch), Counted(cs), Add(s, <<"true", <<>>>>))
<1>1. PICK p, b : t = Cat(p, b) /\ Blank(chars, b) /\ ValueReady(chars, max, cs, p, s)
  BY DEF AtGap
<1>2. p \in Seq(chars) /\ b \in Seq(chars)
  BY <1>1, ReadyWords, BlankSeq
<1>3. In(chars, max, "values", <<ch>>, <<"true", <<>>>>)
  BY TrueValue
<1>4. In(chars, max, "values", b \o <<ch>>, <<"true", <<>>>>)
  BY <1>1, <1>3, Lead DEF Spaceable
<1>5. Cat(b, <<ch>>) = Add(b, ch)
  BY <1>2, CatOne
<1>6. In(chars, max, "values", Add(b, ch), <<"true", <<>>>>)
  BY <1>4, <1>5 DEF Cat
<1>7. Add(t, ch) = Cat(p, Add(b, ch))
  BY <1>1, <1>2, CatAdd
<1> QED
  BY <1>1, <1>6, <1>7 DEF AtNext

LEMMA CallRead ==
  ASSUME NEW chars, NEW max \in Nat, NEW t, NEW cs \in Seq(Activation), NEW s,
         AtGap(chars, max, t, "value", cs, s), NEW ch \in chars, NEW what \in {"object", "array"}, ch = Opening[what],
         NEW place \in {"first", "element"}
  PROVE  AtGap(chars, max, Add(t, ch), place, Append(cs, [what |-> what, count |-> 0]), Add(s, <<what, <<>>>>))
<1>1. PICK p, b : t = Cat(p, b) /\ Blank(chars, b) /\ ValueReady(chars, max, cs, p, s)
  BY DEF AtGap
<1>2. p \in Seq(chars) /\ b \in Seq(chars)
  BY <1>1, ReadyWords, BlankSeq
<1> DEFINE ds == Append(cs, [what |-> what, count |-> 0])
           q == Cat(p, Add(b, ch))
           u == Add(s, <<what, <<>>>>)
<1>3. Fresh(chars, max, ds, p \o Append(b, Opening[what]), Append(s, <<what, <<>>>>))
  BY <1>1, Begun
<1>4. Fresh(chars, max, ds, q, u)
  BY <1>3 DEF Cat, Add
<1>5. Add(t, ch) = q
  BY <1>1, <1>2, CatAdd
<1> HIDE DEF ds, u
<1>6. q = Cat(q, <<>>)
  <2>1. q \in Seq(chars)
    BY <1>2, CatIn
  <2> HIDE DEF q
  <2> QED
    BY <2>1, ConcatEmptySeq DEF Cat
<1>7. Blank(chars, <<>>)
  BY EmptySeq DEF Blank
<1> HIDE DEF q
<1>8. AtGap(chars, max, q, place, ds, u)
  BY <1>4, <1>6, <1>7 DEF AtGap
<1> QED
  BY <1>5, <1>8 DEF ds, u

LEMMA Deep ==
  ASSUME NEW C, NEW p \in Seq(C), NEW b \in Seq(C), NEW z \in Seq(C), NEW e \in C
  PROVE  Add(Cat(p, Cat(b, z)), e) = Cat(p, Cat(b, Add(z, e))) /\ Add(z, e) \in Seq(C) /\ Cat(b, z) \in Seq(C)
<1> DEFINE y == Cat(b, z)
<1>1. y \in Seq(C)
  BY CatIn
<1>2. Add(y, e) = Cat(b, Add(z, e))
  BY CatAdd
<1> HIDE DEF y
<1>3. Add(Cat(p, y), e) = Cat(p, Add(y, e))
  BY <1>1, CatAdd
<1>4. Add(z, e) \in Seq(C)
  BY CatIn
<1> QED
  BY <1>1, <1>2, <1>3, <1>4 DEF y

LEMMA OneByte == \A C : \A e \in C : <<e>> \in Seq(C)
OBVIOUS

LEMMA NoneAfter == \A C : \A x \in Seq(C) : Cat(x, <<>>) = x
BY ConcatEmptySeq DEF Cat

\* A string.
LEMMA QuoteRead ==
  ASSUME NEW chars, NEW max \in Nat, NEW t, NEW place \in {"value", "first", "member"},
         NEW cs \in Seq(Activation), cs # <<>> \/ place = "value", NEW s,
         place # "value" => Last(cs).what = "object",
         AtGap(chars, max, t, place, cs, s), NEW ch \in chars, ch = Quote,
         NEW x, x.key = (place # "value"), x.chars = <<>>
  PROVE  AtString(chars, max, Add(t, ch), cs, x, s)
<1>1. PICK p, b : /\ t = Cat(p, b) /\ Blank(chars, b)
                  /\ place = "value" => ValueReady(chars, max, cs, p, s)
                  /\ place = "first" => Fresh(chars, max, cs, p, s)
                  /\ place = "member" => KeyReady(chars, max, cs, p, s)
  BY DEF AtGap
<1>2. (x.key => KeyReady(chars, max, cs, p, s)) /\ (~x.key => ValueReady(chars, max, cs, p, s))
  BY <1>1, FreshReady
<1>3. p \in Seq(chars) /\ b \in Seq(chars)
  BY <1>2, <1>1, ReadyWords, BlankSeq
<1>4. Add(t, ch) = Cat(p, Add(b, ch)) /\ Add(b, ch) = Cat(b, <<ch>>)
  BY <1>1, <1>3, CatAdd, CatOne
<1>5. Cat(<<ch>>, <<>>) = <<ch>>
  BY OneByte, NoneAfter
<1>6. Add(t, ch) = Cat(p, Cat(b, Cat(Opened, <<>>)))
  BY <1>4, <1>5 DEF Opened
<1>7. In(chars, max, "insides", <<>>, x.chars)
  BY NoInside
<1> QED
  BY <1>1, <1>2, <1>6, <1>7 DEF AtString, WithinString

LEMMA StringWords ==
  ASSUME NEW chars, NEW max \in Nat, NEW cs \in Seq(Activation), NEW x, NEW s, NEW p, NEW b, NEW i,
         WithinString(chars, max, cs, x, s, p, b, i)
  PROVE  /\ p \in Seq(chars) /\ b \in Seq(chars) /\ i \in Seq(chars) /\ Opened \in Seq(chars)
         /\ Cat(Opened, i) \in Seq(chars) /\ Quote \in chars
<1>1. b \in Seq(chars) /\ i \in Seq(chars) /\ Quote \in chars
  BY BlankSeq DEF WithinString, In
<1>2. p \in Seq(chars)
  BY ReadyWords DEF WithinString
<1>3. Opened \in Seq(chars)
  BY <1>1, OneByte DEF Opened
<1> QED
  BY <1>1, <1>2, <1>3, ConcatProperties DEF Cat

LEMMA InsideRead ==
  ASSUME NEW chars, NEW max \in Nat, NEW t, NEW cs \in Seq(Activation), NEW x, NEW s,
         AtString(chars, max, t, cs, x, s), NEW ch \in chars, ch \notin {Quote, Backslash} \cup Control,
         NEW y, y.key = x.key, y.chars = Append(x.chars, ch)
  PROVE  AtString(chars, max, Add(t, ch), cs, y, s)
<1>0. PICK p, b, i : WithinString(chars, max, cs, x, s, p, b, i) /\ t = Cat(p, Cat(b, Cat(Opened, i)))
  BY DEF AtString
<1>1. /\ p \in Seq(chars) /\ b \in Seq(chars) /\ i \in Seq(chars) /\ Opened \in Seq(chars)
      /\ Cat(Opened, i) \in Seq(chars) /\ Quote \in chars
  BY <1>0, StringWords
<1>10. /\ In(chars, max, "insides", i, x.chars) /\ Blank(chars, b)
       /\ (x.key => KeyReady(chars, max, cs, p, s)) /\ (~x.key => ValueReady(chars, max, cs, p, s))
  BY <1>0 DEF WithinString
<1>2. In(chars, max, "insides", Add(i, ch), y.chars)
  <2>1. ch \in chars \ ({"quote", "\\"} \cup Control)
    BY Zenon DEF Quote, Backslash
  <2>2. In(chars, max, "insides", Append(i, ch), Append(x.chars, ch))
    BY <1>10, <2>1, MoreInside, Zenon
  <2> QED
    BY <2>2 DEF Add
<1>3. Add(Cat(p, Cat(b, Cat(Opened, i))), ch) = Cat(p, Cat(b, Add(Cat(Opened, i), ch)))
  BY <1>1, Deep
<1>4. Add(Cat(Opened, i), ch) = Cat(Opened, Add(i, ch))
  BY <1>1, CatAdd
<1>5. Add(t, ch) = Cat(p, Cat(b, Cat(Opened, Add(i, ch))))
  BY <1>0, <1>3, <1>4
<1> QED
  BY <1>1, <1>10, <1>2, <1>5 DEF AtString, WithinString

LEMMA BackslashRead ==
  ASSUME NEW chars, NEW max \in Nat, NEW t, NEW cs \in Seq(Activation), NEW x, NEW s,
         AtString(chars, max, t, cs, x, s), NEW ch \in chars, ch = Backslash
  PROVE  AtEscape(chars, max, Add(t, ch), cs, x, s)
<1>0. PICK p, b, i : WithinString(chars, max, cs, x, s, p, b, i) /\ t = Cat(p, Cat(b, Cat(Opened, i)))
  BY DEF AtString
<1>1. /\ p \in Seq(chars) /\ b \in Seq(chars) /\ i \in Seq(chars) /\ Opened \in Seq(chars)
      /\ Cat(Opened, i) \in Seq(chars) /\ Quote \in chars
  BY <1>0, StringWords
<1>10. /\ In(chars, max, "insides", i, x.chars) /\ Blank(chars, b)
       /\ (x.key => KeyReady(chars, max, cs, p, s)) /\ (~x.key => ValueReady(chars, max, cs, p, s))
  BY <1>0 DEF WithinString
<1>3. Add(Cat(p, Cat(b, Cat(Opened, i))), ch) = Cat(p, Cat(b, Add(Cat(Opened, i), ch)))
  BY <1>1, Deep
<1>4. Add(Cat(Opened, i), ch) = Cat(Opened, Add(i, ch))
  BY <1>1, CatAdd
<1>5. Add(t, ch) = Cat(p, Cat(b, Cat(Opened, Add(i, ch))))
  BY <1>0, <1>3, <1>4
<1> QED
  BY <1>0, <1>5 DEF AtEscape

LEMMA EscapeRead ==
  ASSUME NEW chars, NEW max \in Nat, NEW t, NEW cs \in Seq(Activation), NEW x, NEW s,
         AtEscape(chars, max, t, cs, x, s), NEW e \in Escapes, e[1] \in chars,
         NEW y, y.key = x.key, y.chars = Append(x.chars, e[2])
  PROVE  AtString(chars, max, Add(t, e[1]), cs, y, s)
<1>0. PICK p, b, i : /\ WithinString(chars, max, cs, x, s, p, b, i) /\ Backslash \in chars
                      /\ t = Cat(p, Cat(b, Cat(Opened, Add(i, Backslash))))
  BY DEF AtEscape
<1>1. /\ p \in Seq(chars) /\ b \in Seq(chars) /\ i \in Seq(chars) /\ Opened \in Seq(chars)
      /\ Cat(Opened, i) \in Seq(chars) /\ Quote \in chars
  BY <1>0, StringWords
<1>10. /\ In(chars, max, "insides", i, x.chars) /\ Blank(chars, b)
       /\ (x.key => KeyReady(chars, max, cs, p, s)) /\ (~x.key => ValueReady(chars, max, cs, p, s))
  BY <1>0 DEF WithinString
<1> DEFINE j == Add(i, Backslash)
           ch == e[1]
<1>2. In(chars, max, "insides", Add(j, ch), y.chars)
  <2>1. {"\\", e[1]} \subseteq chars
    BY <1>0, Zenon DEF Backslash
  <2>2. In(chars, max, "insides", Append(Append(i, "\\"), e[1]), Append(x.chars, e[2]))
    BY <1>10, <2>1, MoreEscape, Zenon
  <2> QED
    BY <2>2, Zenon DEF Add, Backslash
<1>6. j \in Seq(chars) /\ Opened \in Seq(chars) /\ ch \in chars
  BY <1>0, <1>1, CatIn
<1> HIDE DEF j, ch
<1>7. Cat(Opened, j) \in Seq(chars)
  BY <1>6, CatIn
<1>3. Add(Cat(p, Cat(b, Cat(Opened, j))), ch) = Cat(p, Cat(b, Add(Cat(Opened, j), ch)))
  BY <1>1, <1>6, <1>7, Deep
<1>4. Add(Cat(Opened, j), ch) = Cat(Opened, Add(j, ch))
  BY <1>6, CatAdd
<1>8. t = Cat(p, Cat(b, Cat(Opened, j)))
  BY <1>0 DEF j
<1>5. Add(t, ch) = Cat(p, Cat(b, Cat(Opened, Add(j, ch))))
  BY <1>8, <1>3, <1>4
<1>9. AtString(chars, max, Add(t, ch), cs, y, s)
  BY <1>1, <1>10, <1>2, <1>5 DEF AtString, WithinString
<1> QED
  BY <1>9 DEF ch

LEMMA StringEnds ==
  ASSUME NEW chars, NEW max \in Nat, NEW t, NEW cs \in Seq(Activation), NEW x, NEW s,
         AtString(chars, max, t, cs, x, s), NEW ch \in chars, ch = Quote
  PROVE  /\ x.key => AtColon(chars, max, Add(t, ch), cs, Add(s, <<"string", x.chars>>))
         /\ ~x.key => AtNext(chars, max, Add(t, ch), Counted(cs), Add(s, <<"string", x.chars>>))
<1>0. PICK p, b, i : WithinString(chars, max, cs, x, s, p, b, i) /\ t = Cat(p, Cat(b, Cat(Opened, i)))
  BY DEF AtString
<1>1. /\ p \in Seq(chars) /\ b \in Seq(chars) /\ i \in Seq(chars) /\ Opened \in Seq(chars)
      /\ Cat(Opened, i) \in Seq(chars) /\ Quote \in chars
  BY <1>0, StringWords
<1>10. /\ In(chars, max, "insides", i, x.chars) /\ Blank(chars, b)
       /\ (x.key => KeyReady(chars, max, cs, p, s)) /\ (~x.key => ValueReady(chars, max, cs, p, s))
  BY <1>0 DEF WithinString
<1> DEFINE v == <<"string", x.chars>>
           z == Cat(Opened, i)
           y == Cat(z, Opened)
           u == Cat(b, y)
<1>2. In(chars, max, "values", y, v) /\ In(chars, max, "name", y, <<v>>)
  BY <1>1, <1>10, StringValue1, StringName DEF Quote, Opened, Cat
<1> HIDE DEF v, y
<1>3. In(chars, max, "values", u, v) /\ In(chars, max, "name", u, <<v>>)
  BY <1>10, <1>2, Lead DEF Spaceable, Cat
<1> HIDE DEF u
<1>4. z \in Seq(chars) /\ t = Cat(p, Cat(b, z))
  BY <1>0, <1>1
<1> HIDE DEF z
<1>5. Add(z, ch) = y
  BY <1>4, CatOne DEF y, Opened
<1>6. Add(t, ch) = Cat(p, u)
  BY <1>1, <1>4, <1>5, Deep DEF u
<1>7. ASSUME x.key PROVE AtColon(chars, max, Add(t, ch), cs, Add(s, v))
  BY <1>10, <1>3, <1>6, <1>7 DEF AtColon
<1>8. ASSUME ~x.key PROVE AtNext(chars, max, Add(t, ch), Counted(cs), Add(s, v))
  BY <1>10, <1>3, <1>6, <1>8 DEF AtNext
<1> QED
  BY <1>7, <1>8 DEF v

\* A number.
LEMMA SignWords ==
  ASSUME NEW chars, NEW minus, NEW b, NEW g, Signs(chars, minus, b, g)
  PROVE  b \in Seq(chars) /\ SignOf(minus) \in Seq(chars) /\ g \in Seq(chars) /\ g = Cat(b, SignOf(minus))
<1>1. b \in Seq(chars) /\ g = Cat(b, SignOf(minus))
  BY BlankSeq DEF Signs
<1>2. SignOf(minus) \in Seq(chars)
  <2>1. CASE minus
    BY <2>1, OneByte DEF Signs, SignOf
  <2>2. CASE ~minus
    BY <2>2, EmptySeq DEF SignOf
  <2> QED
    BY <2>1, <2>2
<1> QED
  BY <1>1, <1>2, ConcatProperties DEF Cat

LEMMA SignRead ==
  ASSUME NEW chars, NEW max \in Nat, NEW t, NEW cs \in Seq(Activation), NEW s,
         AtGap(chars, max, t, "value", cs, s), NEW ch \in chars, ch = MinusByte,
         NEW x, x.minus = TRUE, ~x.big
  PROVE  AtSign(chars, max, Add(t, ch), cs, x, s)
<1>1. PICK p, b : t = Cat(p, b) /\ Blank(chars, b) /\ ValueReady(chars, max, cs, p, s)
  BY DEF AtGap
<1>2. p \in Seq(chars) /\ b \in Seq(chars)
  BY <1>1, ReadyWords, BlankSeq
<1> DEFINE g == Cat(b, SignOf(x.minus))
<1>3. Signs(chars, x.minus, b, g)
  BY <1>1 DEF Signs
<1>4. g = Add(b, ch)
  BY <1>2, CatOne DEF SignOf
<1> HIDE DEF g
<1>5. Add(t, ch) = Cat(p, g)
  BY <1>1, <1>2, <1>4, CatAdd
<1> QED
  BY <1>1, <1>3, <1>5 DEF AtSign

LEMMA NoSign ==
  ASSUME NEW chars, NEW max \in Nat, NEW t, NEW cs \in Seq(Activation), NEW s,
         AtGap(chars, max, t, "value", cs, s), NEW x, x.minus = FALSE, ~x.big
  PROVE  AtSign(chars, max, t, cs, x, s)
<1>1. PICK p, b : t = Cat(p, b) /\ Blank(chars, b) /\ ValueReady(chars, max, cs, p, s)
  BY DEF AtGap
<1>2. p \in Seq(chars) /\ b \in Seq(chars)
  BY <1>1, ReadyWords, BlankSeq
<1> DEFINE g == Cat(b, SignOf(x.minus))
<1>3. Signs(chars, x.minus, b, g)
  BY <1>1 DEF Signs
<1>4. g = b
  BY <1>2, NoneAfter DEF SignOf
<1> HIDE DEF g
<1> QED
  BY <1>1, <1>3, <1>4 DEF AtSign

\* What a number with its sign means.
Signature(minus, n) == IF minus THEN -n ELSE n

LEMMA NumberValue ==
  ASSUME NEW chars, NEW max \in Nat, NEW minus \in BOOLEAN, NEW b, NEW g, Signs(chars, minus, b, g),
         NEW D, NEW n \in Nat, In(chars, max, "numerals", D, n), D # <<>>
  PROVE  In(chars, max, "values", Cat(g, D), Number(Signature(minus, n)))
<1>1. b \in Seq(chars) /\ SignOf(minus) \in Seq(chars) /\ g = Cat(b, SignOf(minus)) /\ D \in Seq(chars)
      /\ Blank(chars, b)
  BY SignWords DEF In, Signs
<1>2. In(chars, max, "values", Cat(SignOf(minus), D), Number(Signature(minus, n)))
  <2>1. CASE minus
    <3>1. In(chars, max, "values", <<"-">> \o D, Number(-n))
      <4>1. "-" \in chars
        BY <2>1, Zenon DEF Signs, MinusByte
      <4> QED
        BY <4>1, MinusValue, Zenon
    <3>2. SignOf(minus) = <<"-">> /\ Signature(minus, n) = -n
      BY <2>1, Zenon DEF SignOf, MinusByte, Signature
    <3> QED
      BY <3>1, <3>2, Zenon DEF Cat
  <2>2. CASE ~minus
    <3>1. In(chars, max, "values", D, Number(n))
      BY NumeralValue
    <3>2. SignOf(minus) = <<>> /\ Signature(minus, n) = n
      BY <2>2 DEF SignOf, Signature
    <3>3. Cat(<<>>, D) = D
      BY <1>1, ConcatEmptySeq DEF Cat
    <3> QED
      BY <3>1, <3>2, <3>3
  <2> QED
    BY <2>1, <2>2
<1> DEFINE y == Cat(SignOf(minus), D)
<1>3. Cat(g, D) = Cat(b, y)
  BY <1>1, CatAssoc
<1> HIDE DEF y
<1>4. In(chars, max, "values", Cat(b, y), Number(Signature(minus, n)))
  BY <1>1, <1>2, Lead DEF Spaceable, Cat, y
<1> QED
  BY <1>3, <1>4

LEMMA ZeroSign == \A m : Signature(m, 0) = 0
<1> TAKE m
<1>1. \A n \in Int : -n = 0 - n
  OBVIOUS
<1>2. 0 \in Int /\ 0 - 0 = 0
  OBVIOUS
<1>3. -0 = 0
  BY <1>1, <1>2, Zenon
<1> QED
  BY <1>3, Zenon DEF Signature

LEMMA ZeroRead ==
  ASSUME NEW chars, NEW max \in Nat, NEW t, NEW cs \in Seq(Activation), NEW x, NEW s,
         AtSign(chars, max, t, cs, x, s), NEW ch \in chars, ch = Digit[0]
  PROVE  AtNext(chars, max, Add(t, ch), Counted(cs), Add(s, Number(0)))
<1>1. PICK p, b, g : Signs(chars, x.minus, b, g) /\ t = Cat(p, g) /\ ValueReady(chars, max, cs, p, s) /\ x.minus \in BOOLEAN
  BY DEF AtSign
<1>2. p \in Seq(chars) /\ g \in Seq(chars)
  BY <1>1, ReadyWords, SignWords
<1> DEFINE D == <<ch>>
<1>3. 0 \in 0 .. BASE - 1 /\ 0 \in Nat
  BY TextAssumption
<1>4. In(chars, max, "numerals", D, 0)
  BY <1>3, OneNumeral
<1>5. D # <<>>
  OBVIOUS
<1>6. Cat(g, D) = Add(g, ch)
  BY <1>2, CatOne
<1> HIDE DEF D
<1>7. Signature(x.minus, 0) = 0
  BY ZeroSign
<1>8. In(chars, max, "values", Cat(g, D), Number(0))
  BY <1>1, <1>3, <1>4, <1>5, <1>7, NumberValue
<1>9. Add(t, ch) = Cat(p, Cat(g, D))
  BY <1>1, <1>2, <1>6, CatAdd
<1> QED
  BY <1>1, <1>8, <1>9 DEF AtNext

LEMMA DigitRead ==
  ASSUME NEW chars, NEW max \in Nat, NEW t, NEW cs \in Seq(Activation), NEW x, NEW s,
         AtSign(chars, max, t, cs, x, s), NEW d \in 0 .. BASE - 1, d # 0, NEW ch \in chars, ch = Digit[d],
         NEW y, y.minus = x.minus, y.i = d, ~y.big
  PROVE  AtDigits(chars, max, Add(t, ch), cs, y, s)
<1>1. PICK p, b, g : Signs(chars, x.minus, b, g) /\ t = Cat(p, g) /\ ValueReady(chars, max, cs, p, s) /\ x.minus \in BOOLEAN
  BY DEF AtSign
<1>2. p \in Seq(chars) /\ g \in Seq(chars)
  BY <1>1, ReadyWords, SignWords
<1> DEFINE D == <<ch>>
<1>3. d \in Nat /\ 0 \in 0 .. BASE - 1
  BY TextAssumption
<1>4. In(chars, max, "numerals", D, d)
  BY OneNumeral
<1>5. D # <<>> /\ D # <<Digit[0]>>
  <2>1. ch # Digit[0]
    BY <1>3, TextAssumption
  <2> QED
    BY <2>1
<1>6. Cat(g, D) = Add(g, ch)
  BY <1>2, CatOne
<1> HIDE DEF D
<1>9. Add(t, ch) = Cat(p, Cat(g, D))
  BY <1>1, <1>2, <1>6, CatAdd
<1> QED
  BY <1>1, <1>3, <1>4, <1>5, <1>9 DEF AtDigits

LEMMA MoreThanOne == \A C : \A D \in Seq(C) : \A e \in C : D # <<>> => Append(D, e) # <<>> /\ \A z : Append(D, e) # <<z>>
<1> TAKE C
<1> TAKE D \in Seq(C)
<1> TAKE e \in C
<1> HAVE D # <<>>
<1>1. Len(D) \in Nat \ {0}
  BY EmptySeq
<1>2. Len(Append(D, e)) = Len(D) + 1 /\ Append(D, e) \in Seq(C)
  BY AppendProperties
<1>3. \A z : Len(<<z>>) = 1
  OBVIOUS
<1>4. Len(<<>>) = 0
  OBVIOUS
<1> DEFINE y == Append(D, e)
<1> HIDE DEF y
<1>5. Len(y) # 0 /\ Len(y) # 1
  BY <1>1, <1>2 DEF y
<1>6. y # <<>> /\ \A z : y # <<z>>
  BY <1>3, <1>4, <1>5
<1> QED
  BY <1>6 DEF y

LEMMA DigitMore ==
  ASSUME NEW chars, NEW max \in Nat, NEW t, NEW cs \in Seq(Activation), NEW x, NEW s,
         AtDigits(chars, max, t, cs, x, s), NEW d \in 0 .. BASE - 1, NEW ch \in chars, ch = Digit[d],
         NEW y, y.minus = x.minus,
         y.big => x.big \/ x.i * BASE + d > Largest(x.minus),
         ~y.big => ~x.big /\ y.i = x.i * BASE + d
  PROVE  AtDigits(chars, max, Add(t, ch), cs, y, s)
<1>1. PICK p, b, g, D, n :
         /\ Signs(chars, x.minus, b, g) /\ t = Cat(p, Cat(g, D)) /\ ValueReady(chars, max, cs, p, s)
         /\ In(chars, max, "numerals", D, n) /\ D # <<>> /\ D # <<Digit[0]>> /\ n \in Nat
         /\ (x.big => n > Largest(x.minus)) /\ (~x.big => x.i = n) /\ x.minus \in BOOLEAN
  BY DEF AtDigits
<1>2. p \in Seq(chars) /\ g \in Seq(chars) /\ D \in Seq(chars)
  BY <1>1, ReadyWords, SignWords DEF In
<1> DEFINE E == Add(D, ch)
           k == n * BASE + d
<1>3. In(chars, max, "numerals", E, k)
  BY <1>1, MoreNumerals DEF Add
<1>4. E # <<>> /\ E # <<Digit[0]>>
  BY <1>1, <1>2, MoreThanOne DEF Add
<1>5. Add(t, ch) = Cat(p, Cat(g, E))
  <2> HIDE DEF E
  <2>1. Add(Cat(p, Cat(g, D)), ch) = Cat(p, Cat(g, Add(D, ch)))
    BY <1>2, Deep
  <2> QED
    BY <1>1, <2>1 DEF E
<1>6. k \in Nat /\ k >= n
  <2>1. BASE \in Nat /\ BASE >= 2 /\ d \in Nat
    BY TextAssumption
  <2>2. n * BASE >= n /\ n * BASE \in Nat
    BY <1>1, <2>1
  <2> QED
    BY <1>1, <2>1, <2>2
<1>7. y.big => k > Largest(y.minus)
  <2>1. Largest(x.minus) \in Int
    BY WidthEven DEF Largest
  <2>2. CASE x.big
    BY <1>1, <1>6, <2>1, <2>2
  <2>3. CASE ~x.big
    BY <1>1, <2>3
  <2> QED
    BY <2>2, <2>3
<1>8. ~y.big => y.i = k
  BY <1>1
<1> HIDE DEF E, k
<1> QED
  BY <1>1, <1>3, <1>4, <1>5, <1>6, <1>7, <1>8 DEF AtDigits

LEMMA TooLarge ==
  ASSUME NEW minus \in BOOLEAN, NEW n \in Nat, n > Largest(minus)
  PROVE  Number(Signature(minus, n)) = <<"number", <<>>>>
<1>1. Half \in Nat /\ Width = 2 * Half /\ Half > 0
  BY WidthEven
<1>2. Signature(minus, n) \notin -Half .. Half - 1
  BY <1>1 DEF Signature, Largest
<1> QED
  BY <1>2 DEF Number

LEMMA NumberEnds ==
  ASSUME NEW chars, NEW max \in Nat, NEW t, NEW cs \in Seq(Activation), NEW x, NEW s,
         AtDigits(chars, max, t, cs, x, s), NEW v,
         x.big => v = <<"number", <<>>>>, ~x.big => v = Number(Signature(x.minus, x.i))
  PROVE  AtNext(chars, max, t, Counted(cs), Add(s, v))
<1>1. PICK p, b, g, D, n :
         /\ Signs(chars, x.minus, b, g) /\ t = Cat(p, Cat(g, D)) /\ ValueReady(chars, max, cs, p, s)
         /\ In(chars, max, "numerals", D, n) /\ D # <<>> /\ n \in Nat
         /\ (x.big => n > Largest(x.minus)) /\ (~x.big => x.i = n) /\ x.minus \in BOOLEAN
  BY DEF AtDigits
<1>2. v = Number(Signature(x.minus, n))
  <2>1. CASE x.big
    BY <1>1, <2>1, TooLarge
  <2>2. CASE ~x.big
    BY <1>1, <2>2
  <2> QED
    BY <2>1, <2>2
<1>3. In(chars, max, "values", Cat(g, D), v)
  BY <1>1, <1>2, NumberValue
<1> QED
  BY <1>1, <1>3 DEF AtNext

\* Between lexemes.
LEMMA ColonRead ==
  ASSUME NEW chars, NEW max \in Nat, NEW t, NEW cs \in Seq(Activation), cs # <<>>, NEW s,
         AtColon(chars, max, t, cs, s), NEW ch \in chars, ch = ColonByte
  PROVE  AtGap(chars, max, Add(t, ch), "value", cs, s)
<1>1. PICK p, u, n, below : /\ t = Cat(p, u) /\ In(chars, max, "name", u, <<n>>)
                            /\ KeyReady(chars, max, cs, p, below) /\ s = Add(below, n)
  BY DEF AtColon
<1>2. p \in Seq(chars) /\ u \in Seq(chars)
  BY <1>1, ReadyWords DEF In
<1> DEFINE q == Cat(p, Add(u, ch))
<1>3. ValueReady(chars, max, cs, p \o Append(u, ColonByte), Append(below, n))
  BY <1>1, NamedReady
<1>4. ValueReady(chars, max, cs, q, s)
  BY <1>1, <1>3 DEF Cat, Add
<1>5. Add(t, ch) = q
  BY <1>1, <1>2, CatAdd
<1>6. q \in Seq(chars)
  BY <1>4, ReadyWords
<1> HIDE DEF q
<1>7. q = Cat(q, <<>>)
  BY <1>6, NoneAfter
<1>8. Blank(chars, <<>>)
  BY EmptySeq DEF Blank
<1>9. AtGap(chars, max, q, "value", cs, s)
  BY <1>4, <1>7, <1>8 DEF AtGap
<1> QED
  BY <1>5, <1>9

LEMMA NotEmptyCounted == \A ds : Counted(ds) # <<>> => ds # <<>>
BY DEF Counted

LEMMA EmptyCounted == \A ds \in Seq(Activation) : Counted(ds) = <<>> => ds = <<>>
<1> TAKE ds \in Seq(Activation)
<1>1. ds # <<>> => Counted(ds) # <<>>
  BY CountedShape
<1> QED
  BY <1>1

LEMMA CommaRead ==
  ASSUME NEW chars, NEW max \in Nat, NEW t, NEW cs, cs # <<>>, NEW s,
         AtNext(chars, max, t, cs, s), NEW ch \in chars, ch = CommaByte
  PROVE  AtGap(chars, max, Add(t, ch), IF Last(cs).what = "object" THEN "member" ELSE "value", cs, s)
<1>1. PICK p, u, v, ds, below : /\ t = Cat(p, u) /\ In(chars, max, "values", u, v)
                                /\ ds \in Seq(Activation) /\ cs = Counted(ds)
                                /\ ValueReady(chars, max, ds, p, below) /\ s = Add(below, v)
  BY DEF AtNext
<1>2. p \in Seq(chars) /\ u \in Seq(chars)
  BY <1>1, ReadyWords DEF In
<1>3. ds # <<>>
  BY <1>1, NotEmptyCounted
<1>4. Last(ds).what = Last(cs).what
  <2>1. Len(ds) \in 1 .. Len(ds) /\ Last(ds) = ds[Len(ds)] /\ cs \in Seq(Activation) /\ cs # <<>> /\ Len(cs) = Len(ds)
        /\ \A i \in 1 .. Len(ds) : cs[i].what = ds[i].what
    BY <1>1, <1>3, CountedShape
  <2>2. Last(cs) = cs[Len(cs)]
    BY <2>1, CountedShape
  <2> QED
    BY <2>1, <2>2
<1> DEFINE q == Cat(p, Add(u, ch))
<1>5. Add(t, ch) = q
  BY <1>1, <1>2, CatAdd
<1>6. /\ Last(cs).what = "object" => KeyReady(chars, max, cs, q, s)
      /\ Last(cs).what # "object" => ValueReady(chars, max, cs, q, s)
  <2> DEFINE q1 == p \o Append(u, CommaByte)
             s1 == Append(below, v)
  <2>1. IF Last(ds).what = "object" THEN KeyReady(chars, max, Counted(ds), q1, s1)
        ELSE ValueReady(chars, max, Counted(ds), q1, s1)
    BY <1>1, <1>3, NextReady
  <2>2. q1 = q /\ s1 = s
    BY <1>1 DEF Cat, Add
  <2> HIDE DEF q1, s1, q
  <2> QED
    BY <1>1, <1>4, <2>1, <2>2
<1>7. cs \in Seq(Activation)
  BY <1>1, <1>3, CountedShape
<1>8. q \in Seq(chars)
  BY <1>6, <1>7, ReadyWords
<1> HIDE DEF q
<1>9. q = Cat(q, <<>>)
  BY <1>8, NoneAfter
<1>10. Blank(chars, <<>>)
  BY EmptySeq DEF Blank
<1>11. CASE Last(cs).what = "object"
  <2>1. AtGap(chars, max, q, "member", cs, s)
    BY <1>6, <1>9, <1>10, <1>11 DEF AtGap
  <2> QED
    BY <1>5, <1>11, <2>1
<1>12. CASE Last(cs).what # "object"
  <2>1. AtGap(chars, max, q, "value", cs, s)
    BY <1>6, <1>9, <1>10, <1>12 DEF AtGap
  <2> QED
    BY <1>5, <1>12, <2>1
<1> QED
  BY <1>11, <1>12

\* What a closed object or array leaves.
LEMMA ClosedNext ==
  ASSUME NEW chars, NEW max \in Nat, NEW cs \in Seq(Activation), cs # <<>>, NEW t, NEW s, NEW V, Sequence(V),
         Closed(chars, max, cs, t, s, V)
  PROVE  AtNext(chars, max, Add(t, Closing[Last(cs).what]), Counted(Front(cs)), Popped(s, Len(V), Last(cs).what))
<1> DEFINE what == Last(cs).what
<1>1. PICK p, below, x : /\ ValueReady(chars, max, Front(cs), p, below) /\ Sequence(below)
                         /\ In(chars, max, "values", x, <<what, V>>)
                         /\ Add(t, Closing[what]) = Cat(p, x)
                         /\ s = Cat(Add(below, <<what, <<>>>>), V)
  BY DEF Closed
<1>2. Popped(s, Len(V), what) = Add(below, <<what, V>>)
  BY <1>1, Pops
<1>3. Front(cs) \in Seq(Activation)
  BY FrontShape
<1> HIDE DEF what
<1>4. AtNext(chars, max, Add(t, Closing[what]), Counted(Front(cs)), Popped(s, Len(V), what))
  BY <1>1, <1>2, <1>3 DEF AtNext
<1> QED
  BY <1>4 DEF what

LEMMA EmptyRead ==
  ASSUME NEW chars, NEW max \in Nat, NEW t, NEW place \in {"first", "element"}, NEW cs \in Seq(Activation), NEW s,
         AtGap(chars, max, t, place, cs, s), NEW ch \in chars, ch = Closing[Last(cs).what]
  PROVE  AtNext(chars, max, Add(t, ch), Counted(Front(cs)), Popped(s, 0, Last(cs).what))
<1>1. PICK p, b : t = Cat(p, b) /\ Blank(chars, b) /\ Fresh(chars, max, cs, p, s)
  BY DEF AtGap
<1>2. Closed(chars, max, cs, t, s, <<>>)
  BY <1>1, EndsEmpty
<1>3. cs # <<>> /\ Sequence(<<>>) /\ Len(<<>>) = 0
  BY <1>1, EmptySeq DEF Fresh, Sequence
<1> QED
  BY <1>2, <1>3, ClosedNext

LEMMA CloseRead ==
  ASSUME NEW chars, NEW max \in Nat, NEW t, NEW cs, cs # <<>>, NEW s,
         AtNext(chars, max, t, cs, s), NEW ch \in chars, ch = Closing[Last(cs).what]
  PROVE  AtNext(chars, max, Add(t, ch), Counted(Front(cs)), Popped(s, OnStack(Last(cs)), Last(cs).what))
<1>1. PICK p, u, v, ds, below : /\ t = Cat(p, u) /\ In(chars, max, "values", u, v)
                                /\ ds \in Seq(Activation) /\ cs = Counted(ds)
                                /\ ValueReady(chars, max, ds, p, below) /\ s = Add(below, v)
  BY DEF AtNext
<1>3. ds # <<>> /\ cs \in Seq(Activation)
  BY <1>1, NotEmptyCounted, CountedShape
<1>4. PICK V : Closed(chars, max, cs, Cat(p, u), Add(below, v), V) /\ Sequence(V) /\ Len(V) = OnStack(Last(cs))
  BY <1>1, <1>3, EndsFull
<1>5. Closed(chars, max, cs, t, s, V)
  BY <1>1, <1>4
<1>6. AtNext(chars, max, Add(t, Closing[Last(cs).what]), Counted(Front(cs)), Popped(s, Len(V), Last(cs).what))
  BY <1>3, <1>4, <1>5, ClosedNext
<1> QED
  BY <1>4, <1>6

LEMMA EndRead ==
  ASSUME NEW chars, NEW max \in Nat, NEW t, NEW s, AtNext(chars, max, t, <<>>, s)
  PROVE  AtEnd(chars, max, t, s)
<1>1. PICK p, u, v, ds, below : /\ t = Cat(p, u) /\ In(chars, max, "values", u, v)
                                /\ ds \in Seq(Activation) /\ <<>> = Counted(ds)
                                /\ ValueReady(chars, max, ds, p, below) /\ s = Add(below, v)
  BY DEF AtNext
<1>2. ds = <<>>
  BY <1>1, EmptyCounted
<1>3. p = <<>> /\ below = <<>>
  BY <1>1, <1>2, RootHas
<1>4. u \in Seq(chars)
  BY <1>1 DEF In
<1>5. Cat(<<>>, u) = u
  BY <1>4, ConcatEmptySeq DEF Cat
<1>6. Add(<<>>, v) = <<v>>
  BY AppendNone DEF Add
<1> QED
  BY <1>1, <1>3, <1>5, <1>6 DEF AtEnd

LEMMA ElementRead ==
  ASSUME NEW chars, NEW max \in Nat, NEW t, NEW cs \in Seq(Activation), NEW s,
         AtGap(chars, max, t, "element", cs, s), Last(cs).what = "array"
  PROVE  AtGap(chars, max, t, "value", cs, s)
<1>1. PICK p, b : t = Cat(p, b) /\ Blank(chars, b) /\ Fresh(chars, max, cs, p, s)
  BY DEF AtGap
<1>2. ValueReady(chars, max, cs, p, s)
  BY <1>1, FreshReady
<1> QED
  BY <1>1, <1>2 DEF AtGap

LEMMA RootRead ==
  ASSUME NEW chars, NEW max, NEW t, NEW cs, NEW s, AtGap(chars, max, t, "root", cs, s)
  PROVE  AtGap(chars, max, t, "value", cs, s)
<1>1. PICK p, b : t = Cat(p, b) /\ Blank(chars, b) /\ ValueReady(chars, max, cs, p, s)
  BY DEF AtGap
<1> QED
  BY <1>1 DEF AtGap

LEMMA StartRead ==
  ASSUME NEW chars, NEW max
  PROVE  Placed(chars, max, <<>>, "root", <<>>, NoLex, <<>>)
<1>1. Blank(chars, <<>>) /\ Cat(<<>>, <<>>) = <<>>
  <2>1. <<>> \o <<>> = <<>>
    OBVIOUS
  <2> QED
    BY <2>1, EmptySeq DEF Blank, Cat
<1>2. ValueReady(chars, max, <<>>, <<>>, <<>>)
  BY RootReady
<1>3. AtGap(chars, max, <<>>, "root", <<>>, <<>>)
  BY <1>1, <1>2 DEF AtGap
<1> QED
  BY <1>3 DEF Placed, Gaps

-----------------------------------------------------------------------------
(* The reader's state: where it stands after the text t.                   *)

Here(chars, max, t) == Placed(chars, max, t, at, calls, lex, stack)

LEMMA PlacedGap == \A chars, max, t, cs, s : \A place \in Gaps :
                     AtGap(chars, max, t, place, cs, s) => Placed(chars, max, t, place, cs, NoLex, s)
BY DEF Placed, Gaps

LEMMA PlacedNext == \A chars, max, t, cs, s : AtNext(chars, max, t, cs, s) => Placed(chars, max, t, "next", cs, NoLex, s)
BY DEF Placed, Gaps

LEMMA PlacedColon == \A chars, max, t, cs, s : AtColon(chars, max, t, cs, s) => Placed(chars, max, t, "colon", cs, NoLex, s)
BY DEF Placed, Gaps

LEMMA PlacedString == \A chars, max, t, cs, x, s : AtString(chars, max, t, cs, x, s) => Placed(chars, max, t, "string", cs, x, s)
BY DEF Placed, Gaps

LEMMA PlacedEscape == \A chars, max, t, cs, x, s : AtEscape(chars, max, t, cs, x, s) => Placed(chars, max, t, "escape", cs, x, s)
BY DEF Placed, Gaps

LEMMA PlacedSign == \A chars, max, t, cs, x, s : AtSign(chars, max, t, cs, x, s) => Placed(chars, max, t, "sign", cs, x, s)
BY DEF Placed, Gaps

LEMMA PlacedDigits == \A chars, max, t, cs, x, s : AtDigits(chars, max, t, cs, x, s) => Placed(chars, max, t, "digits", cs, x, s)
BY DEF Placed, Gaps

LEMMA PlacedEnd == \A chars, max, t, cs, s : AtEnd(chars, max, t, s) => Placed(chars, max, t, "parsed", cs, NoLex, s)
BY DEF Placed, Gaps

LEMMA FailsHere == ASSUME NEW chars, NEW max, NEW t, NEW error, Fails(error) PROVE Here(chars, max, t)'
BY DEF Fails, Here, Placed, Gaps

\* What the invariants say of the state before a step.
Standing(chars, max, t) == RInv /\ NumberInv /\ max \in Nat /\ Here(chars, max, t)

LEMMA StandingFacts ==
  ASSUME NEW chars, NEW max, NEW t, Standing(chars, max, t)
  PROVE  /\ max \in Nat /\ calls \in Seq(Activation) /\ PlaceInv
         /\ at \notin {"string", "escape", "sign", "digits"} => lex = NoLex
         /\ at \in {"first", "member", "colon"} => calls # <<>> /\ Last(calls).what = "object"
         /\ at = "element" => calls # <<>> /\ Last(calls).what = "array"
BY DEF Standing, RInv, PlaceInv, InObject, InArray, Here, Placed

LEMMA StandingAt ==
  ASSUME NEW chars, NEW max, NEW t, Standing(chars, max, t)
  PROVE  /\ at \in Gaps => AtGap(chars, max, t, at, calls, stack)
         /\ at = "string" => AtString(chars, max, t, calls, lex, stack)
         /\ at = "escape" => AtEscape(chars, max, t, calls, lex, stack)
         /\ at = "colon"  => AtColon(chars, max, t, calls, stack)
         /\ at = "sign"   => AtSign(chars, max, t, calls, lex, stack)
         /\ at = "digits" => AtDigits(chars, max, t, calls, lex, stack)
         /\ at = "next"   => AtNext(chars, max, t, calls, stack)
BY DEF Standing, Here, Placed

LEMMA SkipReads ==
  ASSUME NEW chars, NEW max, NEW t, Standing(chars, max, t), NEW ch \in chars, ch = Peek, Skip
  PROVE  Here(chars, max, Add(t, ch))'
<1>1. max \in Nat /\ calls \in Seq(Activation) /\ at \in White /\ ch \in Blanks
  BY StandingFacts DEF Skip, At
<1>2. at' = at /\ calls' = calls /\ lex' = lex /\ stack' = stack /\ lex = NoLex
  BY <1>1, StandingFacts DEF Skip, White
<1>3. CASE at \in Gaps
  <2>1. AtGap(chars, max, Add(t, ch), at, calls, stack)
    BY <1>1, <1>3, StandingAt, GapBlank
  <2>2. Placed(chars, max, Add(t, ch), at, calls, NoLex, stack)
    BY <1>3, <2>1, PlacedGap
  <2> QED
    BY <1>2, <2>2 DEF Here
<1>4. CASE at = "colon"
  <2>1. AtColon(chars, max, Add(t, ch), calls, stack)
    BY <1>1, <1>4, StandingAt, ColonBlank
  <2>2. Placed(chars, max, Add(t, ch), at, calls, NoLex, stack)
    BY <1>4, <2>1, PlacedColon
  <2> QED
    BY <1>2, <2>2 DEF Here
<1>5. CASE at = "next"
  <2>1. AtNext(chars, max, Add(t, ch), calls, stack)
    BY <1>1, <1>5, StandingAt, NextBlank
  <2>2. Placed(chars, max, Add(t, ch), at, calls, NoLex, stack)
    BY <1>5, <2>1, PlacedNext
  <2> QED
    BY <1>2, <2>2 DEF Here
<1> QED
  BY <1>1, <1>3, <1>4, <1>5 DEF White, Gaps

\* The event of a value.
LEMMA EventHere ==
  ASSUME NEW chars, NEW max, NEW t, NEW v, Event(v), AtNext(chars, max, t, Counted(calls), Add(stack, v))
  PROVE  Here(chars, max, t)'
<1>1. at' = "next" /\ calls' = Counted(calls) /\ lex' = NoLex /\ stack' = Add(stack, v)
  BY DEF Event, Add
<1>2. Placed(chars, max, t, "next", Counted(calls), NoLex, Add(stack, v))
  BY PlacedNext
<1> QED
  BY <1>1, <1>2 DEF Here

LEMMA LiteralReads ==
  ASSUME NEW chars, NEW max, NEW t, Standing(chars, max, t), NEW ch \in chars, ch = Peek, ParseLiteral
  PROVE  Here(chars, max, Add(t, ch))'
<1>1. CASE Peek # "t"
  <2>1. \E error : Fails(error)
    BY <1>1 DEF ParseLiteral
  <2> QED
    BY <2>1, FailsHere
<1>2. CASE Peek = "t"
  <2>1. at = "value" /\ Event(<<"true", <<>>>>) /\ ch = "t"
    BY <1>2 DEF ParseLiteral, At
  <2>2. AtGap(chars, max, t, "value", calls, stack)
    BY <2>1, StandingAt DEF Gaps
  <2>3. AtNext(chars, max, Add(t, ch), Counted(calls), Add(stack, <<"true", <<>>>>))
    BY <2>1, <2>2, StandingFacts, TrueRead
  <2> QED
    BY <2>1, <2>3, EventHere
<1> QED
  BY <1>1, <1>2

LEMMA CallReads ==
  ASSUME NEW chars, NEW max, NEW t, Standing(chars, max, t), NEW ch \in chars, ch = Peek, ParseObject \/ ParseArray
  PROVE  Here(chars, max, Add(t, ch))'
<1>1. PICK what \in {"object", "array"}, place \in {"first", "element"} :
        /\ at = "value" /\ ch = Opening[what] /\ at' = place
        /\ stack' = Append(stack, <<what, <<>>>>)
        /\ calls' = Append(calls, [what |-> what, count |-> 0])
        /\ lex' = lex
  <2>1. CASE ParseObject
    <3>1. ch = Opening["object"]
      BY <2>1 DEF ParseObject, Opening
    <3>2. at = "value" /\ at' = "first" /\ lex' = lex /\ stack' = Append(stack, <<"object", <<>>>>)
          /\ calls' = Append(calls, [what |-> "object", count |-> 0])
      BY <2>1 DEF ParseObject, At
    <3> QED
      BY <3>1, <3>2
  <2>2. CASE ParseArray
    <3>1. ch = Opening["array"]
      BY <2>2 DEF ParseArray, Opening
    <3>2. at = "value" /\ at' = "element" /\ lex' = lex /\ stack' = Append(stack, <<"array", <<>>>>)
          /\ calls' = Append(calls, [what |-> "array", count |-> 0])
      BY <2>2 DEF ParseArray, At
    <3> QED
      BY <3>1, <3>2
  <2> QED
    BY <2>1, <2>2
<1>2. AtGap(chars, max, t, "value", calls, stack) /\ lex = NoLex
  BY <1>1, StandingAt, StandingFacts DEF Gaps
<1> DEFINE cs == Append(calls, [what |-> what, count |-> 0])
           s == Add(stack, <<what, <<>>>>)
<1>3. AtGap(chars, max, Add(t, ch), place, cs, s)
  BY <1>1, <1>2, StandingFacts, CallRead
<1>4. stack' = s /\ calls' = cs /\ lex' = NoLex /\ at' = place
  BY <1>1, <1>2 DEF Add
<1> HIDE DEF s, cs
<1>5. Placed(chars, max, Add(t, ch), place, cs, NoLex, s)
  BY <1>3, PlacedGap DEF Gaps
<1> QED
  BY <1>4, <1>5 DEF Here

\* A string begins: a value or a name.
LEMMA QuoteReads ==
  ASSUME NEW chars, NEW max, NEW t, Standing(chars, max, t), NEW ch \in chars, ch = Peek,
         StringValue \/ Key
  PROVE  Here(chars, max, Add(t, ch))'
<1>1. CASE Peek # "quote"
  <2>1. \E error : Fails(error)
    BY <1>1 DEF StringValue, Key
  <2> QED
    BY <2>1, FailsHere
<1>2. CASE Peek = "quote"
  <2>1. /\ at \in {"value", "first", "member"} /\ (at = "value" <=> StringValue) /\ ch = Quote
        /\ at' = "string" /\ calls' = calls /\ stack' = stack
        /\ at = "value" => lex' = lex
        /\ at # "value" => lex' = [lex EXCEPT !["key"] = TRUE]
    BY <1>2 DEF StringValue, Key, At, Quote
  <2>2. AtGap(chars, max, t, at, calls, stack) /\ lex = NoLex /\ PlaceInv
    BY <2>1, StandingAt, StandingFacts DEF Gaps
  <2>3. NoLex.key = FALSE /\ NoLex.chars = <<>>
    BY DEF NoLex
  <2>4. lex'.key = (at # "value") /\ lex'.chars = <<>>
    <3>1. CASE at = "value"
      BY <2>1, <2>2, <2>3, <3>1
    <3>2. CASE at # "value"
      BY <2>1, <2>2, <2>3, <3>2, LexExcept DEF Fields
    <3> QED
      BY <3>1, <3>2
  <2>5. PICK x : x = lex'
    OBVIOUS
  <2>6. AtString(chars, max, Add(t, ch), calls, x, stack)
    <3>1. x.key = (at # "value") /\ x.chars = <<>>
      BY <2>4, <2>5
    <3>2. PICK place \in {"value", "first", "member"} : place = at
      BY <2>1
    <3>3. (calls # <<>> \/ place = "value") /\ (place # "value" => Last(calls).what = "object")
      BY <3>2, StandingFacts
    <3>4. max \in Nat /\ calls \in Seq(Activation) /\ x.key = (place # "value")
      BY <3>1, <3>2, StandingFacts
    <3>5. AtGap(chars, max, t, place, calls, stack)
      BY <2>2, <3>2
    <3> QED
      BY <2>1, <3>1, <3>3, <3>4, <3>5, QuoteRead
  <2>7. Placed(chars, max, Add(t, ch), "string", calls, x, stack)
    BY <2>6, PlacedString
  <2> QED
    BY <2>1, <2>5, <2>7 DEF Here
<1> QED
  BY <1>1, <1>2

LEMMA ScanReads ==
  ASSUME NEW chars, NEW max, NEW t, Standing(chars, max, t), NEW ch \in chars, ch = Peek, ScanString
  PROVE  Here(chars, max, Add(t, ch))'
<1>0. /\ AtString(chars, max, t, calls, lex, stack) /\ max \in Nat /\ calls \in Seq(Activation) /\ PlaceInv
      /\ at = "string" /\ ch # Quote
  BY StandingAt, StandingFacts DEF ScanString, At, Quote
<1>1. CASE \E error : Fails(error)
  BY <1>1, FailsHere
<1>2. CASE ch = Backslash
  <2>1. at' = "escape" /\ calls' = calls /\ lex' = lex /\ stack' = stack
    BY <1>2 DEF ScanString, Backslash
  <2>2. AtEscape(chars, max, Add(t, ch), calls, lex, stack)
    BY <1>0, <1>2, BackslashRead
  <2>3. Placed(chars, max, Add(t, ch), "escape", calls, lex, stack)
    BY <2>2, PlacedEscape
  <2> QED
    BY <2>1, <2>3 DEF Here
<1>3. CASE ch # Backslash /\ ~ \E error : Fails(error)
  <2>1. /\ at' = "string" /\ calls' = calls /\ stack' = stack /\ ch \notin Control
        /\ lex' = [lex EXCEPT !["chars"] = Append(@, ch)]
    BY <1>0, <1>3 DEF ScanString, Backslash
  <2>2. lex'.key = lex.key /\ lex'.chars = Append(lex.chars, ch)
    BY <1>0, <2>1, LexExcept DEF Fields
  <2>3. PICK x : x = lex'
    OBVIOUS
  <2>4. x.key = lex.key /\ x.chars = Append(lex.chars, ch)
    BY <2>2, <2>3
  <2>5. ch \notin {Quote, Backslash} \cup Control
    BY <1>0, <1>3, <2>1
  <2>6. AtString(chars, max, Add(t, ch), calls, x, stack)
    BY <1>0, <2>4, <2>5, InsideRead
  <2>7. Placed(chars, max, Add(t, ch), "string", calls, x, stack)
    BY <2>6, PlacedString
  <2> QED
    BY <2>1, <2>3, <2>7 DEF Here
<1> QED
  BY <1>1, <1>2, <1>3

LEMMA EscapeForms == \A c \in DOMAIN Unescaped : \E e \in Escapes : e[1] = c /\ e[2] = Unescaped[c]
<1> TAKE c \in DOMAIN Unescaped
<1> DEFINE e == <<c, Unescaped[c]>>
<1>1. e \in Escapes /\ e[1] = c /\ e[2] = Unescaped[c]
  BY DEF Unescaped, Escapes
<1> HIDE DEF e
<1> QED
  BY <1>1

LEMMA EscapeReads ==
  ASSUME NEW chars, NEW max, NEW t, Standing(chars, max, t), NEW ch \in chars, ch = Peek, Escape
  PROVE  Here(chars, max, Add(t, ch))'
<1>0. /\ AtEscape(chars, max, t, calls, lex, stack) /\ max \in Nat /\ calls \in Seq(Activation) /\ PlaceInv
  BY StandingAt, StandingFacts DEF Escape, At
<1>1. CASE ch \notin DOMAIN Unescaped
  <2>1. \E error : Fails(error)
    BY <1>1 DEF Escape
  <2> QED
    BY <2>1, FailsHere
<1>2. CASE ch \in DOMAIN Unescaped
  <2>1. /\ at' = "string" /\ calls' = calls /\ stack' = stack
        /\ lex' = [lex EXCEPT !["chars"] = Append(@, Unescaped[ch])]
    BY <1>2 DEF Escape
  <2>2. PICK e \in Escapes : e[1] = ch /\ e[2] = Unescaped[ch]
    BY <1>2, EscapeForms
  <2>3. lex'.key = lex.key /\ lex'.chars = Append(lex.chars, Unescaped[ch])
    BY <1>0, <2>1, LexExcept DEF Fields
  <2>4. PICK x : x = lex'
    OBVIOUS
  <2>5. x.key = lex.key /\ x.chars = Append(lex.chars, e[2]) /\ e[1] \in chars
    BY <2>2, <2>3, <2>4
  <2>6. AtString(chars, max, Add(t, e[1]), calls, x, stack)
    BY <1>0, <2>5, EscapeRead
  <2>7. Placed(chars, max, Add(t, ch), "string", calls, x, stack)
    BY <2>2, <2>6, PlacedString
  <2> QED
    BY <2>1, <2>4, <2>7 DEF Here
<1> QED
  BY <1>1, <1>2

LEMMA EndStringReads ==
  ASSUME NEW chars, NEW max, NEW t, Standing(chars, max, t), NEW ch \in chars, ch = Peek, EndString
  PROVE  Here(chars, max, Add(t, ch))'
<1>0. /\ AtString(chars, max, t, calls, lex, stack) /\ max \in Nat /\ calls \in Seq(Activation)
      /\ ch = Quote
  BY StandingAt, StandingFacts DEF EndString, At, Quote
<1>1. /\ lex.key => AtColon(chars, max, Add(t, ch), calls, Add(stack, <<"string", lex.chars>>))
      /\ ~lex.key => AtNext(chars, max, Add(t, ch), Counted(calls), Add(stack, <<"string", lex.chars>>))
  BY <1>0, StringEnds
<1>2. CASE lex.key
  <2>1. at' = "colon" /\ calls' = calls /\ lex' = NoLex /\ stack' = Add(stack, <<"string", lex.chars>>)
    BY <1>2 DEF EndString, Add
  <2>2. Placed(chars, max, Add(t, ch), "colon", calls, NoLex, Add(stack, <<"string", lex.chars>>))
    BY <1>1, <1>2, PlacedColon
  <2> QED
    BY <2>1, <2>2 DEF Here
<1>3. CASE ~lex.key
  <2>1. Event(<<"string", lex.chars>>)
    BY <1>3 DEF EndString
  <2> QED
    BY <1>1, <1>3, <2>1, EventHere
<1> QED
  BY <1>2, <1>3

LEMMA ColonReads ==
  ASSUME NEW chars, NEW max, NEW t, Standing(chars, max, t), NEW ch \in chars, ch = Peek, Colon
  PROVE  Here(chars, max, Add(t, ch))'
<1>1. CASE ch # ColonByte
  <2>1. \E error : Fails(error)
    BY <1>1 DEF Colon, ColonByte
  <2> QED
    BY <2>1, FailsHere
<1>2. CASE ch = ColonByte
  <2>1. at = "colon" /\ at' = "value" /\ calls' = calls /\ lex' = lex /\ stack' = stack
    BY <1>2 DEF Colon, At, ColonByte
  <2>2. AtColon(chars, max, t, calls, stack) /\ lex = NoLex /\ calls # <<>> /\ max \in Nat
        /\ calls \in Seq(Activation)
    BY <2>1, StandingAt, StandingFacts
  <2>3. AtGap(chars, max, Add(t, ch), "value", calls, stack)
    BY <1>2, <2>2, ColonRead
  <2>4. Placed(chars, max, Add(t, ch), "value", calls, NoLex, stack)
    BY <2>3, PlacedGap DEF Gaps
  <2> QED
    BY <2>1, <2>2, <2>4 DEF Here
<1> QED
  BY <1>1, <1>2

LEMMA CommaReads ==
  ASSUME NEW chars, NEW max, NEW t, Standing(chars, max, t), NEW ch \in chars, ch = Peek, AfterComma
  PROVE  Here(chars, max, Add(t, ch))'
<1>1. /\ at = "next" /\ calls # <<>> /\ ch = CommaByte
      /\ at' = IF Last(calls).what = "object" THEN "member" ELSE "value"
      /\ calls' = calls /\ lex' = lex /\ stack' = stack
  BY DEF AfterComma, At, CommaByte
<1>2. AtNext(chars, max, t, calls, stack) /\ lex = NoLex /\ max \in Nat
  BY <1>1, StandingAt, StandingFacts
<1> DEFINE place == IF Last(calls).what = "object" THEN "member" ELSE "value"
<1>3. AtGap(chars, max, Add(t, ch), place, calls, stack)
  BY <1>1, <1>2, CommaRead
<1>4. place \in Gaps /\ at' = place
  BY <1>1 DEF Gaps
<1> HIDE DEF place
<1>5. Placed(chars, max, Add(t, ch), place, calls, NoLex, stack)
  BY <1>3, <1>4, PlacedGap
<1> QED
  BY <1>1, <1>2, <1>4, <1>5 DEF Here

\* The end of an object or array.
LEMMA CloseReads ==
  ASSUME NEW chars, NEW max, NEW t, Standing(chars, max, t), NEW ch \in chars, ch = Peek,
         EmptyObject \/ EmptyArray \/ EndObjectOrArray
  PROVE  Here(chars, max, Add(t, ch))'
<1>0. max \in Nat /\ calls \in Seq(Activation) /\ calls # <<>> /\ lex = NoLex
  BY StandingFacts DEF EmptyObject, EmptyArray, EndObjectOrArray, At
<1> DEFINE n == IF at = "next" THEN OnStack(Last(calls)) ELSE 0
<1>1. ch = Closing[Last(calls).what] /\ at \in {"first", "element", "next"}
      /\ Closes(IF at = "next" THEN Last(calls).count ELSE 0)
  <2>1. CASE EmptyObject
    <3>1. at = "first" /\ Closes(0) /\ ch = Closing["object"]
      BY <2>1 DEF EmptyObject, At, Closing
    <3>2. Last(calls).what = "object" /\ at # "next"
      BY <3>1, StandingFacts
    <3> QED
      BY <3>1, <3>2
  <2>2. CASE EmptyArray
    <3>1. at = "element" /\ Closes(0) /\ ch = Closing["array"]
      BY <2>2 DEF EmptyArray, At, Closing
    <3>2. Last(calls).what = "array" /\ at # "next"
      BY <3>1, StandingFacts
    <3> QED
      BY <3>1, <3>2
  <2>3. CASE EndObjectOrArray
    BY <2>3 DEF EndObjectOrArray, At
  <2> QED
    BY <2>1, <2>2, <2>3
<1>2. stack' = Popped(stack, n, Last(calls).what) /\ calls' = Counted(Front(calls)) /\ at' = "next" /\ lex' = lex
  <2>1. CASE at = "next"
    BY <1>1, <2>1 DEF Closes, Popped, OnStack
  <2>2. CASE at # "next"
    <3>1. (IF Last(calls).what = "object" THEN 2 * 0 ELSE 0) = 0
      OBVIOUS
    <3> QED
      BY <1>1, <2>2, <3>1 DEF Closes, Popped
  <2> QED
    BY <2>1, <2>2
<1> HIDE DEF n
<1>3. AtNext(chars, max, Add(t, ch), Counted(Front(calls)), Popped(stack, n, Last(calls).what))
  <2>1. CASE at = "next"
    BY <1>0, <1>1, <2>1, StandingAt, CloseRead DEF n
  <2>2. CASE at # "next"
    <3>1. PICK place \in {"first", "element"} : place = at
      BY <1>1, <2>2
    <3>2. AtGap(chars, max, t, place, calls, stack) /\ n = 0
      BY <2>2, <3>1, StandingAt DEF Gaps, n
    <3> QED
      BY <1>0, <1>1, <3>2, EmptyRead
  <2> QED
    BY <2>1, <2>2
<1>4. Placed(chars, max, Add(t, ch), "next", Counted(Front(calls)), NoLex, Popped(stack, n, Last(calls).what))
  BY <1>3, PlacedNext
<1> QED
  BY <1>0, <1>2, <1>4 DEF Here

LEMMA NoLexNumber == NoLex.minus = FALSE /\ NoLex.big = FALSE
BY DEF NoLex

LEMMA MinusReads ==
  ASSUME NEW chars, NEW max, NEW t, Standing(chars, max, t), NEW ch \in chars, ch = Peek, ParseNumber, ch = MinusByte
  PROVE  Here(chars, max, Add(t, ch))'
<1>1. at = "value" /\ at' = "sign" /\ calls' = calls /\ stack' = stack /\ lex' = [lex EXCEPT !["minus"] = TRUE]
  BY DEF ParseNumber, At, MinusByte
<1>2. AtGap(chars, max, t, "value", calls, stack) /\ lex = NoLex /\ PlaceInv /\ max \in Nat /\ calls \in Seq(Activation)
  BY <1>1, StandingAt, StandingFacts DEF Gaps
<1>3. lex'.minus = TRUE /\ ~lex'.big
  BY <1>1, <1>2, LexExcept, NoLexNumber DEF Fields
<1>4. PICK x : x = lex'
  OBVIOUS
<1>5. x.minus = TRUE /\ ~x.big
  BY <1>3, <1>4
<1>6. AtSign(chars, max, Add(t, ch), calls, x, stack)
  BY <1>2, <1>5, SignRead
<1>7. Placed(chars, max, Add(t, ch), "sign", calls, x, stack)
  BY <1>6, PlacedSign
<1> QED
  BY <1>1, <1>4, <1>7 DEF Here

LEMMA NumberBegins ==
  ASSUME NEW chars, NEW max, NEW t, Standing(chars, max, t), ParseNumber, Peek # MinusByte
  PROVE  Here(chars, max, t)'
<1>1. at = "value" /\ at' = "sign" /\ calls' = calls /\ stack' = stack /\ lex' = lex
  BY DEF ParseNumber, At, MinusByte
<1>2. AtGap(chars, max, t, "value", calls, stack) /\ lex = NoLex /\ max \in Nat /\ calls \in Seq(Activation)
  BY <1>1, StandingAt, StandingFacts DEF Gaps
<1>3. PICK x : x = NoLex
  OBVIOUS
<1>4. x.minus = FALSE /\ ~x.big
  BY <1>3, NoLexNumber
<1>5. AtSign(chars, max, t, calls, x, stack)
  BY <1>2, <1>4, NoSign
<1>6. Placed(chars, max, t, "sign", calls, x, stack)
  BY <1>5, PlacedSign
<1> QED
  BY <1>1, <1>2, <1>3, <1>6 DEF Here

LEMMA DigitIs == ASSUME Peek \in Digits PROVE Value(Peek) \in 0 .. BASE - 1 /\ Digit[Value(Peek)] = Peek
<1>1. \E d \in 0 .. BASE - 1 : Digit[d] = Peek
  BY DEF Digits
<1> QED
  BY <1>1 DEF Value

LEMMA FirstDigitReads ==
  ASSUME NEW chars, NEW max, NEW t, Standing(chars, max, t), NEW ch \in chars, ch = Peek, FirstDigit
  PROVE  Here(chars, max, Add(t, ch))'
<1>0. /\ AtSign(chars, max, t, calls, lex, stack) /\ max \in Nat /\ calls \in Seq(Activation) /\ PlaceInv
  BY StandingAt, StandingFacts DEF FirstDigit, At
<1>1. CASE ch \notin Digits
  <2>1. \E error : Fails(error)
    BY <1>1 DEF FirstDigit
  <2> QED
    BY <2>1, FailsHere
<1>2. CASE ch \in Digits /\ Value(Peek) = 0
  <2>1. ch = Digit[0] /\ Event(Number(0))
    BY <1>2, DigitIs DEF FirstDigit
  <2>2. AtNext(chars, max, Add(t, ch), Counted(calls), Add(stack, Number(0)))
    BY <1>0, <2>1, ZeroRead
  <2> QED
    BY <2>1, <2>2, EventHere
<1>3. CASE ch \in Digits /\ Value(Peek) # 0
  <2>1. PICK d \in 0 .. BASE - 1 : d = Value(Peek) /\ ch = Digit[d] /\ d # 0
    BY <1>3, DigitIs
  <2>2. at' = "digits" /\ calls' = calls /\ stack' = stack /\ lex' = [lex EXCEPT !["i"] = d]
    BY <1>3, <2>1 DEF FirstDigit
  <2>3. lex'.minus = lex.minus /\ lex'.i = d /\ lex'.big = lex.big /\ ~lex.big
    BY <1>0, <2>2, LexExcept DEF Fields, AtSign
  <2>4. PICK x : x = lex'
    OBVIOUS
  <2>5. x.minus = lex.minus /\ x.i = d /\ ~x.big
    BY <2>3, <2>4
  <2>6. AtDigits(chars, max, Add(t, ch), calls, x, stack)
    BY <1>0, <2>1, <2>5, DigitRead
  <2>7. Placed(chars, max, Add(t, ch), "digits", calls, x, stack)
    BY <2>6, PlacedDigits
  <2> QED
    BY <2>2, <2>4, <2>7 DEF Here
<1> QED
  BY <1>1, <1>2, <1>3

LEMMA NextDigitReads ==
  ASSUME NEW chars, NEW max, NEW t, Standing(chars, max, t), NEW ch \in chars, ch = Peek, NextDigit
  PROVE  Here(chars, max, Add(t, ch))'
<1>0. /\ AtDigits(chars, max, t, calls, lex, stack) /\ max \in Nat /\ calls \in Seq(Activation) /\ PlaceInv
  BY StandingAt, StandingFacts DEF NextDigit, At
<1>1. PICK d \in 0 .. BASE - 1 : d = Value(Peek) /\ ch = Digit[d]
  BY DigitIs DEF NextDigit
<1>2. at' = "digits" /\ calls' = calls /\ stack' = stack
  BY DEF NextDigit, At
<1>3. lex.i \in Nat
  BY DEF Standing, NumberInv
<1>4. PICK x : x = lex'
  OBVIOUS
<1>5. /\ x.minus = lex.minus
      /\ x.big => lex.big \/ lex.i * BASE + d > Largest(lex.minus)
      /\ ~x.big => ~lex.big /\ x.i = lex.i * BASE + d
  <2>1. CASE lex.big \/ TooBig(d)
    <3>1. \E n : lex' = [[lex EXCEPT !["i"] = n] EXCEPT !["big"] = TRUE]
      BY <1>1, <2>1 DEF NextDigit
    <3>2. x.minus = lex.minus /\ x.big = TRUE
      BY <1>0, <1>4, <3>1, BigExcept DEF PlaceInv
    <3>3. TooBig(d) => lex.i * BASE + d > Limit
      BY <1>3, DigitLimit
    <3>4. Limit = Largest(lex.minus)
      BY DEF Limit, Largest
    <3> QED
      BY <2>1, <3>2, <3>3, <3>4
  <2>2. CASE ~(lex.big \/ TooBig(d))
    <3>1. lex' = [lex EXCEPT !["i"] = lex.i * BASE + d]
      BY <1>1, <2>2 DEF NextDigit
    <3>2. x.minus = lex.minus /\ x.big = lex.big /\ x.i = lex.i * BASE + d
      BY <1>0, <1>4, <3>1, LexExcept DEF Fields
    <3> QED
      BY <2>2, <3>2
  <2> QED
    BY <2>1, <2>2
<1>6. AtDigits(chars, max, Add(t, ch), calls, x, stack)
  BY <1>0, <1>1, <1>5, DigitMore
<1>7. Placed(chars, max, Add(t, ch), "digits", calls, x, stack)
  BY <1>6, PlacedDigits
<1> QED
  BY <1>2, <1>4, <1>7 DEF Here

LEMMA EndNumberReads ==
  ASSUME NEW chars, NEW max, NEW t, Standing(chars, max, t), EndNumber, at' # "failed"
  PROVE  Here(chars, max, t)'
<1>0. /\ AtDigits(chars, max, t, calls, lex, stack) /\ max \in Nat /\ calls \in Seq(Activation)
      /\ at = "digits" /\ Event(IntValue)
  BY StandingAt, StandingFacts DEF EndNumber, At, Fails
<1>1. lex.big => IntValue = <<"number", <<>>>>
  BY DEF IntValue
<1>2. ~lex.big => IntValue = Number(Signature(lex.minus, lex.i))
  BY <1>0, IntEdges DEF Standing, NumberFits, Signature
<1>3. AtNext(chars, max, t, Counted(calls), Add(stack, IntValue))
  BY <1>0, <1>1, <1>2, NumberEnds
<1> QED
  BY <1>0, <1>3, EventHere

-----------------------------------------------------------------------------
\* The steps that take no byte.
LEMMA StaysHere ==
  ASSUME NEW chars, NEW max, NEW t, Standing(chars, max, t), Parse \/ FirstElement
  PROVE  Here(chars, max, t)'
<1>1. CASE \E error : Fails(error)
  BY <1>1, FailsHere
<1>2. CASE ~ \E error : Fails(error)
  <2>1. at \in {"root", "element"} /\ at' = "value" /\ calls' = calls /\ lex' = lex /\ stack' = stack
    BY <1>2 DEF Parse, FirstElement, At
  <2>2. lex = NoLex /\ max \in Nat /\ calls \in Seq(Activation)
    BY <2>1, StandingFacts
  <2>3. AtGap(chars, max, t, "value", calls, stack)
    <3>1. CASE at = "root"
      BY <2>2, <3>1, StandingAt, RootRead DEF Gaps
    <3>2. CASE at = "element"
      BY <2>2, <3>2, StandingAt, StandingFacts, ElementRead DEF Gaps
    <3> QED
      BY <2>1, <3>1, <3>2
  <2>4. Placed(chars, max, t, "value", calls, NoLex, stack)
    BY <2>3, PlacedGap DEF Gaps
  <2> QED
    BY <2>1, <2>2, <2>4 DEF Here
<1> QED
  BY <1>1, <1>2

LEMMA EndRootReads ==
  ASSUME NEW chars, NEW max, NEW t, Standing(chars, max, t), EndRoot
  PROVE  Here(chars, max, t)'
<1>1. CASE \E error : Fails(error)
  BY <1>1, FailsHere
<1>2. CASE ~ \E error : Fails(error)
  <2>1. at = "next" /\ calls = <<>> /\ at' = "parsed" /\ calls' = calls /\ lex' = lex /\ stack' = stack
    BY <1>2 DEF EndRoot, At
  <2>2. lex = NoLex /\ max \in Nat /\ AtNext(chars, max, t, <<>>, stack)
    BY <2>1, StandingFacts, StandingAt
  <2>3. AtEnd(chars, max, t, stack)
    BY <2>2, EndRead
  <2>4. Placed(chars, max, t, "parsed", calls, NoLex, stack)
    BY <2>3, PlacedEnd
  <2> QED
    BY <2>1, <2>2, <2>4 DEF Here
<1> QED
  BY <1>1, <1>2

\* What a step of the reader does to the bytes.
Stands == UNCHANGED <<bytes, open, pos>>

LEMMA StepKinds ==
  ASSUME Read
  PROVE  \/ Grow
         \/ /\ Take
            /\ \/ Skip \/ ParseLiteral \/ ParseObject \/ ParseArray \/ StringValue \/ (ParseNumber /\ Peek = MinusByte)
               \/ FirstDigit \/ NextDigit \/ ScanString \/ Escape \/ EndString
               \/ EmptyObject \/ EmptyArray \/ Key \/ Colon \/ AfterComma \/ EndObjectOrArray
         \/ /\ Stands
            /\ \/ Parse \/ FirstElement \/ EndRoot \/ EndNumber \/ (ParseNumber /\ Peek # MinusByte)
               \/ \E error : Fails(error)
<1>0. (\E error : Fails(error)) => Stands
  <2>1. ASSUME NEW error, Fails(error) PROVE Stands
    BY <2>1 DEF Fails, Stands
  <2> QED
    BY <2>1
<1>1. CASE Skip \/ ParseLiteral \/ ParseObject \/ ParseArray \/ StringValue
  BY <1>0, <1>1 DEF Skip, ParseLiteral, ParseObject, ParseArray, StringValue
<1>2. CASE ParseNumber
  BY <1>2 DEF ParseNumber, MinusByte, Stands, Stay
<1>3. CASE FirstDigit \/ NextDigit \/ ScanString \/ Escape \/ EndString
  BY <1>0, <1>3 DEF FirstDigit, NextDigit, ScanString, Escape, EndString
<1>4. CASE EmptyObject \/ EmptyArray \/ Key \/ Colon \/ AfterComma \/ EndObjectOrArray
  BY <1>0, <1>4 DEF EmptyObject, EmptyArray, Key, Colon, AfterComma, EndObjectOrArray
<1>5. CASE Parse \/ FirstElement \/ EndRoot \/ EndNumber \/ MissComma
  BY <1>0, <1>5 DEF Parse, FirstElement, EndRoot, EndNumber, MissComma, Stands, Stay
<1> QED
  BY <1>1, <1>2, <1>3, <1>4, <1>5 DEF Read

LEMMA Moved == ASSUME pos \in Nat PROVE ~(Take /\ Stands) /\ ~(Take /\ Grow)
BY DEF Take, Stands, Grow

LEMMA TakesHere ==
  ASSUME NEW chars, NEW max, NEW t, Standing(chars, max, t), NEW ch \in chars, ch = Peek, Read, Take, pos \in Nat
  PROVE  Here(chars, max, Add(t, ch))'
<1>1. CASE Skip \/ ParseLiteral \/ ParseObject \/ ParseArray \/ StringValue \/ Key
  BY <1>1, SkipReads, LiteralReads, CallReads, QuoteReads
<1>2. CASE (ParseNumber /\ Peek = MinusByte) \/ FirstDigit \/ NextDigit
  BY <1>2, MinusReads, FirstDigitReads, NextDigitReads
<1>3. CASE ScanString \/ Escape \/ EndString
  BY <1>3, ScanReads, EscapeReads, EndStringReads
<1>4. CASE EmptyObject \/ EmptyArray \/ Colon \/ AfterComma \/ EndObjectOrArray
  BY <1>4, CloseReads, ColonReads, CommaReads
<1> QED
  BY <1>1, <1>2, <1>3, <1>4, StepKinds, Moved

LEMMA StaysAtByte ==
  ASSUME NEW chars, NEW max, NEW t, Standing(chars, max, t), Read, Stands
  PROVE  ~Grow /\ pos \in Nat => Here(chars, max, t)' /\ (at' = "parsed" => Peek = NUL /\ pos <= Len(bytes))
<1>0. HAVE ~Grow /\ pos \in Nat
<1>1. CASE \E error : Fails(error)
  BY <1>1, FailsHere DEF Fails
<1>2. CASE Parse \/ FirstElement
  BY <1>2, StaysHere DEF Parse, FirstElement, Fails
<1>3. CASE (EndNumber /\ at' # "failed") \/ (ParseNumber /\ Peek # MinusByte)
  <2>1. at' # "parsed"
    BY <1>3 DEF EndNumber, ParseNumber, Event, Fails
  <2> QED
    BY <1>3, <2>1, EndNumberReads, NumberBegins
<1>5. CASE EndNumber /\ at' = "failed"
  BY <1>1, <1>5 DEF EndNumber, Event
<1>4. CASE EndRoot
  BY <1>4, EndRootReads DEF EndRoot, Fails, At
<1> QED
  BY <1>0, <1>1, <1>2, <1>3, <1>4, <1>5, StepKinds, Moved

\* Only the root's end ends the text.
LEMMA TakesOn ==
  ASSUME Read, Take, pos \in Nat PROVE at' # "parsed"
<1>1. CASE \/ Skip \/ ParseLiteral \/ ParseObject \/ ParseArray \/ StringValue \/ (ParseNumber /\ Peek = MinusByte)
  BY <1>1 DEF Skip, ParseLiteral, ParseObject, ParseArray, StringValue, ParseNumber, Event, Fails, At, White
<1>2. CASE FirstDigit \/ NextDigit \/ ScanString \/ Escape \/ EndString
  BY <1>2 DEF FirstDigit, NextDigit, ScanString, Escape, EndString, Event, Fails, At
<1>3. CASE EmptyObject \/ EmptyArray \/ Key \/ Colon \/ AfterComma \/ EndObjectOrArray
  BY <1>3 DEF EmptyObject, EmptyArray, Key, Colon, AfterComma, EndObjectOrArray, Closes, Fails
<1> QED
  BY <1>1, <1>2, <1>3, StepKinds, Moved

-----------------------------------------------------------------------------
\* t has been read of the bytes b, and the byte after it may be known.
ReadTo(chars, max, t, p, b) ==
  /\ t \in Seq(chars) /\ Len(t) <= max /\ p = Len(t) + 1
  /\ \/ b = t
     \/ b = Add(t, NUL)
     \/ Len(t) < max /\ \E ch \in chars : b = Add(t, ch)

MeaningAt(a, t) ==
  LET chars == Alphabets[a].bytes
      max   == Alphabets[a].max
  IN  /\ ReadTo(chars, max, t, pos, bytes) /\ Here(chars, max, t)
      /\ at = "parsed" => bytes = Add(t, NUL)

MeaningInv == open # 0 => \E a \in 1 .. Len(Alphabets) : open = a /\ \E t : MeaningAt(a, t)

LEMMA AlphabetIs == \A a \in 1 .. Len(Alphabets) : Alphabets[a].bytes \in SUBSET Bytes /\ Alphabets[a].max \in Nat
<1> TAKE a \in 1 .. Len(Alphabets)
<1>1. Alphabets[a] \in [bytes : SUBSET Bytes, max : Nat]
  BY AlphabetAssumption, ElementOfSeq
<1> QED
  BY <1>1

LEMMA NextByte ==
  ASSUME NEW chars, NEW t \in Seq(chars), NEW e
  PROVE  /\ Add(t, e)[Len(t) + 1] = e /\ Len(Add(t, e)) = Len(t) + 1 /\ Len(t) \in Nat
         /\ e \in chars => Add(t, e) \in Seq(chars)
<1>1. Sequence(t)
  BY DEF Sequence
<1>2. e \in chars => Append(t, e) \in Seq(chars)
  BY AppendProperties
<1> QED
  BY <1>1, <1>2, AppendAny DEF Add

LEMMA StartMeans == ASSUME NEW text, NEW a, NewText(text, a) PROVE MeaningInv'
<1>1. CASE a = 0
  BY <1>1 DEF NewText, Starts, MeaningInv
<1>2. CASE a # 0
  <2>1. /\ a \in 1 .. Len(Alphabets) /\ open' = a /\ bytes' = <<>> /\ pos' = 1 /\ at' = "root"
        /\ calls' = <<>> /\ lex' = NoLex /\ stack' = <<>>
    BY <1>2 DEF NewText, Starts
  <2>2. Here(Alphabets[a].bytes, Alphabets[a].max, <<>>)'
    BY <2>1, StartRead DEF Here
  <2>3. ReadTo(Alphabets[a].bytes, Alphabets[a].max, <<>>, 1, <<>>)
    BY <2>1, AlphabetIs, EmptySeq DEF ReadTo
  <2>4. MeaningAt(a, <<>>)'
    BY <2>1, <2>2, <2>3 DEF MeaningAt
  <2> QED
    BY <2>1, <2>4 DEF MeaningInv
<1> QED
  BY <1>1, <1>2

LEMMA KeptOf ==
  ASSUME NEW a \in 1 .. Len(Alphabets), NEW t, MeaningAt(a, t), open = a, UNCHANGED reading
  PROVE  MeaningInv'
<1>1. MeaningAt(a, t)' /\ open' = a
  BY DEF reading, MeaningAt, Here
<1> QED
  BY <1>1 DEF MeaningInv

LEMMA GrowMeans ==
  ASSUME NEW a \in 1 .. Len(Alphabets), NEW t, MeaningAt(a, t), open = a, Grow
  PROVE  MeaningInv'
<1> DEFINE chars == Alphabets[a].bytes
           max == Alphabets[a].max
<1>1. ReadTo(chars, max, t, pos, bytes) /\ Here(chars, max, t)
  BY DEF MeaningAt
<1>2. PICK c : /\ c = NUL \/ (c \in chars /\ Len(bytes) < max)
               /\ bytes' = Append(bytes, c)
  BY DEF Grow
<1>3. /\ pos > Len(bytes) /\ open' = a /\ pos' = pos /\ at' = at /\ calls' = calls /\ lex' = lex /\ stack' = stack
      /\ at # "parsed"
  BY DEF Grow, Busy
<1> HIDE DEF chars, max
<1>4. bytes = t
  <2>1. Len(t) \in Nat /\ \A e : Len(Add(t, e)) = Len(t) + 1
    BY <1>1, NextByte DEF ReadTo
  <2>2. pos = Len(t) + 1
    BY <1>1 DEF ReadTo
  <2>3. \A e : bytes # Add(t, e)
    BY <1>3, <2>1, <2>2
  <2> QED
    BY <1>1, <2>3 DEF ReadTo
<1>5. bytes' = Add(t, c)
  BY <1>2, <1>4 DEF Add
<1>6. ReadTo(chars, max, t, pos, Add(t, c))
  BY <1>1, <1>2, <1>4 DEF ReadTo
<1>7. MeaningAt(a, t)'
  BY <1>1, <1>3, <1>5, <1>6 DEF MeaningAt, Here, chars, max
<1> QED
  BY <1>3, <1>7 DEF MeaningInv

LEMMA TakeMeans ==
  ASSUME RInv, NumberInv, pos \in Nat,
         NEW a \in 1 .. Len(Alphabets), NEW t, MeaningAt(a, t), open = a, Read, Take, Peek # NUL, pos <= Len(bytes)
  PROVE  MeaningInv'
<1> DEFINE chars == Alphabets[a].bytes
           max == Alphabets[a].max
<1>1. ReadTo(chars, max, t, pos, bytes) /\ Here(chars, max, t)
  BY DEF MeaningAt
<1>2. max \in Nat
  BY AlphabetIs
<1>3. pos' = pos + 1 /\ bytes' = bytes /\ open' = a /\ at' # "parsed"
  BY TakesOn DEF Take
<1> HIDE DEF chars, max
<1>4. Len(t) \in Nat /\ pos = Len(t) + 1 /\ t \in Seq(chars)
  BY <1>1, NextByte DEF ReadTo
<1>5. \A e : Add(t, e)[Len(t) + 1] = e
  BY <1>4, NextByte
<1>6. PICK ch \in chars : bytes = Add(t, ch) /\ Len(t) < max /\ ch = Peek
  <2>1. bytes # t
    BY <1>4
  <2>2. bytes # Add(t, NUL)
    BY <1>4, <1>5 DEF Peek
  <2> QED
    BY <1>1, <1>4, <1>5, <2>1, <2>2 DEF ReadTo, Peek
<1>7. Here(chars, max, Add(t, ch))'
  BY <1>1, <1>2, <1>6, TakesHere DEF Standing
<1>8. ReadTo(chars, max, Add(t, ch), pos + 1, Add(t, ch))
  <2>1. Len(Add(t, ch)) = Len(t) + 1 /\ Add(t, ch) \in Seq(chars)
    BY <1>4, NextByte
  <2>2. Len(t) + 1 <= max /\ pos + 1 = Len(t) + 1 + 1
    BY <1>2, <1>4, <1>6
  <2> QED
    BY <2>1, <2>2 DEF ReadTo
<1>9. MeaningAt(a, Add(t, ch))'
  BY <1>3, <1>6, <1>7, <1>8 DEF MeaningAt, chars, max
<1> QED
  BY <1>3, <1>9 DEF MeaningInv

LEMMA StayMeans ==
  ASSUME RInv, NumberInv, pos \in Nat,
         NEW a \in 1 .. Len(Alphabets), NEW t, MeaningAt(a, t), open = a, Read, ~Grow, Stands
  PROVE  MeaningInv'
<1> DEFINE chars == Alphabets[a].bytes
           max == Alphabets[a].max
<1>1. ReadTo(chars, max, t, pos, bytes) /\ Here(chars, max, t)
  BY DEF MeaningAt
<1>2. max \in Nat
  BY AlphabetIs
<1>3. pos' = pos /\ bytes' = bytes /\ open' = a
  BY DEF Stands
<1> HIDE DEF chars, max
<1>4. Here(chars, max, t)' /\ (at' = "parsed" => Peek = NUL /\ pos <= Len(bytes))
  BY <1>1, <1>2, StaysAtByte DEF Standing
<1>5. at' = "parsed" => bytes = Add(t, NUL)
  <2>1. Len(t) \in Nat /\ pos = Len(t) + 1 /\ \A e : Add(t, e)[Len(t) + 1] = e
    BY <1>1, NextByte DEF ReadTo
  <2> SUFFICES ASSUME at' = "parsed" PROVE bytes = Add(t, NUL)
    OBVIOUS
  <2>2. bytes # t
    BY <1>4, <2>1
  <2> QED
    BY <1>1, <1>4, <2>1, <2>2 DEF ReadTo, Peek
<1>6. MeaningAt(a, t)'
  BY <1>1, <1>3, <1>4, <1>5 DEF MeaningAt, chars, max
<1> QED
  BY <1>3, <1>6 DEF MeaningInv

LEMMA MeaningStep == RInv /\ NumberInv /\ TextInv /\ MeaningInv /\ [Next]_vars => MeaningInv'
<1> SUFFICES ASSUME RInv, NumberInv, TextInv, MeaningInv, [Next]_vars PROVE MeaningInv'
  OBVIOUS
<1>1. ASSUME NEW text, NEW a, NewText(text, a) PROVE MeaningInv'
  BY <1>1, StartMeans
<1>2. CASE open = 0 /\ (Read \/ UNCHANGED reading)
  <2>1. UNCHANGED reading => open' = open
    BY DEF reading
  <2>2. Read => open' = open
    BY StepKinds DEF Grow, Take, Stands
  <2> QED
    BY <1>2, <2>1, <2>2 DEF MeaningInv
<1>3. CASE open # 0 /\ (Read \/ UNCHANGED reading)
  <2>0. PICK a \in 1 .. Len(Alphabets) : open = a /\ \E t : MeaningAt(a, t)
    BY <1>3 DEF MeaningInv
  <2>1. PICK t : open = a /\ MeaningAt(a, t)
    BY <2>0
  <2>2. pos \in Nat
    BY DEF TextInv
  <2>3. CASE UNCHANGED reading
    BY <2>1, <2>3, KeptOf
  <2>4. CASE Read /\ Grow
    BY <2>1, <2>4, GrowMeans
  <2>5. CASE Read /\ Take
    <3>1. Peek # NUL /\ pos <= Len(bytes)
      BY <2>2, <2>5, TakesNoNul, Moved DEF Stands, Stay, Take
    <3> QED
      BY <2>1, <2>2, <2>5, <3>1, TakeMeans
  <2>6. CASE Read /\ ~Grow /\ Stands
    BY <2>1, <2>2, <2>6, StayMeans
  <2> QED
    BY <1>3, <2>3, <2>4, <2>5, <2>6, StepKinds
<1> QED
  BY <1>1, <1>2, <1>3, ExchangeSteps

-----------------------------------------------------------------------------
(* What a text means in Json is what the grammar says.                     *)

Table(A) == LET T == Grammar(A.bytes, A.max)
            IN  [row |-> T, beginnings |-> Beginnings(T, A.max)]

TablesBody(g, s) == IF s = {} THEN <<>> ELSE g[s \ {Max(s)}] \o <<Table(Alphabets[Max(s)])>>

LEMMA TablesExist ==
  ASSUME NEW N \in Nat
  PROVE  \E g : g = [s \in SUBSET (1 .. N) |-> TablesBody(g, s)]
<1> DEFINE e == [a \in 1 .. N |-> <<Table(Alphabets[a])>>]
<1>1. PICK g : g = [s \in SUBSET (1 .. N) |-> Pieces(g, e, s)]
  BY PiecesExist
<1>2. ASSUME NEW s \in SUBSET (1 .. N) PROVE Pieces(g, e, s) = TablesBody(g, s)
  <2>1. CASE s = {}
    BY <2>1 DEF Pieces, TablesBody
  <2>2. CASE s # {}
    <3>1. Max(s) \in 1 .. N
      BY <2>2, MaxOf
    <3>2. e[Max(s)] = <<Table(Alphabets[Max(s)])>>
      BY <3>1
    <3> QED
      BY <2>2, <3>2, SMTT(40) DEF Pieces, TablesBody
  <2> QED
    BY <2>1, <2>2
<1>3. [s \in SUBSET (1 .. N) |-> Pieces(g, e, s)] = [s \in SUBSET (1 .. N) |-> TablesBody(g, s)]
  BY <1>2
<1> QED
  BY <1>1, <1>3

\* One more table.
With(f, x) == f \o <<x>>

LEMMA TableAdded ==
  ASSUME NEW f, Sequence(f), NEW x
  PROVE  /\ Sequence(With(f, x)) /\ Len(With(f, x)) = Len(f) + 1 /\ Len(f) \in Nat
         /\ With(f, x)[Len(f) + 1] = x /\ \A i \in 1 .. Len(f) : With(f, x)[i] = f[i]
<1>1. PICK S : f \in Seq(S)
  BY DEF Sequence
<1> DEFINE T == S \cup {x}
<1>2. f \in Seq(T) /\ <<x>> \in Seq(T) /\ Len(<<x>>) = 1 /\ <<x>>[1] = x
  <2>1. x \in T
    OBVIOUS
  <2> QED
    BY <1>1, <2>1, SeqMonotonic, SingleSeq
<1> HIDE DEF T
<1>3. f \o <<x>> \in Seq(T) /\ Len(f) \in Nat
  BY <1>2
<1>4. \A i \in 1 .. Len(f) + 1 : (f \o <<x>>)[i] = IF i <= Len(f) THEN f[i] ELSE <<x>>[i - Len(f)]
  BY <1>2
<1>5. Len(f \o <<x>>) = Len(f) + 1
  BY <1>2
<1>6. (f \o <<x>>)[Len(f) + 1] = <<x>>[1]
  BY <1>3, <1>4
<1>7. \A i \in 1 .. Len(f) : (f \o <<x>>)[i] = f[i]
  BY <1>3, <1>4
<1> QED
  BY <1>2, <1>3, <1>5, <1>6, <1>7 DEF Sequence, With

LEMMA JsonIs == \A a \in 1 .. Len(Alphabets) : Json[a].row = Grammar(Alphabets[a].bytes, Alphabets[a].max)
<1> DEFINE N == Len(Alphabets)
           iter == CHOOSE g : g = [s \in SUBSET (1 .. N) |-> TablesBody(g, s)]
           f == [k \in 0 .. N |-> iter[1 .. k]]
<1>1. N \in Nat /\ DOMAIN Alphabets = 1 .. N
  BY AlphabetAssumption, LenProperties
<1>2. iter = [s \in SUBSET (1 .. N) |-> TablesBody(iter, s)]
  BY <1>1, TablesExist
<1>3. Json = iter[1 .. N]
  BY <1>1 DEF Json, FoldLeft, MapThenFoldSet, TablesBody, Table
<1> HIDE DEF iter, N
<1>4. f[0] = <<>>
  <2>1. 1 .. 0 = {} /\ 0 \in 0 .. N /\ {} \in SUBSET (1 .. N)
    BY <1>1
  <2>2. iter[{}] = TablesBody(iter, {})
    BY <1>2, <2>1
  <2> QED
    BY <2>1, <2>2 DEF TablesBody
<1>5. ASSUME NEW k \in 1 .. N PROVE f[k] = f[k - 1] \o <<Table(Alphabets[k])>>
  <2>1. /\ k \in Nat /\ 1 .. k \in SUBSET (1 .. N) /\ 1 .. k # {} /\ k \in 0 .. N /\ k - 1 \in 0 .. N
        /\ k \in 1 .. k
    <3>1. N \in Nat
      BY <1>1
    <3>2. k \in Nat /\ k >= 1 /\ k <= N
      BY <3>1
    <3> QED
      BY <3>1, <3>2
  <2>2. Max(1 .. k) \in 1 .. k /\ \A y \in 1 .. k : Max(1 .. k) >= y
    BY <2>1, MaxOf
  <2>3. Max(1 .. k) = k
    BY <2>1, <2>2
  <2>4. (1 .. k) \ {k} = 1 .. k - 1
    BY <2>1
  <2>5. iter[1 .. k] = TablesBody(iter, 1 .. k)
    BY <1>2, <2>1
  <2> QED
    BY <2>1, <2>3, <2>4, <2>5 DEF TablesBody
<1> HIDE DEF f
<1>6. Json = f[N]
  BY <1>1, <1>3 DEF f
<1> DEFINE Fine(k) == Sequence(f[k]) /\ Len(f[k]) = k /\ \A a \in 1 .. k : f[k][a] = Table(Alphabets[a])
           P == {k \in Nat : k <= N => Fine(k)}
<1>7. 0 \in P
  <2>1. <<>> \in Seq({}) /\ Len(<<>>) = 0 /\ 1 .. 0 = {}
    BY EmptySeq
  <2>2. Fine(0)
    BY <1>4, <2>1 DEF Sequence
  <2> QED
    BY <2>2
<1>8. ASSUME NEW k \in Nat, k \in P PROVE k + 1 \in P
  <2> SUFFICES ASSUME k + 1 <= N PROVE Fine(k + 1)
    OBVIOUS
  <2>1. Fine(k)
    BY <1>1, <1>8
  <2>2. k + 1 \in 1 .. N /\ (k + 1) - 1 = k
    BY <1>1
  <2>3. f[k + 1] = f[k] \o <<Table(Alphabets[k + 1])>>
    BY <1>5, <2>2
  <2> DEFINE x == Table(Alphabets[k + 1])
             w == f[k]
  <2>4. Sequence(w) /\ Len(w) = k /\ (\A a \in 1 .. k : w[a] = Table(Alphabets[a])) /\ f[k + 1] = With(w, x)
    BY <2>1, <2>3 DEF With
  <2> HIDE DEF w
  <2>5. /\ Sequence(f[k + 1]) /\ Len(f[k + 1]) = k + 1 /\ f[k + 1][k + 1] = x /\ \A a \in 1 .. k : f[k + 1][a] = w[a]
    <3>1. /\ Sequence(With(w, x)) /\ Len(With(w, x)) = Len(w) + 1
          /\ With(w, x)[Len(w) + 1] = x /\ \A i \in 1 .. Len(w) : With(w, x)[i] = w[i]
      BY <2>4, TableAdded
    <3> HIDE DEF x
    <3> QED
      BY <2>4, <3>1
  <2>6. \A a \in 1 .. k + 1 : a \in 1 .. k \/ a = k + 1
    OBVIOUS
  <2> QED
    BY <2>4, <2>5, <2>6
<1>9. N \in P
  <2> HIDE DEF P
  <2> QED
    BY <1>1, <1>7, <1>8, Induction
<1>10. \A a \in 1 .. N : Json[a] = Table(Alphabets[a])
  BY <1>1, <1>6, <1>9
<1>11. \A A : Table(A).row = Grammar(A.bytes, A.max)
  BY DEF Table
<1> QED
  BY <1>10, <1>11 DEF N

\* A text and its NUL, of bytes that are none.
LEMMA TextOf ==
  ASSUME NEW chars, NUL \notin chars, NEW t \in Seq(chars)
  PROVE  Text(Add(t, NUL)) = t
<1> DEFINE n == Len(t) + 1
           b == Add(t, NUL)
<1>1. Sequence(t)
  BY DEF Sequence
<1>2. /\ Len(b) = n /\ Len(t) \in Nat /\ b[n] = NUL
      /\ \A i \in 1 .. Len(t) : b[i] = t[i]
  BY <1>1, AppendAny DEF Add
<1>3. \A i \in 1 .. Len(t) : b[i] \in chars
  BY <1>2, ElementOfSeq
<1> HIDE DEF b
<1>4. \A k \in 1 .. Len(b) : b[k] = NUL => k = n
  <2> TAKE k \in 1 .. Len(b)
  <2>1. k \in 1 .. Len(t) \/ k = n
    BY <1>2
  <2> QED
    BY <1>3, <2>1
<1>5. n \in 1 .. Len(b) /\ b[n] = NUL /\ \A j \in 1 .. n - 1 : b[j] # NUL
  BY <1>2, <1>3
<1> DEFINE m == CHOOSE k \in 1 .. Len(b) : b[k] = NUL /\ \A j \in 1 .. k - 1 : b[j] # NUL
<1>6. m \in 1 .. Len(b) /\ b[m] = NUL
  BY <1>5
<1>7. m = n
  BY <1>4, <1>6
<1>8. Text(b) = SubSeq(b, 1, m - 1)
  BY <1>5 DEF Text
<1>9. n - 1 = Len(t)
  BY <1>2
<1> HIDE DEF m, n
<1>10. Text(b) = SubSeq(b, 1, Len(t))
  BY <1>7, <1>8, <1>9
<1>11. SubSeq(b, 1, Len(t)) = t
  <2>1. SubSeq(Append(t, NUL), 1, Len(t)) = t
    <3>1. t \in Seq(chars \cup {NUL}) /\ NUL \in chars \cup {NUL}
      BY SeqMonotonic
    <3> DEFINE T == chars \cup {NUL}
    <3>2. t \in Seq(T) /\ NUL \in T
      BY <3>1
    <3> HIDE DEF T
    <3>3. Append(t, NUL) \in Seq(T) /\ Len(Append(t, NUL)) = Len(t) + 1 /\ Len(t) \in Nat
          /\ \A i \in 1 .. Len(t) : Append(t, NUL)[i] = t[i]
      BY <3>2
    <3>4. SubSeq(Append(t, NUL), 1, Len(t)) \in Seq(T) /\ Len(SubSeq(Append(t, NUL), 1, Len(t))) = Len(t)
          /\ \A i \in 1 .. Len(t) : SubSeq(Append(t, NUL), 1, Len(t))[i] = Append(t, NUL)[i]
      BY <3>3
    <3> QED
      BY <3>2, <3>3, <3>4, SeqEqual
  <2> QED
    BY <2>1 DEF b, Add
<1> QED
  BY <1>10, <1>11 DEF b

LEMMA NulApart == \A a \in 1 .. Len(Alphabets) : NUL \notin Alphabets[a].bytes
<1> TAKE a \in 1 .. Len(Alphabets)
<1>1. NUL \notin Marks
  BY DEF NUL, Marks
<1>2. NUL \notin Digits /\ NUL # "lf"
  BY TextAssumption DEF NUL
<1>3. \A i \in 1 .. BLOCK : PadByte[i] # NUL
  BY TextAssumption
<1>4. NUL \notin Bytes
  BY <1>1, <1>2, <1>3 DEF Bytes, Char, Control
<1> QED
  BY <1>4, AlphabetIs

LEMMA MeansWhatIsRead == MeaningInv => ReadsMeaning
<1> SUFFICES ASSUME MeaningInv, at = "parsed", open # 0 PROVE Means(Text(bytes), Doc, open)
  BY DEF ReadsMeaning
<1>0. PICK a \in 1 .. Len(Alphabets) : open = a /\ \E t : MeaningAt(a, t)
  BY DEF MeaningInv
<1>1. PICK t : open = a /\ MeaningAt(a, t)
  BY <1>0
<1> DEFINE chars == Alphabets[a].bytes
           max == Alphabets[a].max
<1>2. ReadTo(chars, max, t, pos, bytes) /\ AtEnd(chars, max, t, stack) /\ bytes = Add(t, NUL)
  BY <1>1 DEF MeaningAt, Here, Placed
<1>3. t \in Seq(chars) /\ Len(t) <= max /\ NUL \notin chars
  BY <1>2, NulApart DEF ReadTo
<1>4. Json[a].row = Grammar(chars, max)
  BY JsonIs
<1> HIDE DEF chars, max
<1>5. PICK v : In(chars, max, "values", t, v) /\ stack = <<v>>
  BY <1>2 DEF AtEnd
<1>6. Doc = v
  BY <1>5 DEF Doc
<1>7. Text(bytes) = t
  BY <1>2, <1>3, TextOf
<1>8. <<t, v>> \in Grammar(chars, max)[Len(t)]["values"]
  BY <1>3, <1>5 DEF In, Bound
<1>9. Means(t, v, a)
  BY <1>4, <1>8 DEF Means
<1> QED
  BY <1>1, <1>6, <1>7, <1>9

\* Whatever bytes are read, of whatever alphabet and up to whatever length: what is accepted is JSON,
\* and the document is what it means.
THEOREM MeaningCorrect == Spec => []ReadsMeaning
<1>1. Init => MeaningInv
  BY DEF Init, Idle, MeaningInv
<1>2. Init => TextInv
  BY DEF Init, Idle, TextInv
<1>3. Init => NumberInv
  <2> SUFFICES ASSUME Init PROVE NumberInv
    OBVIOUS
  <2>1. lex.i = 0 /\ Limit \in Nat
    BY LimitRange DEF Init, Idle, NoLex
  <2> QED
    BY <2>1 DEF NumberInv
<1> QED
  BY <1>1, <1>2, <1>3, TextStep, NumberStep, MeaningStep, MeansWhatIsRead, ReaderInductive, PTL DEF Spec
=============================================================================
