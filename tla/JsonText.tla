------------------------------ MODULE JsonText ------------------------------
(***************************************************************************)
(* JSON texts and what they mean: the reference for JsonReader and the     *)
(* writer of answers.  A text is a sequence of bytes.  A literal is one    *)
(* byte, "t"; numbers are integers; a string has no \u escapes.            *)
(*                                                                         *)
(* A value is a pair of its kind and a sequence: the number of an int, the *)
(* bytes of a string, the elements of an array, names and values in turn   *)
(* of an object.  "number" stands for every number that is no int.         *)
(***************************************************************************)
EXTENDS Integers, SequencesExt, Payload

CONSTANTS BASE,     \* 10
          Width     \* 2^32

Digit == [d \in 0 .. BASE - 1 |-> ToString(d)]
Digits == {Digit[d] : d \in 0 .. BASE - 1}

\* "lf": a blank that is a control character.  NUL ends every text.
Marks == {"{", "}", "[", "]", ",", ":", "quote", "\\", "-", "t", "n"}
Char == Marks \cup Digits
Control == {"lf"} \cup {PadByte[i] : i \in 1 .. BLOCK}
Blanks  == {"lf"}
NUL     == "nul"
Bytes   == Char \cup Control

ASSUME TextAssumption ==
  /\ BASE \in 2 .. 10
  /\ Width \in {2 * n : n \in 1 .. Width}
  /\ \A i \in 1 .. BLOCK : PadByte[i] \notin Char \cup {NUL}
  /\ Digits \cap (Marks \cup {"lf", NUL}) = {}
  /\ \A d, e \in 0 .. BASE - 1 : Digit[d] = Digit[e] => d = e
  /\ 2 * BASE <= Width   \* a digit is an int

-----------------------------------------------------------------------------
\* What an int is.
Half == Width \div 2
Number(n) == IF n \in -Half .. Half - 1 THEN <<"int", <<n>>>> ELSE <<"number", <<>>>>

\* From unsigned int to int and back.
Signed(u)   == IF u < Half THEN u ELSE u - Width
Unsigned(i) == i % Width

-----------------------------------------------------------------------------
(* The texts of each length with their values: the row of length n is built *)
(* from the rows T of the shorter lengths.                                 *)

Joined(A, sep, B) == {<<x[1] \o sep \o y[1], x[2] \o y[2]>> : x \in A, y \in B}

\* Two parts with a separator of one byte.
Split(T, n, left, sep, right) == UNION {Joined(T[k][left], <<sep>>, T[n - 1 - k][right]) : k \in 0 .. n - 1}

Enclosed(open, A, close, kind) == {<<<<open>> \o x[1] \o <<close>>, <<kind, x[2]>>>> : x \in A}

\* Numerals without a sign.
Numerals(T, n) == IF n = 1 THEN {<<<<Digit[d]>>, d>> : d \in 0 .. BASE - 1}
                  ELSE {<<Append(x[1], Digit[d]), x[2] * BASE + d>> :
                          x \in {y \in T[n - 1].numerals : y[1] # <<Digit[0]>>}, d \in 0 .. BASE - 1}

Escapes == {<<"quote", "quote">>, <<"\\", "\\">>, <<"n", "lf">>}

\* What may be between two quotes.
Insides(T, n, chars) ==
  IF n = 0 THEN {<<<<>>, <<>>>>}
  ELSE {<<Append(x[1], c), Append(x[2], c)>> : x \in T[n - 1].insides, c \in chars \ ({"quote", "\\"} \cup Control)}
       \cup IF n = 1 THEN {}
            ELSE {<<x[1] \o <<"\\", e[1]>>, Append(x[2], e[2])>> : x \in T[n - 2].insides,
                  e \in {e \in Escapes : {"\\", e[1]} \subseteq chars}}

Values(T, n, numerals, strings) ==
  {<<x[1], Number(x[2])>> : x \in numerals}
  \cup {<<<<"-">> \o x[1], Number(-x[2])>> : x \in T[n - 1].numerals}
  \cup strings
  \cup {x \in {<<<<"t">>, <<"true", <<>>>>>>} : n = 1}
  \cup IF n < 2 THEN {}
       ELSE Enclosed("[", T[n - 2].blanks \cup T[n - 2].elements, "]", "array")
            \cup Enclosed("{", T[n - 2].blanks \cup T[n - 2].members, "}", "object")

\* What row T[n - 1] has, with one more blank on either side.
Spaced(A, B) == A \cup UNION {{<<<<b>> \o x[1], x[2]>>, <<Append(x[1], b), x[2]>>} : x \in B, b \in Blanks}

One(A) == {<<x[1], <<x[2]>>>> : x \in A}

Only(A, chars) == {x \in A : \A k \in 1 .. Len(x[1]) : x[1][k] \in chars}

\* Only whole texts have the last two lengths.
Row(T, n, chars, max) ==
  LET numerals == IF n = 0 THEN {} ELSE Only(Numerals(T, n), chars)
      strings  == IF n < 2 THEN {} ELSE Enclosed("quote", T[n - 2].insides, "quote", "string")
      values   == IF n = 0 THEN {} ELSE Only(Spaced(Values(T, n, numerals, strings), T[n - 1].values), chars)
      member   == Split(T, n, "name", ":", "value")
      Part(A)  == IF n > max - 2 THEN {} ELSE A
  IN  [numerals |-> numerals, values |-> values, texts |-> {x[1] : x \in values},
       insides  |-> Part(Insides(T, n, chars)),
       blanks   |-> Part(IF n = 0 THEN {<<<<>>, <<>>>>}
                         ELSE {<<Append(x[1], b), <<>>>> : x \in T[n - 1].blanks, b \in Blanks \cap chars}),
       value    |-> Part(One(values)),
       name     |-> Part(IF n = 0 THEN {} ELSE Only(Spaced(One(strings), T[n - 1].name), chars)),
       member   |-> Part(member),
       elements |-> Part(One(values) \cup Split(T, n, "elements", ",", "value")),
       members  |-> Part(member \cup Split(T, n, "members", ",", "member"))]

\* The texts of some bytes, by their length: Rows[n] has those of less than n.
Grammar(chars, max) ==
  LET Rows[n \in 0 .. max + 1] ==
        IF n = 0 THEN [k \in 0 .. max |-> {}]
        ELSE LET T == Rows[n - 1] IN [T EXCEPT ![n - 1] = Row(T, n - 1, chars, max)]
  IN  Rows[max + 1]

\* What the texts begin with, by its length.
Beginnings(T, max) ==
  FoldLeft(LAMBDA B, n : [B EXCEPT ![max - n] = T[max - n].texts \cup {Front(t) : t \in B[max - n + 1]}],
           [n \in 0 .. max + 1 |-> {}], [i \in 1 .. max + 1 |-> i - 1])
=============================================================================
