----------------------------- MODULE JsonReader -----------------------------
(***************************************************************************)
(* Document::Parse of rapidjson, as the server calls it: GenericReader's   *)
(* recursive descent (json/reader.h) without flags, and the document that  *)
(* takes its events (json/document.h).  calls is the stack of ParseObject  *)
(* and ParseArray activations, stack the document's stack of values.       *)
(*                                                                         *)
(* The bytes that are read are there from the start, or come to be known   *)
(* when the reader looks at them: any byte of an alphabet, up to its bound *)
(* of them, and then the NUL.                                              *)
(***************************************************************************)
EXTENDS JsonText

CONSTANTS Alphabets,   \* each with its bytes and max, the bound of a text of them
          MaxDouble    \* the largest number that a double holds

ASSUME AlphabetAssumption == Alphabets \in Seq([bytes : SUBSET Bytes, max : Nat])
ASSUME DoubleAssumption == MaxDouble \in Nat

VARIABLES
  bytes,   \* what is read
  open,    \* the alphabet of the bytes not known yet; 0: all are
  pos,     \* of the next byte
  at,      \* what comes next
  calls,   \* open activations, each with the values it has counted
  lex,     \* the string or number being read
  stack,   \* of the document
  code     \* parseResult_

reading == <<bytes, open, pos, at, calls, lex, stack, code>>

\* root .. next: between lexemes.  first: after "{".  element: after "[".
\* next: after a value.
White  == {"root", "value", "first", "member", "colon", "element", "next"}
Places == White \cup {"string", "escape", "sign", "digits", "parsed", "failed"}

NoLex == [key |-> FALSE, chars |-> <<>>, minus |-> FALSE, i |-> 0, big |-> FALSE]

Null == <<"null", <<>>>>

\* A new document parses text.
Starts(text, alphabet) == /\ bytes' = text /\ open' = alphabet /\ pos' = 1
                          /\ at' = "root" /\ calls' = <<>> /\ lex' = NoLex /\ stack' = <<>>
                          /\ code' = "none"

Idle == /\ bytes = <<NUL>> /\ open = 0 /\ pos = 1 /\ at = "parsed"
        /\ calls = <<>> /\ lex = NoLex /\ stack = <<Null>> /\ code = "none"

Busy == at \notin {"parsed", "failed"}

\* The document.
Doc == IF at = "parsed" THEN stack[1] ELSE Null

-----------------------------------------------------------------------------
Grow == /\ Busy /\ open # 0 /\ pos > Len(bytes)
        /\ \E c \in {NUL} \cup {b \in Alphabets[open].bytes : Len(bytes) < Alphabets[open].max} : bytes' = Append(bytes, c)
        /\ UNCHANGED <<open, pos, at, calls, lex, stack, code>>

At(place) == at = place /\ pos <= Len(bytes)
Peek == bytes[pos]

Take == pos' = pos + 1 /\ UNCHANGED <<bytes, open, code>>
Stay == UNCHANGED <<bytes, open, pos, code>>

\* RAPIDJSON_PARSE_ERROR, and ClearStackOnExit of reader and document.
Fails(error) == /\ code' = error /\ at' = "failed" /\ stack' = <<>> /\ calls' = <<>> /\ lex' = NoLex
                /\ UNCHANGED <<bytes, open, pos>>

\* ++memberCount, ++elementCount of the innermost activation.
Counted(active) == IF active = <<>> THEN active ELSE [active EXCEPT ![Len(active)].count = @ + 1]

\* The event of a value that is no object and no array.
Event(value) == /\ stack' = Append(stack, value) /\ calls' = Counted(calls)
                /\ at' = "next" /\ lex' = NoLex

Skip == /\ \E place \in White : At(place)
        /\ Peek \in Blanks
        /\ Take /\ UNCHANGED <<at, calls, lex, stack>>

Parse == /\ At("root") /\ Peek \notin Blanks
         /\ IF Peek = NUL THEN Fails("document_empty")
                          ELSE Stay /\ at' = "value" /\ UNCHANGED <<calls, lex, stack>>

\* ParseValue's switch.
ParseLiteral == /\ At("value") /\ Peek \in {"t", "n"}
                /\ IF Peek = "t" THEN Take /\ Event(<<"true", <<>>>>) ELSE Fails("value_invalid")

ParseObject == /\ At("value") /\ Peek = "{"
               /\ Take /\ at' = "first"
               /\ stack' = Append(stack, <<"object", <<>>>>)
               /\ calls' = Append(calls, [what |-> "object", count |-> 0])
               /\ UNCHANGED lex

ParseArray == /\ At("value") /\ Peek = "["
              /\ Take /\ at' = "element"
              /\ stack' = Append(stack, <<"array", <<>>>>)
              /\ calls' = Append(calls, [what |-> "array", count |-> 0])
              /\ UNCHANGED lex

StringValue == /\ At("value") /\ Peek = "quote"
               /\ Take /\ at' = "string" /\ UNCHANGED <<calls, lex, stack>>

ParseNumber == /\ At("value") /\ Peek \notin Blanks \cup {"t", "n", "{", "[", "quote"}
               /\ at' = "sign" /\ UNCHANGED <<calls, stack>>
               /\ IF Peek = "-" THEN Take /\ lex' = [lex EXCEPT !.minus = TRUE]
                                ELSE Stay /\ UNCHANGED lex

(* Faulty variants of the definitions below: no specification uses them.   *)

\* A comma before the end of an object or array.
AfterCommaFirst == /\ At("next") /\ Peek = "," /\ calls # <<>>
                   /\ Take /\ at' = IF Last(calls).what = "object" THEN "first" ELSE "value"
                   /\ UNCHANGED <<calls, lex, stack>>

\* A root that no blank may follow.
EndRootAtOnce == /\ At("next") /\ calls = <<>>
                 /\ IF Peek = NUL THEN Stay /\ at' = "parsed" /\ UNCHANGED <<calls, lex, stack>>
                                  ELSE Fails("document_root_not_singular")

-----------------------------------------------------------------------------
\* The digit and its value.
Value(c) == CHOOSE d \in 0 .. BASE - 1 : Digit[d] = c

FirstDigit == /\ At("sign")
              /\ IF Peek \notin Digits THEN Fails("value_invalid")
                 ELSE IF Value(Peek) = 0 THEN Take /\ Event(Number(0))
                 ELSE /\ Take /\ at' = "digits" /\ lex' = [lex EXCEPT !.i = Value(Peek)]
                      /\ UNCHANGED <<calls, stack>>

\* 214748364 and '8', or 429496729 and '5'.
Limit == IF lex.minus THEN Half ELSE Width - 1

TooBig(d) == lex.i >= Limit \div BASE /\ (lex.i # Limit \div BASE \/ d > Limit % BASE)

\* Past 32 bits a number is Int64, Uint64 or Double, whose rounding is left out.
NextDigit == /\ At("digits") /\ Peek \in Digits
             /\ Take
             /\ LET more == [lex EXCEPT !.i = lex.i * BASE + Value(Peek)]
                IN  lex' = IF lex.big \/ TooBig(Value(Peek)) THEN [more EXCEPT !.big = TRUE] ELSE more
             /\ UNCHANGED <<at, calls, stack>>

\* Int(~i + 1) or Uint(i), and the flags the value gets.
IntValue == IF lex.big THEN <<"number", <<>>>>
            ELSE IF lex.minus THEN <<"int", <<Signed((Width - lex.i) % Width)>>>>
            ELSE IF lex.i >= Half THEN <<"number", <<>>>> ELSE <<"int", <<lex.i>>>>

EndNumber == /\ At("digits") /\ Peek \notin Digits
             /\ IF lex.big /\ lex.i > MaxDouble THEN Fails("number_too_big")
                                              ELSE Stay /\ Event(IntValue)

-----------------------------------------------------------------------------
ScanString == /\ At("string") /\ Peek # "quote"
              /\ IF Peek = "\\" THEN Take /\ at' = "escape" /\ UNCHANGED <<calls, lex, stack>>
                 ELSE IF Peek = NUL THEN Fails("string_miss_quotation_mark")
                 ELSE IF Peek \in Control THEN Fails("string_invalid_encoding")
                 ELSE /\ Take /\ lex' = [lex EXCEPT !.chars = Append(@, Peek)]
                      /\ UNCHANGED <<at, calls, stack>>

\* The table of escapes; \u is not modelled.
Unescaped == [c \in {"quote", "\\", "n"} |-> IF c = "n" THEN "lf" ELSE c]

Escape == /\ At("escape")
          /\ IF Peek \in DOMAIN Unescaped
             THEN /\ Take /\ at' = "string" /\ lex' = [lex EXCEPT !.chars = Append(@, Unescaped[Peek])]
                  /\ UNCHANGED <<calls, stack>>
             ELSE Fails("string_escape_invalid")

EndString == /\ At("string") /\ Peek = "quote"
             /\ Take
             /\ IF lex.key THEN /\ stack' = Append(stack, <<"string", lex.chars>>)
                                /\ at' = "colon" /\ lex' = NoLex /\ UNCHANGED calls
                           ELSE Event(<<"string", lex.chars>>)

-----------------------------------------------------------------------------
\* EndObject and EndArray of the document: the counted values leave the stack for
\* the object or array below them.
Closes(count) ==
  LET n == IF Last(calls).what = "object" THEN 2 * count ELSE count
      below == Len(stack) - n
  IN  /\ stack' = Append(SubSeq(stack, 1, below - 1), <<Last(calls).what, SubSeq(stack, below + 1, Len(stack))>>)
      /\ calls' = Counted(Front(calls))
      /\ at' = "next" /\ UNCHANGED lex

EmptyObject == /\ At("first") /\ Peek = "}"
               /\ Take /\ Closes(0)

EmptyArray == /\ At("element") /\ Peek = "]"
              /\ Take /\ Closes(0)

FirstElement == /\ At("element") /\ Peek \notin Blanks \cup {"]"}
                /\ Stay /\ at' = "value" /\ UNCHANGED <<calls, lex, stack>>

Key == /\ \E place \in {"first", "member"} : At(place)
       /\ Peek \notin Blanks /\ ~(at = "first" /\ Peek = "}")
       /\ IF Peek = "quote" THEN /\ Take /\ at' = "string" /\ lex' = [lex EXCEPT !.key = TRUE]
                                 /\ UNCHANGED <<calls, stack>>
                            ELSE Fails("object_miss_name")

Colon == /\ At("colon") /\ Peek \notin Blanks
         /\ IF Peek = ":" THEN Take /\ at' = "value" /\ UNCHANGED <<calls, lex, stack>>
                          ELSE Fails("object_miss_colon")

AfterComma == /\ At("next") /\ Peek = "," /\ calls # <<>>
              /\ Take /\ at' = IF Last(calls).what = "object" THEN "member" ELSE "value"
              /\ UNCHANGED <<calls, lex, stack>>

Closing == [object |-> "}", array |-> "]"]

EndObjectOrArray == /\ At("next") /\ calls # <<>> /\ Peek = Closing[Last(calls).what]
                    /\ Take /\ Closes(Last(calls).count)

MissComma == /\ At("next") /\ calls # <<>> /\ Peek \notin Blanks \cup {",", Closing[Last(calls).what]}
             /\ Fails(IF Last(calls).what = "object" THEN "object_miss_comma" ELSE "array_miss_comma")

EndRoot == /\ At("next") /\ calls = <<>> /\ Peek \notin Blanks
           /\ IF Peek = NUL THEN Stay /\ at' = "parsed" /\ UNCHANGED <<calls, lex, stack>>
                            ELSE Fails("document_root_not_singular")

Read == \/ Grow \/ Skip \/ Parse \/ EndRoot
        \/ ParseLiteral \/ ParseObject \/ ParseArray \/ StringValue \/ ParseNumber
        \/ FirstDigit \/ NextDigit \/ EndNumber
        \/ ScanString \/ Escape \/ EndString
        \/ EmptyObject \/ EmptyArray \/ FirstElement \/ Key \/ Colon
        \/ AfterComma \/ EndObjectOrArray \/ MissComma

-----------------------------------------------------------------------------
\* GenericValue::FindMember: the first member of that name, or the number of members.
FindMember(object, name) ==
  LET members == object[2]
      size    == Len(members) \div 2
      named   == {k \in 1 .. size : members[2 * k - 1] = <<"string", name>>}
  IN  IF named = {} THEN size ELSE (CHOOSE k \in named : \A j \in named : k <= j) - 1

HasMember(object, name) == FindMember(object, name) < Len(object[2]) \div 2

Member(object, name) == object[2][2 * FindMember(object, name) + 2]
=============================================================================
