----------------------------- MODULE JsonWriter -----------------------------
(***************************************************************************)
(* rapidjson's Writer (json/writer.h) on a StringBuffer, and the answer    *)
(* net_end_statement writes with it.  A writer is what it has written and  *)
(* its stack of levels, each with the values it has and whether it is an   *)
(* array.  The server writes objects, strings and ints.                    *)
(***************************************************************************)
EXTENDS JsonText

CONSTANTS StatusName, ContentsName, UserName   \* JSON_NAME_RETURN_STATUS and so on

NewWriter == [os |-> <<>>, levels |-> <<>>]

Put(w, text) == [w EXCEPT !.os = @ \o text]

\* The comma or colon before a value.
Prefix(w) ==
  IF w.levels = <<>> THEN w
  ELSE LET level == Last(w.levels)
           mark  == IF level.valueCount = 0 THEN <<>>
                    ELSE IF level.inArray \/ level.valueCount % 2 = 0 THEN <<",">> ELSE <<":">>
       IN  [Put(w, mark) EXCEPT !.levels[Len(w.levels)].valueCount = @ + 1]

Escaped == [c \in {"quote", "\\", "lf"} |-> IF c = "lf" THEN <<"\\", "n">> ELSE <<"\\", c>>]

WriteString(w, chars) ==
  LET inside == FoldLeft(LAMBDA text, c : text \o IF c \in DOMAIN Escaped THEN Escaped[c] ELSE <<c>>,
                         <<>>, chars)
  IN  Put(Prefix(w), <<"quote">> \o inside \o <<"quote">>)

u32toa[u \in 0 .. Width - 1] ==
  IF u < BASE THEN <<Digit[u]>> ELSE Append(u32toa[u \div BASE], Digit[u % BASE])

i32toa(i) == IF i < 0 THEN <<"-">> \o u32toa[-i] ELSE u32toa[i]

\* Uint and Int.
WriteUint(w, u) == Put(Prefix(w), u32toa[u])
WriteInt(w, i)  == Put(Prefix(w), i32toa(i))

StartObject(w) == LET p == Prefix(w)
                  IN  [Put(p, <<"{">>) EXCEPT !.levels = Append(@, [inArray |-> FALSE, valueCount |-> 0])]

EndObject(w) == [Put(w, <<"}">>) EXCEPT !.levels = Front(@)]

\* The answer up to the user index: the status, and the contents of the file for one status.
Status(status, contents) ==
  LET opened == WriteInt(WriteString(StartObject(NewWriter), StatusName), status)
  IN  IF contents = {} THEN opened
      ELSE WriteString(WriteString(opened, ContentsName), CHOOSE c \in contents : TRUE)

(* Faulty variants of the definitions below: no specification uses them.   *)

\* The user index, an unsigned, written by Uint.
AnswerUnsigned(status, contents, user) ==
  LET w == Status(status, contents)
  IN  EndObject(IF user = 0 THEN w ELSE WriteUint(WriteString(w, UserName), user)).os

-----------------------------------------------------------------------------
\* net_end_statement: there is no user 0.
Answer(status, contents, user) ==
  LET w == Status(status, contents)
  IN  EndObject(IF user = 0 THEN w ELSE WriteInt(WriteString(w, UserName), Signed(user))).os
=============================================================================
