---------------------------- MODULE JsonExchange ----------------------------
(***************************************************************************)
(* The texts of requests and answers: what the server reads in the bytes   *)
(* of a packet (dispatch_command), and whether what one side writes is     *)
(* what the other reads.                                                   *)
(*                                                                         *)
(* A packet comes from someone the server knows nothing of, in a clear or  *)
(* an encrypted build; or a client takes the user index of SaveToken's     *)
(* answer and sends it back in a request.  The client reads and writes     *)
(* numbers as they are in the text, and ends its text with a NUL, as       *)
(* ClientTest does.                                                        *)
(***************************************************************************)
EXTENDS JsonReader, JsonWriter

CONSTANTS Contents,    \* of CHECK_SERVER_FILE_NAME
          Statuses,    \* server_status
          SealedBytes, \* bytes of packets from unknown senders in the encrypted build
          MaxBlocks    \* bound: blocks of such a packet

ASSUME ExchangeAssumption ==
  /\ Statuses \subseteq 0 .. Half - 1
  /\ Contents \cup {StatusName, ContentsName, UserName} \subseteq Seq(Char \cup Blanks)
  /\ SealedBytes \subseteq Bytes \cup {NUL} /\ MaxBlocks \in Nat
  /\ StatusName # ContentsName /\ StatusName # UserName /\ ContentsName # UserName

VARIABLES
  stage,    \* what happens next
  answer,   \* what the server answered: status, contents, user
  packet,   \* what the server got
  command,  \* "start", or "quit" when the text does not decrypt
  form,     \* what the server made of the request
  user_id   \* the user it names

vars == <<reading, stage, answer, packet, command, form, user_id>>

NoAnswer == [status |-> 0, contents |-> {}, user |-> 0]

Init == /\ Idle
        /\ stage = "idle" /\ answer = NoAnswer /\ packet = <<>>
        /\ command = "start" /\ form = "none" /\ user_id = 0

-----------------------------------------------------------------------------
\* do_command, clear build: the packet is the text, and a NUL is put after it.
Request == /\ stage = "idle"
           /\ stage' = "server" /\ \E a \in 1 .. Len(Alphabets) : Starts(<<>>, a)
           /\ UNCHANGED <<answer, packet, command, form, user_id>>

\* What dispatch_command does with an encrypted packet before it parses.
Decrypts(p) == LET len == DecryptData(p)
               IN  /\ packet' = p
                   /\ command' = IF len = 0 \/ Len(p) = len THEN "quit" ELSE "start"
                   /\ stage' = "server" /\ Starts(Append(p, NUL), 0)

SealedRequest == /\ stage = "idle"
                 /\ \E n \in 0 .. BLOCK * MaxBlocks : \E p \in [1 .. n -> SealedBytes] : Decrypts(p)
                 /\ UNCHANGED <<answer, form, user_id>>

-----------------------------------------------------------------------------
\* The answer, its NUL and its padding.  The client decrypts it and reads up to the NUL.
WriteAnswer == /\ stage = "idle"
               /\ \E status \in Statuses, user \in 0 .. Width - 1,
                     contents \in {{}} \cup {{c} : c \in Contents}, encrypted \in BOOLEAN :
                    LET text == Append(Answer(status, contents, user), NUL)
                    IN  /\ answer' = [status |-> status, contents |-> contents, user |-> user]
                        /\ Starts(IF encrypted THEN PaddingDataPKCS7(text) ELSE text, 0)
               /\ stage' = "client"
               /\ UNCHANGED <<packet, command, form, user_id>>

\* A request with the number the client found.
Echo == LET found == CHOOSE n \in -Width .. Width : Member(Doc, UserName) = <<"int", <<n>>>>
        IN  EndObject(WriteInt(WriteString(StartObject(NewWriter), UserName), found)).os

ClientSends == /\ stage = "client" /\ at = "parsed" /\ HasMember(Doc, UserName)
               /\ Member(Doc, UserName)[1] = "int"
               /\ Decrypts(PaddingDataPKCS7(Append(Echo, NUL)))
               /\ UNCHANGED <<answer, form, user_id>>

-----------------------------------------------------------------------------
\* dispatch_command: no JSON object, an object without a user index, or all it asks for.
Dispatch == /\ stage = "server" /\ ~Busy
            /\ stage' = "dispatched"
            /\ IF command = "quit" THEN UNCHANGED <<form, user_id>>
               ELSE IF Doc[1] # "object" THEN form' = "text" /\ UNCHANGED user_id
               ELSE IF HasMember(Doc, UserName) /\ Member(Doc, UserName)[1] = "int"
                    THEN form' = "complete" /\ user_id' = Unsigned(Member(Doc, UserName)[2][1])
                    ELSE form' = "object" /\ UNCHANGED user_id
            /\ UNCHANGED <<reading, answer, packet, command>>

Reads == Read /\ UNCHANGED <<stage, answer, packet, command, form, user_id>>

Next == Request \/ SealedRequest \/ WriteAnswer \/ ClientSends \/ Dispatch \/ Reads

Spec == Init /\ [][Next]_vars

-----------------------------------------------------------------------------
(***************************************************************************)
(* Properties.                                                             *)
(***************************************************************************)

\* The bytes up to the first NUL, which may be in a packet.
Text(b) == IF \E k \in 1 .. Len(b) : b[k] = NUL
           THEN SubSeq(b, 1, (CHOOSE k \in 1 .. Len(b) : b[k] = NUL /\ \A j \in 1 .. k - 1 : b[j] # NUL) - 1)
           ELSE b

Json == FoldLeft(LAMBDA tables, a : LET T == Grammar(a.bytes, a.max)
                                    IN  tables \o <<[row |-> T, beginnings |-> Beginnings(T, a.max)]>>,
                 <<>>, Alphabets)

\* What a text of an alphabet means.
Means(text, value, a) == <<text, value>> \in Json[a].row[Len(text)].values

\* The server accepts no text that is not JSON, whatever bytes a packet has, and the document
\* it then looks members up in (document.h:2437-2477) is the value the text stands for:
\* counts, nesting, escapes and the edges of int (reader.h:1484, 1496) included.
ReadsMeaning == stage = "server" /\ at = "parsed" /\ open # 0 => Means(Text(bytes), Doc, open)

\* A numeral that no double holds ends before the byte the reader looks at.
NumberTooBig == \E k \in 1 .. pos - 1 : \E numeral \in Json[open].row[pos - k].numerals :
                  numeral[1] = SubSeq(bytes, k, pos - 1) /\ numeral[2] > MaxDouble

\* It refuses no JSON text, not at its end and not at a byte that one may go on with
\* (reader.h:1023-1106, 1716-1732), but those with a number that no double holds
\* (reader.h:1700-1707).
RefusesNoJson == stage = "server" /\ at = "failed" /\ open # 0 =>
                   \/ code = "number_too_big" /\ NumberTooBig
                   \/ IF Text(bytes) = bytes THEN bytes \notin Json[open].beginnings[Len(bytes)]
                      ELSE Text(bytes) \notin Json[open].row[Len(Text(bytes))].texts

\* A packet is refused by its length alone (net_connect.cc:308) exactly if no client
\* padded a text into it; and what is read in the others is what was padded, although
\* the padding stays in the buffer: a text without its NUL is refused, unless the
\* padding is blanks.
SealTold == stage = "dispatched" /\ answer = NoAnswer /\ ~(packet = <<>> /\ command = "start") =>
  LET Sealed == {n \in 1 .. Len(packet) : PaddingDataPKCS7(SubSeq(packet, 1, n)) = packet}
  IN  /\ command = "start" <=> Sealed # {}
      /\ \A n \in Sealed : at = "parsed" => Means(Text(SubSeq(packet, 1, n)), Doc, 1)

\* The client reads in an answer the status, file and user index that the server meant,
\* and a user index that is sent back names the same user, although it is written as an
\* int (net_connect.cc:480), read as one (372) and used as unsigned (374).
AnswerKept ==
  /\ stage = "client" /\ ~Busy =>
       LET user == Signed(answer.user)
       IN  Doc = <<"object",
                   <<<<"string", StatusName>>, <<"int", <<answer.status>>>>>>
                   \o (IF answer.contents = {} THEN <<>>
                       ELSE <<<<"string", ContentsName>>, <<"string", CHOOSE c \in answer.contents : TRUE>>>>)
                   \o (IF user = 0 THEN <<>> ELSE <<<<"string", UserName>>, <<"int", <<user>>>>>>)>>
  /\ stage = "dispatched" /\ answer # NoAnswer =>
       command = "start" /\ form = "complete" /\ user_id = answer.user
=============================================================================
