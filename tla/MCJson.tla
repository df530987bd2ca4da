------------------------------- MODULE MCJson -------------------------------
EXTENDS JsonExchange

\* Of the bytes 1 .. BLOCK some are blanks (9, 10 and 13 of 1 .. 16).
MCPadByte == <<"soh", "lf", "etx">>

MCStatusName   == <<"t">>
MCContentsName == <<"n">>
MCUserName     == <<>>

\* All bytes, those that objects are made of, and blanks between those.
MCAlphabets == <<[bytes |-> Bytes, max |-> 6],
                 [bytes |-> {"{", "}", "quote", ":", ",", "t"}, max |-> 8],
                 [bytes |-> {"{", "}", "quote", ":", "lf"}, max |-> 8]>>

\* What is to be escaped, and nothing.
MCContents == {<<>>, <<"quote">>, <<"t", "lf", "\\">>}
=============================================================================
