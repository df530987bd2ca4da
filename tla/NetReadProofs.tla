--------------------------- MODULE NetReadProofs ---------------------------
(***************************************************************************)
(* The reader keeps to its buffer whatever the peer sends: type            *)
(* correctness, BufferBound and MemoryBound of NetRead, for every size of  *)
(* byte, buffer and block.                                                 *)
(***************************************************************************)
EXTENDS NetRead, SequenceTheorems, TLAPS

\* Where the frame being read lies in the buffer.
FrameInv == /\ max_packet + NET_HEADER_SIZE + COMP_HEADER_SIZE <= alloc
            /\ max_packet > 0 /\ where_b <= max_packet
            /\ state = "command" => where_b = 0
            /\ state = "header" => Len(buff) + remain = where_b + NET_HEADER_SIZE
            /\ state = "body" => /\ where_b <= Len(buff)
                                 /\ Len(buff) + remain <= max_packet
            /\ state = "packet" => Len(buff) <= max_packet

IInv == TypeOK /\ FrameInv /\ BufferBound /\ MemoryBound

-----------------------------------------------------------------------------
\* A block size is added at most, and only upwards.
LEMMA RoundUpBounds ==
  ASSUME NEW n \in Nat
  PROVE  RoundUp(n) \in Nat /\ n <= RoundUp(n) /\ RoundUp(n) < n + IO_SIZE
<1> DEFINE m == n + IO_SIZE - 1
<1>1. IO_SIZE \in Nat /\ IO_SIZE > 0
  BY ReadAssumption
<1>2. m \in Nat
  BY <1>1
<1>3. m % IO_SIZE \in 0 .. IO_SIZE - 1
  BY <1>1, <1>2
<1>4. RoundUp(n) = m - (m % IO_SIZE)
  BY DEF RoundUp
<1> HIDE DEF m
<1>5. m = n + IO_SIZE - 1
  BY DEF m
<1> QED
  BY <1>1, <1>2, <1>3, <1>4, <1>5

LEMMA ProductNat ==
  ASSUME NEW a \in Nat, NEW b \in Nat
  PROVE  a * b \in Nat
OBVIOUS

\* The length in a header is a natural number.
LEMMA HeaderLengthNat ==
  ASSUME NEW h \in Seq(Byte), Len(h) = NET_HEADER_SIZE
  PROVE  HeaderLength(h) \in Nat /\ h[4] \in Nat
<1>1. h[1] \in Nat /\ h[2] \in Nat /\ h[3] \in Nat /\ h[4] \in Nat
  <2>1. \A x \in Byte : x \in Nat
    BY ReadAssumption DEF Byte
  <2>2. h[1] \in Byte /\ h[2] \in Byte /\ h[3] \in Byte /\ h[4] \in Byte
    <3>1. Len(h) = 4
      BY DEF NET_HEADER_SIZE
    <3>2. 1 \in 1 .. Len(h) /\ 2 \in 1 .. Len(h) /\ 3 \in 1 .. Len(h) /\ 4 \in 1 .. Len(h)
      BY <3>1
    <3> QED
      BY <3>2, ElementOfSeq
  <2> QED
    BY <2>1, <2>2
<1>2. Base \in Nat /\ Base * Base \in Nat
  BY ReadAssumption, ProductNat
<1>3. Base * h[2] \in Nat /\ (Base * Base) * h[3] \in Nat
  BY <1>1, <1>2, ProductNat
<1> QED
  BY <1>1, <1>3 DEF HeaderLength

\* Four elements of a sequence.
LEMMA Four ==
  ASSUME NEW S, NEW s, NEW m \in Int, NEW n \in Int, n = m + 3,
         \A i \in m .. n : s[i] \in S
  PROVE  SubSeq(s, m, n) \in Seq(S) /\ Len(SubSeq(s, m, n)) = 4
<1>1. /\ SubSeq(s, m, n) \in Seq(S)
      /\ Len(SubSeq(s, m, n)) = IF m <= n THEN n - m + 1 ELSE 0
  BY SubSeqProperties
<1> QED
  BY <1>1

\* A prefix and the rest of a sequence.
LEMMA Cut ==
  ASSUME NEW S, NEW s \in Seq(S), NEW n \in 0 .. Len(s)
  PROVE  /\ SubSeq(s, 1, n) \in Seq(S) /\ Len(SubSeq(s, 1, n)) = n
         /\ SubSeq(s, n + 1, Len(s)) \in Seq(S)
         /\ Len(SubSeq(s, n + 1, Len(s))) = Len(s) - n
<1>1. Len(s) \in Nat /\ \A i \in 1 .. Len(s) : s[i] \in S
  BY LenProperties, ElementOfSeq
<1>2. /\ SubSeq(s, 1, n) \in Seq(S)
      /\ Len(SubSeq(s, 1, n)) = IF 1 <= n THEN n - 1 + 1 ELSE 0
  BY <1>1, SubSeqProperties
<1>3. /\ SubSeq(s, n + 1, Len(s)) \in Seq(S)
      /\ Len(SubSeq(s, n + 1, Len(s))) = IF n + 1 <= Len(s) THEN Len(s) - (n + 1) + 1 ELSE 0
  <2>1. n + 1 \in Int /\ Len(s) \in Int /\ \A i \in n + 1 .. Len(s) : s[i] \in S
    BY <1>1
  <2> QED
    BY <2>1, SubSeqProperties
<1> QED
  BY <1>1, <1>2, <1>3

\* A complete header, seen as a sequence of bytes.
LEMMA FoundHeader ==
  ASSUME TypeOK, FrameInv, AtHeader
  PROVE  /\ Len(buff) = where_b + NET_HEADER_SIZE
         /\ HeaderLength(Found) \in Nat
<1>1. Len(buff) = where_b + 4 /\ where_b \in Nat /\ buff \in Seq(Byte)
  <2>1. Len(buff) \in Nat
    BY LenProperties DEF TypeOK
  <2> QED
    BY <2>1 DEF TypeOK, FrameInv, AtHeader, NET_HEADER_SIZE
<1>2. \A i \in where_b + 1 .. where_b + 4 : buff[i] \in Byte
  BY <1>1, ElementOfSeq
<1>3. Found \in Seq(Byte) /\ Len(Found) = 4
  <2>1. /\ where_b + 1 \in Int /\ where_b + 4 \in Int
        /\ where_b + 4 = where_b + 1 + 3
    BY <1>1
  <2> QED
    BY <1>2, <2>1, Four DEF Found, NET_HEADER_SIZE
<1> QED
  BY <1>1, <1>3, HeaderLengthNat DEF NET_HEADER_SIZE

-----------------------------------------------------------------------------
LEMMA InitIInv == Init => IInv
<1> SUFFICES ASSUME Init PROVE IInv
  OBVIOUS
<1>1. TypeOK
  BY ReadAssumption, EmptySeq DEF Init, TypeOK, NET_HEADER_SIZE, COMP_HEADER_SIZE
<1>2. Len(buff) = 0 /\ Len(got) = 0
  BY EmptySeq DEF Init
<1> QED
  BY ReadAssumption, <1>1, <1>2
  DEF Init, IInv, TypeOK, FrameInv, BufferBound, MemoryBound, NET_HEADER_SIZE, COMP_HEADER_SIZE

\* What closes the connection changes nothing that the invariant is about.
LEMMA CloseKeeps ==
  ASSUME IInv, NEW why \in Closed, Close(why), pkt_nr' \in Nat
  PROVE  IInv'
BY DEF IInv, TypeOK, FrameInv, BufferBound, MemoryBound, Close, Closed, Reading,
       NET_HEADER_SIZE, COMP_HEADER_SIZE

LEMMA ReadKeeps ==
  ASSUME IInv, NEW n, Read(n)
  PROVE  IInv'
<1>1. n \in Nat /\ n <= remain /\ n \in 0 .. Len(wire) /\ remain \in Nat
  <2>1. Len(wire) \in Nat
    BY LenProperties DEF IInv, TypeOK
  <2> QED
    BY <2>1 DEF IInv, TypeOK, Read
<1>2. buff \in Seq(Byte) /\ wire \in Seq(Byte)
  BY DEF IInv, TypeOK
<1>3. /\ SubSeq(wire, 1, n) \in Seq(Byte) /\ Len(SubSeq(wire, 1, n)) = n
      /\ wire' \in Seq(Byte)
  BY <1>1, <1>2, Cut DEF Read
<1>4. buff' \in Seq(Byte) /\ Len(buff') = Len(buff) + n /\ Len(buff) \in Nat
  BY <1>2, <1>3, ConcatProperties, LenProperties DEF Read
<1>5. remain' \in Nat /\ Len(buff') + remain' = Len(buff) + remain
  BY <1>1, <1>4 DEF Read
<1>6. TypeOK'
  BY <1>3, <1>4, <1>5 DEF IInv, TypeOK, Read
<1>7. FrameInv'
  BY <1>1, <1>4, <1>5 DEF IInv, TypeOK, FrameInv, Read, Reading
<1>8. BufferBound' /\ MemoryBound'
  BY <1>4, <1>5 DEF IInv, BufferBound, MemoryBound, Read, Reading
<1> QED
  BY <1>6, <1>7, <1>8 DEF IInv

\* BeginBody and EmptyFrame drop the header from the buffer.
LEMMA Dropped ==
  ASSUME TypeOK, FrameInv, AtHeader
  PROVE  /\ SubSeq(buff, 1, where_b) \in Seq(Byte)
         /\ Len(SubSeq(buff, 1, where_b)) = where_b
<1>1. where_b \in 0 .. Len(buff) /\ buff \in Seq(Byte)
  BY FoundHeader DEF TypeOK, NET_HEADER_SIZE
<1> QED
  BY <1>1, Cut

LEMMA EmptyFrameKeeps ==
  ASSUME IInv, EmptyFrame
  PROVE  IInv'
<1>1. /\ buff' \in Seq(Byte) /\ Len(buff') = where_b
      /\ remain = 0 /\ pkt_nr' \in Nat
  BY Dropped DEF IInv, EmptyFrame, InSequence, AtHeader, TypeOK
<1> QED
  BY <1>1 DEF IInv, TypeOK, FrameInv, BufferBound, MemoryBound, EmptyFrame,
              NET_HEADER_SIZE, COMP_HEADER_SIZE

LEMMA BeginBodyKeeps ==
  ASSUME IInv, BeginBody
  PROVE  IInv'
<1> DEFINE len == HeaderLength(Found)
<1>1. len \in Nat /\ where_b \in Nat /\ Necessary(len) = len + where_b
  BY FoundHeader DEF IInv, BeginBody, InSequence, TypeOK, Necessary
<1>2. /\ buff' \in Seq(Byte) /\ Len(buff') = where_b
      /\ remain' = len /\ pkt_nr' \in Nat
  BY Dropped DEF IInv, BeginBody, InSequence, AtHeader, TypeOK
<1> HIDE DEF len
<1>3. /\ max_packet' \in Nat /\ alloc' \in Nat
      /\ max_packet <= max_packet' /\ len + where_b <= max_packet'
      /\ max_packet' + NET_HEADER_SIZE + COMP_HEADER_SIZE <= alloc'
      /\ max_packet' # max_packet => max_packet' < max_packet_size + IO_SIZE
  <2>1. CASE Necessary(len) < max_packet /\ UNCHANGED <<alloc, max_packet>>
    BY <1>1, <2>1 DEF IInv, TypeOK, FrameInv
  <2>2. CASE Necessary(len) >= max_packet /\ MayGrow(len) /\ Grow(Necessary(len))
    <3>1. /\ RoundUp(Necessary(len)) \in Nat
          /\ Necessary(len) <= RoundUp(Necessary(len))
          /\ RoundUp(Necessary(len)) < Necessary(len) + IO_SIZE
      BY <1>1, RoundUpBounds
    <3> QED
      BY <1>1, <2>2, <3>1, ReadAssumption
      DEF IInv, TypeOK, MayGrow, Grow, NET_HEADER_SIZE, COMP_HEADER_SIZE
  <2> QED
    BY <2>1, <2>2 DEF BeginBody, len
<1>4. TypeOK'
  BY <1>1, <1>2, <1>3 DEF IInv, TypeOK, BeginBody, Reading
<1>5. FrameInv' /\ BufferBound'
  <2>1. state' = "body" /\ where_b' = where_b /\ max_packet > 0 /\ max_packet \in Nat
    BY DEF BeginBody, IInv, TypeOK, FrameInv
  <2>2. where_b' <= Len(buff') /\ Len(buff') + remain' <= max_packet'
    BY <1>1, <1>2, <1>3, <2>1
  <2>3. max_packet' > 0 /\ where_b' <= max_packet'
    BY <1>1, <1>3, <2>1
  <2>4. Len(buff') + remain' <= alloc'
    <3>1. \A a, b, c \in Nat : a <= b /\ b + 4 + 3 <= c => a <= c
      OBVIOUS
    <3>2. len + where_b \in Nat /\ len + where_b <= max_packet'
      BY <1>1, <1>3
    <3>3. max_packet' + 4 + 3 <= alloc' /\ max_packet' \in Nat /\ alloc' \in Nat
      BY <1>3 DEF NET_HEADER_SIZE, COMP_HEADER_SIZE
    <3>4. len + where_b <= alloc'
      BY <3>1, <3>2, <3>3
    <3> QED
      BY <1>1, <1>2, <3>4
  <2> QED
    BY <1>3, <2>1, <2>2, <2>3, <2>4 DEF FrameInv, BufferBound
<1>6. MemoryBound'
  <2>1. \A i \in 1 .. Len(got) : Len(got[i]) \in Nat
    BY ElementOfSeq, LenProperties DEF IInv, TypeOK
  <2> QED
    BY <1>3, <2>1 DEF IInv, TypeOK, MemoryBound, BeginBody
<1> QED
  BY <1>4, <1>5, <1>6 DEF IInv

LEMMA BodyReadKeeps ==
  ASSUME IInv, NextFrame \/ LastFrame
  PROVE  IInv'
<1>1. Len(buff) \in Nat
  BY LenProperties DEF IInv, TypeOK
<1>2. CASE NextFrame
  BY <1>1, <1>2 DEF IInv, TypeOK, FrameInv, BufferBound, MemoryBound, NextFrame, AtBody,
                    Reading, NET_HEADER_SIZE, COMP_HEADER_SIZE
<1>3. CASE LastFrame
  BY <1>1, <1>3 DEF IInv, TypeOK, FrameInv, BufferBound, MemoryBound, LastFrame, AtBody,
                    NET_HEADER_SIZE, COMP_HEADER_SIZE
<1> QED
  BY <1>2, <1>3

LEMMA DeliverKeeps ==
  ASSUME IInv, Deliver
  PROVE  IInv'
<1>1. Seen(buff) \in Seq(Byte) /\ Len(Seen(buff)) <= max_packet
  <2>1. CASE buff = <<>>
    <3>1. <<0>> \in Seq(Byte) /\ Len(<<0>>) = 1
      BY ReadAssumption DEF Byte
    <3> QED
      BY <2>1, <3>1 DEF IInv, TypeOK, FrameInv, Seen, CCOM_SLEEP
  <2>2. CASE buff # <<>>
    BY <2>2 DEF IInv, TypeOK, FrameInv, Seen, Deliver
  <2> QED
    BY <2>1, <2>2
<1>2. /\ got' \in Seq(Seq(Byte)) /\ Len(got') = Len(got) + 1 /\ Len(got) \in Nat
      /\ \A i \in 1 .. Len(got) : got'[i] = got[i]
      /\ got'[Len(got) + 1] = Seen(buff)
  BY <1>1, AppendProperties, LenProperties DEF IInv, TypeOK, Deliver
<1>3. \A i \in 1 .. Len(got') : Len(got'[i]) <= max_packet
  <2> TAKE i \in 1 .. Len(got')
  <2>1. CASE i \in 1 .. Len(got)
    BY <1>2, <2>1 DEF IInv, MemoryBound
  <2>2. CASE i = Len(got) + 1
    BY <1>1, <1>2, <2>2
  <2> QED
    BY <1>2, <2>1, <2>2
<1>4. TypeOK'
  BY <1>2 DEF IInv, TypeOK, Deliver
<1> QED
  BY <1>3, <1>4 DEF IInv, TypeOK, FrameInv, BufferBound, MemoryBound, Deliver

LEMMA PeerKeeps ==
  ASSUME IInv, Peer
  PROVE  IInv'
<1>1. wire' \in Seq(Byte)
  BY ConcatProperties DEF IInv, TypeOK, Peer
<1> QED
  BY <1>1 DEF IInv, TypeOK, FrameInv, BufferBound, MemoryBound, Peer

LEMMA StepIInv == IInv /\ [Reader \/ Peer]_vars => IInv'
<1> SUFFICES ASSUME IInv, [Reader \/ Peer]_vars PROVE IInv'
  OBVIOUS
<1>0. pkt_nr \in Nat
  BY DEF IInv, TypeOK
<1>1. CASE NewCommand
  <2>1. buff' \in Seq(Byte) /\ Len(buff') = 0
    BY <1>1, EmptySeq DEF NewCommand
  <2>2. TypeOK' /\ MemoryBound'
    BY <1>1, <2>1 DEF IInv, TypeOK, MemoryBound, NewCommand, Reading, NET_HEADER_SIZE
  <2>3. FrameInv' /\ BufferBound'
    BY <1>1, <2>1 DEF IInv, TypeOK, FrameInv, BufferBound, NewCommand,
                      NET_HEADER_SIZE, COMP_HEADER_SIZE
  <2> QED
    BY <2>2, <2>3 DEF IInv
<1>2. CASE \E n \in 1 .. Len(wire) : Read(n)
  BY <1>2, ReadKeeps
<1>3. CASE OutOfOrder
  BY <1>0, <1>3, CloseKeeps DEF OutOfOrder, Closed
<1>4. CASE EmptyFrame
  BY <1>4, EmptyFrameKeeps
<1>5. CASE BeginBody
  BY <1>5, BeginBodyKeeps
<1>6. CASE TooLarge
  BY <1>0, <1>6, CloseKeeps DEF TooLarge, InSequence, Closed
<1>7. CASE NextFrame \/ LastFrame
  BY <1>7, BodyReadKeeps
<1>8. CASE Deliver
  BY <1>8, DeliverKeeps
<1>9. CASE ReadFails
  BY <1>0, <1>9, CloseKeeps DEF ReadFails, Closed
<1>10. CASE NoMemory
  BY <1>0, <1>10, CloseKeeps DEF NoMemory, InSequence, Closed
<1>11. CASE Peer
  BY <1>11, PeerKeeps
<1>12. CASE UNCHANGED vars
  BY <1>12 DEF IInv, TypeOK, FrameInv, BufferBound, MemoryBound, vars
<1> QED
  BY <1>1, <1>2, <1>3, <1>4, <1>5, <1>6, <1>7, <1>8, <1>9, <1>10, <1>11, <1>12
  DEF Reader, Progress

\* The invariant holds whatever bytes the peer sends.
THEOREM ReaderInductive == ReaderSpec => []IInv
<1> QED
  BY InitIInv, StepIInv, PTL DEF ReaderSpec

\* No byte is stored outside the buffer, whatever bytes the peer sends.
THEOREM ReaderBufferSafe == ReaderSpec => []BufferBound
<1>1. IInv => BufferBound
  BY DEF IInv
<1> QED
  BY <1>1, ReaderInductive, PTL

\* The buffer grows to max_packet_size and a block at most, whatever bytes the
\* peer sends, and nothing larger is dispatched.
THEOREM ReaderMemoryBounded == ReaderSpec => []MemoryBound
<1>1. IInv => MemoryBound
  BY DEF IInv
<1> QED
  BY <1>1, ReaderInductive, PTL
=============================================================================
