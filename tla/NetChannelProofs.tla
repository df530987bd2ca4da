-------------------------- MODULE NetChannelProofs --------------------------
(***************************************************************************)
(* A client that writes with the packet layer is a peer of the reader: so  *)
(* the reader's invariants hold in NetChannel, for every set of packets.   *)
(***************************************************************************)
EXTENDS NetChannel, NetReadProofs

\* The writer's buffer is not overrun, and a command and its header are part
\* of the packet they belong to.
WriteInv == Len(wbuf) <= NET_BUFFER_LENGTH /\ head <= Len(rest)

CInv == WTypeOK /\ IInv /\ WriteInv

-----------------------------------------------------------------------------
LEMMA SmallLength ==
  ASSUME NEW m \in Nat, NEW n \in Nat
  PROVE  Least(m, n) \in 0 .. m
BY DEF Least

LEMMA MaxFrameNat == MAX_PACKET_LENGTH \in Nat
<1>1. Base \in Nat /\ Base > 1 /\ Base * Base \in Nat /\ (Base * Base) * Base \in Nat
  BY ReadAssumption, ProductNat
<1>2. (Base * Base) * Base # 0
  BY <1>1, ReadAssumption
<1> QED
  BY <1>1, <1>2 DEF MAX_PACKET_LENGTH

\* int3store writes bytes.
LEMMA HeaderBytes ==
  ASSUME NEW len \in Nat, NEW k \in Nat
  PROVE  Header(len, k) \in Seq(Byte)
<1>1. \A x \in Nat : x % Base \in Byte
  BY ReadAssumption DEF Byte
<1>2. Base \in Nat /\ Base > 0 /\ Base * Base \in Nat /\ Base * Base > 0
  BY ReadAssumption, ProductNat
<1>3. len \div Base \in Nat
  BY <1>2
<1>4. len \div (Base * Base) \in Nat
  <2> DEFINE b == Base * Base
  <2>1. b \in Nat /\ b > 0
    BY <1>2
  <2> HIDE DEF b
  <2>2. len \div b \in Nat
    BY <2>1
  <2> QED
    BY <2>2 DEF b
<1>5. /\ len % Base \in Byte /\ (len \div Base) % Base \in Byte
      /\ (len \div (Base * Base)) % Base \in Byte /\ k % Base \in Byte
  BY <1>1, <1>3, <1>4
<1> QED
  BY <1>5 DEF Header

LEMMA Pair ==
  ASSUME NEW S, NEW a \in S, NEW b \in S
  PROVE  <<a, b>> \in Seq(S)
OBVIOUS

LEMMA Triple ==
  ASSUME NEW S, NEW a \in S, NEW b \in S, NEW c \in S
  PROVE  <<a, b, c>> \in Seq(S)
OBVIOUS

\* Any stretch of a sequence.
LEMMA Stretch ==
  ASSUME NEW S, NEW s \in Seq(S), NEW m \in Nat \ {0}, NEW n \in 0 .. Len(s)
  PROVE  SubSeq(s, m, n) \in Seq(S)
<1>1. n \in Int /\ m \in Int /\ \A i \in m .. n : s[i] \in S
  <2>1. Len(s) \in Nat
    BY LenProperties
  <2>2. \A i \in m .. n : i \in 1 .. Len(s)
    BY <2>1
  <2> QED
    BY <2>1, <2>2, ElementOfSeq
<1> QED
  BY <1>1, SubSeqProperties

-----------------------------------------------------------------------------
LEMMA InitCInv == CInit => CInv
<1> SUFFICES ASSUME CInit PROVE CInv
  OBVIOUS
<1>1. IInv
  BY InitIInv DEF CInit
<1>2. Len(<<>>) = 0 /\ <<>> \in Seq(Byte) /\ <<>> \in Seq(Seq(Byte))
  BY EmptySeq
<1> QED
  BY <1>1, <1>2, ReadAssumption DEF CInit, WInit, CInv, WTypeOK, IInv, WriteInv

LEMMA BeginKeeps ==
  ASSUME CInv, Begin, UNCHANGED vars
  PROVE  WTypeOK' /\ WriteInv'
<1>1. PICK p \in Packets : sent' = Append(sent, p) /\ rest' = p
  BY DEF Begin
<1>2. p \in Seq(Byte)
  BY ChannelAssumption
<1>3. sent' \in Seq(Seq(Byte)) /\ rest' \in Seq(Byte) /\ Len(rest') \in Nat
  BY <1>1, <1>2, AppendProperties, LenProperties DEF CInv, WTypeOK
<1>4. head' \in Nat /\ head' <= Len(rest')
  BY <1>3 DEF Begin
<1>5. TypeOK'
  BY DEF CInv, IInv, TypeOK, vars
<1>6. wbuf' \in Seq(Byte) /\ Len(wbuf') = 0 /\ nr' = 0
  BY EmptySeq DEF Begin
<1> QED
  BY <1>3, <1>4, <1>5, <1>6, ReadAssumption DEF CInv, WTypeOK, WriteInv, Begin

LEMMA FrameKeeps ==
  ASSUME CInv, Frame, UNCHANGED vars
  PROVE  WTypeOK' /\ WriteInv'
<1> DEFINE n == Least(Len(rest), MAX_PACKET_LENGTH)
           h == Header(n, nr)
<1>1. rest \in Seq(Byte) /\ Len(rest) \in Nat /\ head \in 0 .. Len(rest) /\ nr \in Nat
  BY LenProperties DEF CInv, WTypeOK, WriteInv
<1>2. n \in 0 .. Len(rest)
  BY <1>1, SmallLength, MaxFrameNat
<1>3. h \in Seq(Byte)
  BY <1>1, <1>2, HeaderBytes
<1> HIDE DEF n, h
<1>4. rest' \in Seq(Byte) /\ Len(rest') \in Nat
  <2>1. rest' = SubSeq(rest, n + 1, Len(rest))
    BY DEF Frame, Drop, n
  <2> QED
    BY <1>1, <1>2, <2>1, Cut, LenProperties
<1>5. pieces' \in Seq(Seq(Byte))
  <2>1. CASE head = 0
    <3>1. SubSeq(rest, 1, n) \in Seq(Byte)
      BY <1>1, <1>2, Cut
    <3>2. pieces' = <<h, SubSeq(rest, 1, n)>>
      BY <2>1 DEF Frame, n, h
    <3> QED
      BY <1>3, <3>1, <3>2, Pair
  <2>2. CASE head # 0
    <3>1. 1 \in 0 .. Len(rest) /\ head + 1 \in Nat \ {0} /\ 2 \in Nat \ {0} /\ 1 \in Nat \ {0}
      BY <1>1, <2>2
    <3>2. /\ SubSeq(rest, 1, 1) \in Seq(Byte) /\ SubSeq(rest, 2, head) \in Seq(Byte)
          /\ SubSeq(rest, head + 1, n) \in Seq(Byte)
      BY <1>1, <1>2, <3>1, Stretch
    <3>3. h \o SubSeq(rest, 1, 1) \in Seq(Byte)
      BY <1>3, <3>2, ConcatProperties
    <3>4. pieces' = <<h \o SubSeq(rest, 1, 1), SubSeq(rest, 2, head), SubSeq(rest, head + 1, n)>>
      BY <2>2 DEF Frame, n, h
    <3> QED
      BY <3>2, <3>3, <3>4, Triple
  <2> QED
    BY <2>1, <2>2
<1>6. TypeOK'
  BY DEF CInv, IInv, TypeOK, vars
<1>7. nr' \in Nat /\ head' = 0 /\ writer' \in {"frame", "flush"} /\ UNCHANGED <<sent, wbuf, out>>
  BY <1>1 DEF Frame
<1> QED
  BY <1>4, <1>5, <1>6, <1>7 DEF CInv, WTypeOK, WriteInv

LEMMA BuffKeeps ==
  ASSUME CInv, Buffer \/ FillAndSend \/ SendDirect, UNCHANGED vars
  PROVE  WTypeOK' /\ WriteInv'
<1> DEFINE p == Head(pieces)
<1>1. /\ p \in Seq(Byte) /\ Tail(pieces) \in Seq(Seq(Byte)) /\ Len(p) \in Nat
      /\ wbuf \in Seq(Byte) /\ Len(wbuf) \in Nat /\ Left \in Nat
  <2>1. pieces # <<>>
    BY DEF AtPiece, Buffer, FillAndSend, SendDirect
  <2> QED
    BY <2>1, HeadTailProperties, LenProperties, ReadAssumption
    DEF CInv, WTypeOK, WriteInv, Left
<1>2. TypeOK'
  BY DEF CInv, IInv, TypeOK, vars
<1>3. CASE Buffer
  <2>1. wbuf' \in Seq(Byte) /\ Len(wbuf') = Len(wbuf) + Len(p)
    BY <1>1, <1>3, ConcatProperties DEF Buffer
  <2>2. Len(wbuf') <= NET_BUFFER_LENGTH
    BY <1>1, <1>3, <2>1, ReadAssumption DEF Buffer, Left
  <2> QED
    BY <1>1, <1>2, <1>3, <2>1, <2>2 DEF CInv, WTypeOK, WriteInv, Buffer
<1>4. CASE FillAndSend
  <2>1. Left \in 0 .. Len(p)
    BY <1>1, <1>4 DEF FillAndSend
  <2>2. SubSeq(p, 1, Left) \in Seq(Byte) /\ Drop(p, Left) \in Seq(Byte)
    BY <1>1, <2>1, Cut DEF Drop
  <2>3. out' \in Seq(Byte)
    BY <1>1, <1>4, <2>2, ConcatProperties DEF FillAndSend
  <2>4. pieces' \in Seq(Seq(Byte))
    <3>1. << Drop(p, Left) >> \in Seq(Seq(Byte))
      BY <2>2
    <3> QED
      BY <1>1, <1>4, <3>1, ConcatProperties DEF FillAndSend
  <2>5. wbuf' \in Seq(Byte) /\ Len(wbuf') = 0
    BY <1>4, EmptySeq DEF FillAndSend
  <2> QED
    BY <1>2, <1>4, <2>3, <2>4, <2>5, ReadAssumption DEF CInv, WTypeOK, WriteInv, FillAndSend
<1>5. CASE SendDirect
  BY <1>1, <1>2, <1>5 DEF CInv, WTypeOK, WriteInv, SendDirect
<1> QED
  BY <1>3, <1>4, <1>5

LEMMA OtherWritesKeep ==
  ASSUME CInv, Flush \/ StartAlarm \/ WriteFails, UNCHANGED vars
  PROVE  WTypeOK' /\ WriteInv'
<1>1. TypeOK'
  BY DEF CInv, IInv, TypeOK, vars
<1>2. <<>> \in Seq(Byte) /\ <<>> \in Seq(Seq(Byte)) /\ Len(<<>>) = 0
  BY EmptySeq
<1>3. CASE Flush
  BY <1>1, <1>2, <1>3, ReadAssumption DEF CInv, WTypeOK, WriteInv, Flush
<1>4. CASE StartAlarm
  <2>1. PICK p \in Packets : /\ sent' = Append(sent, p)
                             /\ out' = Header(Len(p), 0) \o p \o [i \in 1 .. Stray |-> 0]
    BY <1>4 DEF StartAlarm
  <2>2. p \in Seq(Byte) /\ Len(p) \in Nat
    BY ChannelAssumption, LenProperties
  <2>3. [i \in 1 .. Stray |-> 0] \in Seq(Byte)
    BY ChannelAssumption, ReadAssumption DEF Byte
  <2>4. Header(Len(p), 0) \o p \in Seq(Byte)
    BY <2>2, HeaderBytes, ConcatProperties
  <2>5. sent' \in Seq(Seq(Byte)) /\ out' \in Seq(Byte)
    BY <2>1, <2>2, <2>3, <2>4, ConcatProperties, AppendProperties DEF CInv, WTypeOK
  <2> QED
    BY <1>1, <1>4, <2>5 DEF CInv, WTypeOK, WriteInv, StartAlarm
<1>5. CASE WriteFails
  BY <1>1, <1>2, <1>5 DEF CInv, WTypeOK, WriteInv, WriteFails
<1> QED
  BY <1>3, <1>4, <1>5

\* A write is a step of the reader's peer.
LEMMA WriteKeeps ==
  ASSUME CInv, NEW n, Write(n)
  PROVE  CInv'
<1>1. out \in Seq(Byte) /\ n \in 0 .. Len(out)
  BY LenProperties DEF CInv, WTypeOK, Write
<1>2. SubSeq(out, 1, n) \in Seq(Byte) /\ out' \in Seq(Byte)
  BY <1>1, Cut DEF Write, Drop
<1>3. Peer
  BY <1>2 DEF Peer, Write
<1>4. IInv'
  BY <1>3, StepIInv DEF CInv
<1> QED
  BY <1>2, <1>4 DEF CInv, IInv, WTypeOK, WriteInv, Write

LEMMA StepCInv == CInv /\ [CNext]_cvars => CInv'
<1> SUFFICES ASSUME CInv, [CNext]_cvars PROVE CInv'
  OBVIOUS
<1>1. CASE Reader /\ UNCHANGED wvars
  <2>1. IInv'
    BY <1>1, StepIInv DEF CInv
  <2> QED
    BY <1>1, <2>1 DEF CInv, IInv, WTypeOK, WriteInv, wvars
<1>2. CASE (Begin \/ Sending \/ StartAlarm \/ WriteFails) /\ UNCHANGED vars
  <2>1. IInv'
    BY <1>2, StepIInv DEF CInv
  <2>2. WTypeOK' /\ WriteInv'
    BY <1>2, BeginKeeps, FrameKeeps, BuffKeeps, OtherWritesKeep DEF Sending
  <2> QED
    BY <2>1, <2>2 DEF CInv
<1>3. CASE \E n \in 1 .. Len(out) : Write(n)
  BY <1>3, WriteKeeps
<1>4. CASE UNCHANGED cvars
  <2>1. UNCHANGED vars /\ UNCHANGED wvars
    BY <1>4 DEF cvars
  <2>2. IInv'
    BY <2>1, StepIInv DEF CInv
  <2> QED
    BY <2>1, <2>2 DEF CInv, IInv, WTypeOK, WriteInv, wvars
<1> QED
  BY <1>1, <1>2, <1>3, <1>4 DEF CNext

\* The inductive invariant of the channel.
THEOREM Inductive == Spec => []CInv
<1> QED
  BY InitCInv, StepCInv, PTL DEF Spec

\* The types of both sides.
THEOREM TypeCorrect == Spec => []WTypeOK
<1>1. CInv => WTypeOK
  BY DEF CInv
<1> QED
  BY <1>1, Inductive, PTL

\* The reader stays within its buffer (net_serv.cc:558, 661).
THEOREM BufferSafe == Spec => []BufferBound
<1>1. CInv => BufferBound
  BY DEF CInv, IInv
<1> QED
  BY <1>1, Inductive, PTL

\* The limit on a packet bounds the buffer (net_serv.cc:133).
THEOREM MemoryBounded == Spec => []MemoryBound
<1>1. CInv => MemoryBound
  BY DEF CInv, IInv
<1> QED
  BY <1>1, Inductive, PTL

-----------------------------------------------------------------------------
(***************************************************************************)
(* The bytes between the client and the reader.  A packet is written as a  *)
(* row of frames, all but the last of them full; what the reader has not   *)
(* read yet is a stretch of the frames of the packets sent, and both sides *)
(* know where in them they are.                                            *)
(***************************************************************************)

\* The bytes of a packet in the frames before frame j, and the bytes in frame j of a
\* packet of n bytes.
Before(j)      == j * MAX_PACKET_LENGTH
FrameLen(n, j) == Least(n - Before(j), MAX_PACKET_LENGTH)

FrameOf(p, j) == Header(FrameLen(Len(p), j), j)
                 \o SubSeq(p, Before(j) + 1, Before(j) + FrameLen(Len(p), j))

\* Where frame j begins in the bytes of its packet, and how many bytes these are.
FrameAt(j) == Before(j) + NET_HEADER_SIZE * j
Size(p)    == Len(p) + NET_HEADER_SIZE * ((Len(p) \div MAX_PACKET_LENGTH) + 1)

\* at says where the packets s begin in the bytes written on the connection.
LayoutOf(at, s) ==
  /\ at \in [1 .. Len(s) + 1 -> Nat]
  /\ \A i \in 1 .. Len(s) : at[i + 1] = at[i] + Size(s[i])
  /\ \A i, k \in 1 .. Len(s) + 1 : i <= k => at[i] <= at[k]

\* How many bytes are written before frame j of packet i.
Place(at, i, j) == at[i] + FrameAt(j)

\* The bytes u, the first of which is number r + 1 on the connection, are those of the
\* frames of the packets s that lie there.
CodedBy(at, s, r, u) ==
  \A i \in 1 .. Len(s), j \in Nat : Before(j) <= Len(s[i]) =>
    \A x \in 1 .. Len(FrameOf(s[i], j)) :
      Place(at, i, j) + x - r \in 1 .. Len(u) =>
        u[Place(at, i, j) + x - r] = FrameOf(s[i], j)[x]

-----------------------------------------------------------------------------
(* Frames.                                                                 *)

LEMMA MaxFrameLarge == MAX_PACKET_LENGTH \in Nat /\ MAX_PACKET_LENGTH >= 7
<1>1. Base \in Nat /\ Base >= 2
  BY ReadAssumption
<1>2. Base * Base \in Nat /\ Base * Base >= 4
  <2>1. (Base - 2) * Base >= 0
    BY <1>1
  <2>2. (Base - 2) * Base = Base * Base - 2 * Base
    BY <1>1
  <2> QED
    BY <1>1, <2>1, <2>2
<1> DEFINE b == Base * Base
<1> HIDE DEF b
<1>3. b \in Nat /\ b >= 4
  BY <1>2 DEF b
<1>4. b * Base \in Nat /\ b * Base >= 8
  <2>1. b * (Base - 2) >= 0
    BY <1>1, <1>3
  <2>2. b * (Base - 2) = b * Base - 2 * b
    BY <1>1, <1>3
  <2> QED
    BY <1>1, <1>3, <2>1, <2>2
<1>5. MAX_PACKET_LENGTH = b * Base - 1
  BY DEF MAX_PACKET_LENGTH, b
<1> QED
  BY <1>4, <1>5

LEMMA BeforeNext ==
  ASSUME NEW j \in Nat
  PROVE  /\ Before(j) \in Nat /\ Before(0) = 0
         /\ Before(j + 1) = Before(j) + MAX_PACKET_LENGTH
<1>1. MAX_PACKET_LENGTH \in Nat
  BY MaxFrameLarge
<1>2. /\ j * MAX_PACKET_LENGTH \in Nat
      /\ (j + 1) * MAX_PACKET_LENGTH = j * MAX_PACKET_LENGTH + MAX_PACKET_LENGTH
      /\ 0 * MAX_PACKET_LENGTH = 0
  BY <1>1
<1> QED
  BY <1>2 DEF Before

\* Frames do not overlap.
LEMMA BeforeApart ==
  ASSUME NEW j \in Nat, NEW k \in Nat, j < k
  PROVE  Before(j) + MAX_PACKET_LENGTH <= Before(k)
<1> DEFINE M == MAX_PACKET_LENGTH
           d == k - j - 1
<1>1. M \in Nat /\ d \in Nat /\ k = j + 1 + d
  BY MaxFrameLarge
<1> HIDE DEF M, d
<1>2. d * M \in Nat /\ j * M \in Nat
  BY <1>1
<1>3. (j + 1 + d) * M = j * M + M + d * M
  BY <1>1
<1> QED
  BY <1>1, <1>2, <1>3 DEF Before, M

LEMMA FrameLenBounds ==
  ASSUME NEW n \in Nat, NEW j \in Nat, Before(j) <= n
  PROVE  /\ FrameLen(n, j) \in Nat /\ FrameLen(n, j) <= MAX_PACKET_LENGTH
         /\ Before(j) + FrameLen(n, j) <= n
         /\ FrameLen(n, j) < MAX_PACKET_LENGTH => Before(j) + FrameLen(n, j) = n
         /\ FrameLen(n, j) < MAX_PACKET_LENGTH <=> n < Before(j) + MAX_PACKET_LENGTH
BY MaxFrameLarge, BeforeNext DEF FrameLen, Least

LEMMA HeaderParts ==
  ASSUME NEW len \in Nat, NEW k \in Nat
  PROVE  /\ Header(len, k) \in Seq(Byte) /\ Len(Header(len, k)) = NET_HEADER_SIZE
         /\ Header(len, k)[4] = k % Base
BY HeaderBytes DEF Header, NET_HEADER_SIZE

\* n elements of a sequence, behind the first m.
LEMMA Slice ==
  ASSUME NEW s \in Seq(Byte), NEW m \in Nat, NEW n \in Nat, m + n <= Len(s)
  PROVE  /\ SubSeq(s, m + 1, m + n) \in Seq(Byte) /\ Len(SubSeq(s, m + 1, m + n)) = n
         /\ \A y \in 1 .. n : SubSeq(s, m + 1, m + n)[y] = s[m + y]
<1>1. Len(s) \in Nat
  BY LenProperties
<1>2. m + 1 \in Int /\ m + n \in Int /\ \A i \in m + 1 .. m + n : s[i] \in Byte
  BY <1>1, ElementOfSeq
<1>3. /\ SubSeq(s, m + 1, m + n) \in Seq(Byte)
      /\ Len(SubSeq(s, m + 1, m + n)) = IF m + 1 <= m + n THEN (m + n) - (m + 1) + 1 ELSE 0
      /\ \A y \in 1 .. (m + n) - (m + 1) + 1 : SubSeq(s, m + 1, m + n)[y] = s[(m + 1) + y - 1]
  BY <1>2, SubSeqProperties
<1>4. \A y \in 1 .. n : y \in 1 .. (m + n) - (m + 1) + 1 /\ (m + 1) + y - 1 = m + y
  OBVIOUS
<1> QED
  BY <1>3, <1>4

\* A frame is its header and its part of the packet.
LEMMA FrameParts ==
  ASSUME NEW p \in Seq(Byte), NEW j \in Nat, Before(j) <= Len(p)
  PROVE  /\ FrameOf(p, j) \in Seq(Byte)
         /\ Len(FrameOf(p, j)) = NET_HEADER_SIZE + FrameLen(Len(p), j)
         /\ \A x \in 1 .. NET_HEADER_SIZE :
              FrameOf(p, j)[x] = Header(FrameLen(Len(p), j), j)[x]
         /\ \A x \in 1 .. FrameLen(Len(p), j) :
              FrameOf(p, j)[NET_HEADER_SIZE + x] = p[Before(j) + x]
<1> DEFINE n == FrameLen(Len(p), j)
           h == Header(n, j)
           b == Before(j)
           s == SubSeq(p, b + 1, b + n)
<1>1. Len(p) \in Nat
  BY LenProperties
<1>2. n \in Nat /\ b + n <= Len(p) /\ b \in Nat
  BY <1>1, FrameLenBounds, BeforeNext
<1>3. FrameOf(p, j) = h \o s
  BY DEF FrameOf
<1> HIDE DEF n, b
<1>4. h \in Seq(Byte) /\ Len(h) = 4
  BY <1>2, HeaderParts DEF NET_HEADER_SIZE
<1>5. s \in Seq(Byte) /\ Len(s) = n /\ \A x \in 1 .. n : s[x] = p[b + x]
  BY <1>2, Slice
<1> HIDE DEF h, s
<1>6. /\ h \o s \in Seq(Byte) /\ Len(h \o s) = 4 + n
      /\ \A x \in 1 .. 4 + n : (h \o s)[x] = IF x <= 4 THEN h[x] ELSE s[x - 4]
  <2>1. /\ h \o s \in Seq(Byte) /\ Len(h \o s) = Len(h) + Len(s)
        /\ \A x \in 1 .. Len(h) + Len(s) :
             (h \o s)[x] = IF x <= Len(h) THEN h[x] ELSE s[x - Len(h)]
    BY <1>4, <1>5, ConcatProperties
  <2> QED
    BY <1>4, <1>5, <2>1
<1>7. \A x \in 1 .. 4 : (h \o s)[x] = h[x]
  BY <1>2, <1>6
<1>8. \A x \in 1 .. n : (h \o s)[4 + x] = p[b + x]
  BY <1>2, <1>5, <1>6, SMTT(40)
<1> QED
  BY <1>3, <1>6, <1>7, <1>8 DEF NET_HEADER_SIZE, n, h, b

\* The last frame of a packet is the first that is not full.
LEMMA SizeAtLast ==
  ASSUME NEW p \in Seq(Byte), NEW j \in Nat, Before(j) <= Len(p),
         Len(p) < Before(j) + MAX_PACKET_LENGTH
  PROVE  Size(p) = Len(p) + NET_HEADER_SIZE * (j + 1)
<1> DEFINE M == MAX_PACKET_LENGTH
           n == Len(p)
           q == n \div M
<1>1. M \in Nat /\ M > 0 /\ n \in Nat
  BY MaxFrameLarge, LenProperties
<1>2. Before(j) <= n /\ n < Before(j) + M
  OBVIOUS
<1>3. Size(p) = n + NET_HEADER_SIZE * (q + 1)
  BY DEF Size
<1> HIDE DEF M, n
<1>4. q \in Nat /\ q * M <= n /\ n < q * M + M
  BY <1>1
<1> HIDE DEF q
<1>5. Before(q) <= n /\ n < Before(q) + M
  BY <1>4 DEF Before, M
<1>6. ~(j < q) /\ ~(q < j)
  <2>1. j < q => Before(j) + M <= Before(q)
    BY <1>4, BeforeApart DEF M
  <2>2. q < j => Before(q) + M <= Before(j)
    BY <1>4, BeforeApart DEF M
  <2>3. Before(j) \in Nat /\ Before(q) \in Nat
    BY <1>4, BeforeNext
  <2> QED
    BY <1>1, <1>2, <1>5, <2>1, <2>2, <2>3
<1>7. q = j
  BY <1>4, <1>6
<1> QED
  BY <1>3, <1>7 DEF n

\* Every frame lies within its packet.
LEMMA FrameInside ==
  ASSUME NEW p \in Seq(Byte), NEW j \in Nat, Before(j) <= Len(p)
  PROVE  /\ Size(p) \in Nat /\ FrameAt(j) \in Nat
         /\ FrameAt(j) + Len(FrameOf(p, j)) <= Size(p)
<1> DEFINE M == MAX_PACKET_LENGTH
           n == Len(p)
           q == n \div M
<1>1. M \in Nat /\ M > 0 /\ n \in Nat
  BY MaxFrameLarge, LenProperties
<1>2. Size(p) = n + 4 * (q + 1)
  BY DEF Size, NET_HEADER_SIZE
<1>3. Before(j) <= n
  OBVIOUS
<1> HIDE DEF M, n
<1>4. q \in Nat /\ q * M <= n /\ n < q * M + M
  BY <1>1
<1> HIDE DEF q
<1>5. n < Before(q) + M
  BY <1>4 DEF Before, M
<1>6. ~(q < j)
  <2>1. q < j => Before(q) + M <= Before(j)
    BY <1>4, BeforeApart DEF M
  <2>2. Before(j) \in Nat /\ Before(q) \in Nat
    BY <1>4, BeforeNext
  <2> QED
    BY <1>1, <1>3, <1>5, <2>1, <2>2
<1>7. /\ Len(FrameOf(p, j)) = 4 + FrameLen(n, j) /\ FrameLen(n, j) \in Nat
      /\ Before(j) + FrameLen(n, j) <= n
  BY <1>1, <1>3, FrameParts, FrameLenBounds DEF n, NET_HEADER_SIZE
<1>8. FrameAt(j) = Before(j) + 4 * j /\ Before(j) \in Nat
  BY BeforeNext DEF FrameAt, NET_HEADER_SIZE
<1> QED
  BY <1>1, <1>2, <1>4, <1>6, <1>7, <1>8

\* A quotient and a rest are the only ones.
LEMMA Quotient ==
  ASSUME NEW n \in Nat \ {0}, NEW q \in Nat, NEW r \in 0 .. n - 1
  PROVE  (n * q + r) \div n = q
<1> DEFINE x == n * q + r
           k == x \div n
           y == x % n
<1>1. x \in Nat /\ k \in Nat /\ y \in 0 .. n - 1
  OBVIOUS
<1>2. x = n * k + y
  OBVIOUS
<1>3. n * (q - k) = y - r /\ n * (k - q) = r - y
  <2>1. n * (q - k) = n * q - n * k /\ n * (k - q) = n * k - n * q
    BY <1>1
  <2> DEFINE v == n * q
             w == n * k
  <2>2. v \in Nat /\ w \in Nat /\ v + r = w + y
    BY <1>1, <1>2
  <2> HIDE DEF v, w, k, y, x
  <2>3. v - w = y - r /\ w - v = r - y
    BY <1>1, <2>2
  <2> QED
    BY <2>1, <2>3 DEF v, w
<1>4. \A d \in Int : d >= 1 => n * d >= n
  <2> SUFFICES ASSUME NEW d \in Int, d >= 1 PROVE n * d >= n
    OBVIOUS
  <2>1. n * (d - 1) >= 0
    OBVIOUS
  <2>2. n * d = n * (d - 1) + n
    OBVIOUS
  <2> QED
    BY <2>1, <2>2
<1>5. ~(q - k >= 1) /\ ~(k - q >= 1)
  <2> HIDE DEF k, y
  <2> QED
    BY <1>1, <1>3, <1>4
<1> QED
  BY <1>1, <1>5

\* uint3korr reads the length that int3store wrote.
LEMMA HeaderRead ==
  ASSUME NEW len \in 0 .. MAX_PACKET_LENGTH, NEW k \in Nat
  PROVE  HeaderLength(Header(len, k)) = len
<1> DEFINE B == Base
           q == len \div B
           r == len % B
           q2 == q \div B
           r2 == q % B
<1>1. B \in Nat \ {0} /\ len \in Nat
  BY ReadAssumption, MaxFrameLarge
<1>2. q \in Nat /\ r \in 0 .. B - 1 /\ len = B * q + r
  BY <1>1
<1>3. q2 \in Nat /\ r2 \in 0 .. B - 1 /\ q = B * q2 + r2
  <2> HIDE DEF q
  <2> QED
    BY <1>1, <1>2
<1>4. MAX_PACKET_LENGTH = (B * B) * B - 1
  BY DEF MAX_PACKET_LENGTH
<1>5. HeaderLength(Header(len, k)) = r + B * r2 + (B * B) * ((len \div (B * B)) % B)
  BY DEF HeaderLength, Header
<1> HIDE DEF B, q, r, q2, r2
<1>6. B * q = (B * B) * q2 + B * r2
  BY <1>1, <1>3
<1>7. B * r2 + r \in 0 .. (B * B) - 1
  <2>1. B * (B - 1 - r2) \in Nat /\ B * r2 \in Nat /\ B * B \in Nat
    BY <1>1, <1>3
  <2>2. B * (B - 1 - r2) = B * B - B - B * r2
    BY <1>1, <1>3
  <2> DEFINE u == B * B
             v == B * r2
  <2>3. u \in Nat /\ v \in Nat /\ u - B - v >= 0
    BY <2>1, <2>2
  <2> HIDE DEF u, v
  <2>4. v + r \in 0 .. u - 1
    BY <1>1, <1>2, <2>3
  <2> QED
    BY <2>4 DEF u, v
<1>8. len = (B * B) * q2 + (B * r2 + r)
  BY <1>1, <1>2, <1>3, <1>6
<1>9. len \div (B * B) = q2
  <2> DEFINE b == B * B
             z == B * r2 + r
  <2>1. b \in Nat \ {0} /\ z \in 0 .. b - 1 /\ len = b * q2 + z
    BY <1>1, <1>7, <1>8
  <2> HIDE DEF b, z
  <2>2. (b * q2 + z) \div b = q2
    BY <1>3, <2>1, Quotient
  <2> QED
    BY <2>1, <2>2 DEF b
<1>10. q2 < B
  <2> DEFINE b == B * B
             z == B * r2 + r
  <2>1. b \in Nat \ {0} /\ z \in Nat /\ len = b * q2 + z /\ len <= b * B - 1
    BY <1>1, <1>4, <1>7, <1>8
  <2> HIDE DEF b, z
  <2>2. CASE q2 >= B
    <3>1. b * (q2 - B) >= 0
      BY <1>1, <1>3, <2>1, <2>2
    <3>2. b * (q2 - B) = b * q2 - b * B
      BY <1>1, <1>3, <2>1
    <3> DEFINE u == b * q2
               v == b * B
    <3>3. u \in Nat /\ v \in Nat /\ u - v >= 0 /\ u + z <= v - 1
      BY <1>1, <1>3, <2>1, <3>1, <3>2
    <3> HIDE DEF u, v
    <3> QED
      BY <2>1, <3>3
  <2> QED
    BY <1>1, <1>3, <2>2
<1>11. q2 % B = q2
  BY <1>1, <1>3, <1>10
<1>12. HeaderLength(Header(len, k)) = r + B * r2 + (B * B) * q2
  BY <1>5, <1>9, <1>11
<1>13. B * r2 \in Nat /\ (B * B) * q2 \in Nat
  BY <1>1, <1>3
<1> QED
  BY <1>2, <1>8, <1>12, <1>13

-----------------------------------------------------------------------------
(* Bytes on the connection.                                                *)

PacketSeq == Seq(Seq(Byte))

LEMMA SentPacket ==
  ASSUME NEW s \in PacketSeq, NEW i \in 1 .. Len(s)
  PROVE  s[i] \in Seq(Byte) /\ Len(s[i]) \in Nat /\ Len(s) \in Nat
BY ElementOfSeq, LenProperties DEF PacketSeq

\* A packet more, nothing of which is written yet.
Extended(at, s, p) ==
  [i \in 1 .. Len(s) + 2 |-> IF i <= Len(s) + 1 THEN at[i] ELSE at[Len(s) + 1] + Size(p)]

LEMMA LayoutExtended ==
  ASSUME NEW s \in PacketSeq, NEW p \in Seq(Byte), NEW at, LayoutOf(at, s)
  PROVE  /\ LayoutOf(Extended(at, s, p), Append(s, p))
         /\ \A i \in 1 .. Len(s) + 1 : Extended(at, s, p)[i] = at[i]
         /\ Extended(at, s, p)[Len(s) + 2] = at[Len(s) + 1] + Size(p)
<1> DEFINE a == Extended(at, s, p)
           t == Append(s, p)
           n == Len(s)
<1>1. /\ t \in PacketSeq /\ Len(t) = n + 1 /\ n \in Nat
      /\ \A i \in 1 .. n : t[i] = s[i]
      /\ t[n + 1] = p
  BY AppendProperties, LenProperties DEF PacketSeq
<1>2. Size(p) \in Nat
  <2>1. Before(0) <= Len(p)
    BY BeforeNext, LenProperties
  <2> QED
    BY <2>1, FrameInside
<1>3. /\ at \in [1 .. n + 1 -> Nat]
      /\ \A i \in 1 .. n : at[i + 1] = at[i] + Size(s[i])
      /\ \A i, k \in 1 .. n + 1 : i <= k => at[i] <= at[k]
  BY DEF LayoutOf
<1>4. a = [i \in 1 .. n + 2 |-> IF i <= n + 1 THEN at[i] ELSE at[n + 1] + Size(p)]
  BY DEF Extended
<1> HIDE DEF a, t, n
<1>5. \A i \in 1 .. n + 1 : a[i] = at[i]
  BY <1>1, <1>4
<1>6. a[n + 2] = at[n + 1] + Size(p)
  BY <1>1, <1>4
<1>7. at[n + 1] \in Nat
  BY <1>1, <1>3
<1>8. a \in [1 .. Len(t) + 1 -> Nat]
  BY <1>1, <1>2, <1>3, <1>4, <1>7
<1>9. \A i \in 1 .. Len(t) : a[i + 1] = a[i] + Size(t[i])
  <2> TAKE i \in 1 .. Len(t)
  <2>1. CASE i \in 1 .. n
    BY <1>1, <1>3, <1>5, <2>1
  <2>2. CASE i = n + 1
    BY <1>1, <1>5, <1>6, <2>2
  <2> QED
    BY <1>1, <2>1, <2>2
<1>10. \A i, k \in 1 .. Len(t) + 1 : i <= k => a[i] <= a[k]
  <2> SUFFICES ASSUME NEW i \in 1 .. Len(t) + 1, NEW k \in 1 .. Len(t) + 1, i <= k
               PROVE  a[i] <= a[k]
    OBVIOUS
  <2>1. CASE k \in 1 .. n + 1
    <3>1. i \in 1 .. n + 1
      BY <1>1, <2>1
    <3> QED
      BY <1>3, <1>5, <2>1, <3>1
  <2>2. CASE k = n + 2 /\ i \in 1 .. n + 1
    <3>1. at[i] <= at[n + 1] /\ at[i] \in Nat
      BY <1>1, <1>3, <2>2
    <3> QED
      BY <1>2, <1>5, <1>6, <1>7, <2>2, <3>1
  <2>3. CASE k = n + 2 /\ i = n + 2
    BY <1>2, <1>6, <1>7, <2>3
  <2> QED
    BY <1>1, <2>1, <2>2, <2>3
<1> QED
  BY <1>5, <1>6, <1>8, <1>9, <1>10 DEF LayoutOf, a, t, n

LEMMA CodedExtended ==
  ASSUME NEW s \in PacketSeq, NEW p \in Seq(Byte), NEW at, LayoutOf(at, s),
         NEW r \in Nat, NEW u \in Seq(Byte), CodedBy(at, s, r, u),
         r + Len(u) = at[Len(s) + 1]
  PROVE  CodedBy(Extended(at, s, p), Append(s, p), r, u)
<1> DEFINE a == Extended(at, s, p)
           t == Append(s, p)
           n == Len(s)
<1>1. /\ Len(t) = n + 1 /\ n \in Nat
      /\ \A i \in 1 .. n : t[i] = s[i]
      /\ t[n + 1] = p
  BY AppendProperties, LenProperties DEF PacketSeq
<1>2. \A i \in 1 .. n + 1 : a[i] = at[i]
  BY LayoutExtended
<1>3. r + Len(u) = at[n + 1] /\ Len(u) \in Nat /\ at[n + 1] \in Nat
  BY <1>1, LenProperties DEF LayoutOf
<1> HIDE DEF a, t, n
<1> SUFFICES ASSUME NEW i \in 1 .. Len(t), NEW j \in Nat, Before(j) <= Len(t[i]),
                    NEW x \in 1 .. Len(FrameOf(t[i], j)),
                    Place(a, i, j) + x - r \in 1 .. Len(u)
             PROVE  u[Place(a, i, j) + x - r] = FrameOf(t[i], j)[x]
  BY DEF CodedBy, a, t
<1>4. CASE i \in 1 .. n
  <2>1. t[i] = s[i] /\ Place(a, i, j) = Place(at, i, j) /\ i \in 1 .. Len(s)
    BY <1>1, <1>2, <1>4 DEF n, Place
  <2>2. /\ Before(j) <= Len(s[i]) /\ x \in 1 .. Len(FrameOf(s[i], j))
        /\ Place(at, i, j) + x - r \in 1 .. Len(u)
    BY <2>1
  <2>3. u[Place(at, i, j) + x - r] = FrameOf(s[i], j)[x]
    BY <2>1, <2>2 DEF CodedBy
  <2> QED
    BY <2>1, <2>3
<1>5. CASE i = n + 1
  <2>1. t[i] = p /\ a[i] = at[n + 1]
    BY <1>1, <1>2, <1>5
  <2>2. FrameAt(j) \in Nat
    BY <2>1, FrameInside
  <2>3. Len(FrameOf(p, j)) \in Nat
    BY <2>1, FrameParts, LenProperties
  <2>4. Place(a, i, j) = at[n + 1] + FrameAt(j)
    BY <2>1 DEF Place
  <2> QED
    BY <1>3, <2>1, <2>2, <2>3, <2>4, SMTT(40)
<1> QED
  BY <1>1, <1>4, <1>5

\* Where the frames and packets lie is told by numbers.
LEMMA Places ==
  ASSUME NEW s \in PacketSeq, NEW at, LayoutOf(at, s),
         NEW i \in 1 .. Len(s), NEW j \in Nat, Before(j) <= Len(s[i])
  PROVE  /\ at[i] \in Nat /\ FrameAt(j) \in Nat /\ Len(FrameOf(s[i], j)) \in Nat
         /\ Place(at, i, j) \in Nat /\ at[i] <= Place(at, i, j)
         /\ Place(at, i, j) + Len(FrameOf(s[i], j)) <= at[i + 1]
         /\ at[i + 1] \in Nat
<1>1. s[i] \in Seq(Byte) /\ Len(s) \in Nat
  BY SentPacket
<1>2. /\ Size(s[i]) \in Nat /\ FrameAt(j) \in Nat
      /\ FrameAt(j) + Len(FrameOf(s[i], j)) <= Size(s[i])
  BY <1>1, FrameInside
<1>3. FrameOf(s[i], j) \in Seq(Byte)
  BY <1>1, FrameParts
<1>4. Len(FrameOf(s[i], j)) \in Nat
  BY <1>3, LenProperties
<1>5. at[i] \in Nat /\ at[i + 1] \in Nat /\ at[i + 1] = at[i] + Size(s[i])
  <2>1. i \in 1 .. Len(s) + 1 /\ i + 1 \in 1 .. Len(s) + 1
    BY <1>1
  <2> QED
    BY <2>1 DEF LayoutOf
<1> DEFINE a == at[i]
           b == at[i + 1]
           d == FrameAt(j)
           l == Len(FrameOf(s[i], j))
           z == Size(s[i])
<1>6. Place(at, i, j) = a + d
  BY DEF Place
<1>7. a \in Nat /\ b \in Nat /\ b = a + z /\ z \in Nat /\ d \in Nat /\ l \in Nat /\ d + l <= z
  BY <1>2, <1>4, <1>5
<1> HIDE DEF a, b, d, l, z
<1>8. a + d \in Nat /\ a <= a + d /\ a + d + l <= b
  BY <1>7
<1> QED
  BY <1>6, <1>7, <1>8 DEF a, b, d, l

\* The frames of a packet lie behind one another.
LEMMA FramesApart ==
  ASSUME NEW p \in Seq(Byte), NEW j \in Nat, NEW k \in Nat, j < k, Before(j) <= Len(p)
  PROVE  FrameAt(j) + Len(FrameOf(p, j)) <= FrameAt(k)
<1> DEFINE n == FrameLen(Len(p), j)
<1>1. n \in Nat /\ n <= MAX_PACKET_LENGTH
  BY FrameLenBounds, LenProperties
<1>2. Len(FrameOf(p, j)) = 4 + n
  BY FrameParts DEF NET_HEADER_SIZE
<1>3. Before(j) + MAX_PACKET_LENGTH <= Before(k) /\ Before(j) \in Nat /\ Before(k) \in Nat
  BY BeforeApart, BeforeNext
<1>4. MAX_PACKET_LENGTH \in Nat
  BY MaxFrameLarge
<1> HIDE DEF n
<1> QED
  BY <1>1, <1>2, <1>3, <1>4 DEF FrameAt, NET_HEADER_SIZE

\* The next frame of the last packet, behind what is written of it.
LEMMA CodedFrame ==
  ASSUME NEW s \in PacketSeq, NEW at, LayoutOf(at, s),
         NEW r \in Nat, NEW u \in Seq(Byte), CodedBy(at, s, r, u),
         NEW j \in Nat, NEW n \in 1 .. Len(s), n = Len(s), Before(j) <= Len(s[n]),
         r + Len(u) = Place(at, n, j)
  PROVE  CodedBy(at, s, r, u \o FrameOf(s[n], j))
<1> DEFINE f == FrameOf(s[n], j)
           v == u \o f
<1>1. s[n] \in Seq(Byte) /\ Len(s) \in Nat
  BY SentPacket
<1>2. at[n] \in Nat /\ at[n] <= Place(at, n, j) /\ Place(at, n, j) \in Nat /\ Len(u) \in Nat
  BY Places, LenProperties
<1>3. f \in Seq(Byte) /\ Len(f) \in Nat
  BY <1>1, FrameParts, LenProperties
<1>4. /\ Len(v) = Len(u) + Len(f)
      /\ \A y \in 1 .. Len(u) + Len(f) : v[y] = IF y <= Len(u) THEN u[y] ELSE f[y - Len(u)]
  BY <1>3, ConcatProperties
<1> HIDE DEF f, v
<1> SUFFICES ASSUME NEW i \in 1 .. Len(s), NEW k \in Nat, Before(k) <= Len(s[i]),
                    NEW x \in 1 .. Len(FrameOf(s[i], k)),
                    Place(at, i, k) + x - r \in 1 .. Len(v)
             PROVE  v[Place(at, i, k) + x - r] = FrameOf(s[i], k)[x]
  BY DEF CodedBy, v, f
<1> DEFINE g == Len(FrameOf(s[i], k))
           w == Place(at, i, k)
           c == Place(at, n, j)
           y == w + x - r
<1>5. /\ w \in Nat /\ g \in Nat /\ w + g <= at[i + 1] /\ at[i + 1] \in Nat
      /\ x \in 1 .. g
  BY Places
<1>6. y \in 1 .. Len(u) + Len(f)
  BY <1>4
<1>7. y \in 1 .. Len(u) => u[y] = FrameOf(s[i], k)[x]
  BY DEF CodedBy
<1>8. i < n => at[i + 1] <= at[n]
  <2> SUFFICES ASSUME i < n PROVE at[i + 1] <= at[n]
    OBVIOUS
  <2>1. i + 1 \in 1 .. Len(s) + 1 /\ n \in 1 .. Len(s) + 1 /\ i + 1 <= n
    BY <1>1
  <2> QED
    BY <2>1 DEF LayoutOf
<1>9. k < j /\ i = n => w + g <= c
  <2> SUFFICES ASSUME k < j, i = n PROVE w + g <= c
    OBVIOUS
  <2>1. FrameAt(k) + g <= FrameAt(j)
    BY <1>1, FramesApart
  <2>2. FrameAt(k) \in Nat /\ FrameAt(j) \in Nat /\ w = at[n] + FrameAt(k) /\ c = at[n] + FrameAt(j)
    BY Places DEF Place
  <2> DEFINE a == at[n]
             d == FrameAt(j)
             e == FrameAt(k)
  <2>3. a \in Nat /\ d \in Nat /\ e \in Nat /\ w = a + e /\ c = a + d
    BY <1>2, <2>2
  <2>4. e + g <= d
    BY <2>1
  <2> HIDE DEF g, w, c, a, d, e
  <2> QED
    BY <1>5, <2>3, <2>4
<1>10. j < k /\ i = n => c + Len(f) <= w
  <2> SUFFICES ASSUME j < k, i = n PROVE c + Len(f) <= w
    OBVIOUS
  <2>1. FrameAt(j) + Len(f) <= FrameAt(k)
    BY <1>1, FramesApart DEF f
  <2>2. FrameAt(k) \in Nat /\ FrameAt(j) \in Nat /\ w = at[n] + FrameAt(k) /\ c = at[n] + FrameAt(j)
    BY Places DEF Place
  <2> DEFINE a == at[n]
             d == FrameAt(j)
             e == FrameAt(k)
  <2>3. a \in Nat /\ d \in Nat /\ e \in Nat /\ w = a + e /\ c = a + d
    BY <1>2, <2>2
  <2>4. d + Len(f) <= e
    BY <2>1
  <2> HIDE DEF g, w, c, a, d, e
  <2> QED
    BY <1>3, <2>3, <2>4
<1>11. k = j /\ i = n => w = c
  OBVIOUS
<1>12. i \in 1 .. n /\ c \in Nat /\ at[n] <= c /\ r + Len(u) = c
  BY <1>2
<1> DEFINE a == at[i + 1]
           b == at[n]
<1>13. a \in Nat /\ b \in Nat /\ w + g <= a /\ b <= c /\ (i < n => a <= b)
  BY <1>2, <1>5, <1>8
<1> HIDE DEF g, w, c, a, b
<1>14. CASE y <= Len(u)
  <2>1. y \in 1 .. Len(u)
    BY <1>2, <1>3, <1>6, <1>14
  <2>2. v[y] = u[y]
    BY <1>4, <1>6, <1>14
  <2> QED
    BY <1>7, <2>1, <2>2 DEF w
<1>15. CASE ~(y <= Len(u))
  <2>1. w + x > c /\ w + x <= c + Len(f)
    BY <1>2, <1>3, <1>5, <1>6, <1>12, <1>15, SMTT(40)
  <2>2. i = n
    BY <1>5, <1>12, <1>13, <2>1, SMTT(40)
  <2>3. k = j
    BY <1>3, <1>5, <1>9, <1>10, <1>12, <2>1, <2>2, SMTT(40)
  <2>4. w = r + Len(u) /\ x \in Int /\ Len(u) \in Nat
    BY <1>2, <1>5, <1>11, <1>12, <2>2, <2>3
  <2>5. y - Len(u) = x
    BY <2>4
  <2>6. v[y] = f[x]
    BY <1>4, <1>6, <1>15, <2>5
  <2> QED
    BY <2>2, <2>3, <2>6 DEF f, w
<1> QED
  BY <1>14, <1>15

\* The bytes v are u without its first n.
Behind(v, u, n) == Len(v) = Len(u) - n /\ \A y \in 1 .. Len(v) : v[y] = u[y + n]

\* What is left when the first n bytes have been read.
LEMMA CodedRest ==
  ASSUME NEW s \in PacketSeq, NEW at, LayoutOf(at, s),
         NEW r \in Nat, NEW u \in Seq(Byte), CodedBy(at, s, r, u),
         NEW n \in 0 .. Len(u), NEW v \in Seq(Byte), Behind(v, u, n)
  PROVE  CodedBy(at, s, r + n, v)
<1>1. Len(u) \in Nat /\ Len(v) \in Nat /\ n \in Nat /\ Len(v) = Len(u) - n
  BY LenProperties DEF Behind
<1> SUFFICES ASSUME NEW i \in 1 .. Len(s), NEW j \in Nat, Before(j) <= Len(s[i]),
                    NEW x \in 1 .. Len(FrameOf(s[i], j)),
                    Place(at, i, j) + x - (r + n) \in 1 .. Len(v)
             PROVE  v[Place(at, i, j) + x - (r + n)] = FrameOf(s[i], j)[x]
  BY DEF CodedBy
<1> DEFINE w == Place(at, i, j)
<1>2. w \in Nat /\ Len(FrameOf(s[i], j)) \in Nat
  BY Places
<1>3. w + x - r \in 1 .. Len(u) => u[w + x - r] = FrameOf(s[i], j)[x]
  BY DEF CodedBy
<1>4. w + x - (r + n) \in 1 .. Len(v)
  OBVIOUS
<1>5. x \in Int
  BY <1>2
<1> HIDE DEF w
<1>6. w + x - r \in 1 .. Len(u) /\ (w + x - (r + n)) + n = w + x - r
  BY <1>1, <1>2, <1>4, <1>5
<1>7. v[w + x - (r + n)] = u[w + x - r]
  BY <1>4, <1>6 DEF Behind
<1> QED
  BY <1>3, <1>6, <1>7 DEF w

\* What is left when the last bytes are thrown away.
LEMMA CodedStart ==
  ASSUME NEW s \in PacketSeq, NEW at, NEW r \in Nat, NEW u \in Seq(Byte),
         CodedBy(at, s, r, u), NEW v \in Seq(Byte), Len(v) <= Len(u),
         \A y \in 1 .. Len(v) : v[y] = u[y]
  PROVE  CodedBy(at, s, r, v)
<1>1. Len(u) \in Nat /\ Len(v) \in Nat
  BY LenProperties
<1>2. \A y \in 1 .. Len(v) : y \in 1 .. Len(u)
  BY <1>1
<1> QED
  BY <1>2 DEF CodedBy

-----------------------------------------------------------------------------
(* Where the client and the reader are in these bytes.                     *)

\* What the reader has not read yet: on the wire, in netRealWrite, in the client's
\* buffer or in the pieces of a frame.  A client that failed sends no more.
Piece(s, n) == IF n <= Len(s) THEN s[n] ELSE <<>>
Joined(s)   == Piece(s, 1) \o (Piece(s, 2) \o Piece(s, 3))  \* of three pieces at most
Unsent      == IF writer = "failed" THEN <<>> ELSE wbuf \o Joined(pieces)
Unread      == wire \o (out \o Unsent)

\* How many bytes the reader has read, and how many the client has written.
Pos(at)     == at[Len(got) + 1]
               + IF state = "command" THEN 0 ELSE NET_HEADER_SIZE * pkt_nr + Len(buff)
Written(at) == Pos(at) + Len(Unread)

WriterAt(at) ==
  /\ Len(pieces) <= 3 /\ head <= 2
  /\ writer = "idle" => pieces = <<>> /\ wbuf = <<>>
  /\ writer \in {"idle", "flush"} => Written(at) = at[Len(sent) + 1]
  /\ writer = "failed" => Written(at) <= at[Len(sent) + 1]
  /\ writer = "frame" => /\ Len(sent) > 0
                         /\ Before(nr) <= Len(sent[Len(sent)])
                         /\ rest = Drop(sent[Len(sent)], Before(nr))
                         /\ Written(at) = Place(at, Len(sent), nr)

StreamAt(at) == /\ LayoutOf(at, sent)
                /\ CodedBy(at, sent, Pos(at), Unread)
                /\ WriterAt(at)

InHeader(p) ==
  /\ where_b <= Len(p)
  /\ \A x \in 1 .. where_b : buff[x] = p[x]
  /\ \A x \in 1 .. Len(buff) - where_b : buff[where_b + x] = FrameOf(p, pkt_nr)[x]

InBody(p) ==
  /\ pkt_nr > 0 /\ where_b = Before(pkt_nr - 1) /\ where_b <= Len(p)
  /\ Len(buff) + remain = where_b + FrameLen(Len(p), pkt_nr - 1)
  /\ \A x \in 1 .. Len(buff) : buff[x] = p[x]

InPacket(p) == buff = p /\ NET_HEADER_SIZE * pkt_nr + Len(buff) = Size(p)

\* The reader is in the packet after those it has dispatched.
Incoming == sent[Len(got) + 1]

ReaderAt ==
  /\ state = "header" => /\ where_b = Before(pkt_nr) /\ where_b <= Len(buff)
                         /\ Len(got) < Len(sent) => InHeader(Incoming)
  /\ state = "body"   => Len(got) < Len(sent) /\ InBody(Incoming)
  /\ state = "packet" => Len(got) < Len(sent) /\ InPacket(Incoming)

GotInv == /\ Len(got) <= Len(sent)
          /\ \A i \in 1 .. Len(got) : got[i] = Seen(sent[i])

LargeInv == state = "large" => Len(got) < Len(sent) /\ Len(Incoming) >= max_packet_size

StreamInv == state \notin Closed => \E at : StreamAt(at) /\ ReaderAt

SInv == GotInv /\ LargeInv /\ InOrder /\ StreamInv

-----------------------------------------------------------------------------
LEMMA SentRow == CInv => sent \in PacketSeq /\ Len(sent) \in Nat /\ Len(got) \in Nat
BY LenProperties DEF CInv, WTypeOK, IInv, TypeOK, PacketSeq

LEMMA JoinedType ==
  ASSUME NEW s \in PacketSeq
  PROVE  /\ Piece(s, 1) \in Seq(Byte) /\ Piece(s, 2) \in Seq(Byte) /\ Piece(s, 3) \in Seq(Byte)
         /\ Joined(s) \in Seq(Byte)
<1>1. <<>> \in Seq(Byte)
  BY EmptySeq
<1>2. Len(s) \in Nat /\ \A i \in 1 .. Len(s) : s[i] \in Seq(Byte)
  BY ElementOfSeq, LenProperties DEF PacketSeq
<1>3. \A n \in {1, 2, 3} : Piece(s, n) \in Seq(Byte)
  BY <1>1, <1>2 DEF Piece
<1>4. Piece(s, 1) \in Seq(Byte) /\ Piece(s, 2) \in Seq(Byte) /\ Piece(s, 3) \in Seq(Byte)
  BY <1>3
<1> QED
  BY <1>4, ConcatProperties DEF Joined

LEMMA UnsentType == CInv => Unsent \in Seq(Byte) /\ out \o Unsent \in Seq(Byte)
<1> SUFFICES ASSUME CInv PROVE Unsent \in Seq(Byte) /\ out \o Unsent \in Seq(Byte)
  OBVIOUS
<1>1. /\ pieces \in PacketSeq /\ wbuf \in Seq(Byte) /\ out \in Seq(Byte)
      /\ <<>> \in Seq(Byte)
  BY EmptySeq DEF CInv, WTypeOK, PacketSeq
<1>2. Unsent \in Seq(Byte)
  BY <1>1, JoinedType, ConcatProperties DEF Unsent
<1> QED
  BY <1>1, <1>2, ConcatProperties

LEMMA UnreadType ==
  ASSUME CInv
  PROVE  /\ Unread \in Seq(Byte) /\ Len(Unread) \in Nat /\ Len(wire) \in Nat
         /\ Len(wire) <= Len(Unread)
         /\ \A y \in 1 .. Len(wire) : Unread[y] = wire[y]
<1> DEFINE R == out \o Unsent
<1>1. R \in Seq(Byte) /\ wire \in Seq(Byte) /\ Len(R) \in Nat /\ Len(wire) \in Nat
  BY UnsentType, LenProperties DEF CInv, IInv, TypeOK
<1>2. Unread = wire \o R
  BY DEF Unread
<1> HIDE DEF R
<1>3. /\ wire \o R \in Seq(Byte) /\ Len(wire \o R) = Len(wire) + Len(R)
      /\ \A y \in 1 .. Len(wire) + Len(R) :
           (wire \o R)[y] = IF y <= Len(wire) THEN wire[y] ELSE R[y - Len(wire)]
  BY <1>1, ConcatProperties
<1>4. \A y \in 1 .. Len(wire) : y \in 1 .. Len(wire) + Len(R) /\ y <= Len(wire)
  BY <1>1
<1> QED
  BY <1>1, <1>2, <1>3, <1>4

LEMMA PosNat ==
  ASSUME CInv, GotInv, NEW at, LayoutOf(at, sent)
  PROVE  /\ at[Len(got) + 1] \in Nat /\ Pos(at) \in Nat /\ at[Len(got) + 1] <= Pos(at)
         /\ at[Len(sent) + 1] \in Nat /\ Written(at) \in Nat
<1>1. Len(got) + 1 \in 1 .. Len(sent) + 1 /\ Len(sent) + 1 \in 1 .. Len(sent) + 1
  BY SentRow DEF GotInv
<1>2. at[Len(got) + 1] \in Nat /\ at[Len(sent) + 1] \in Nat
  BY <1>1 DEF LayoutOf
<1>3. Len(buff) \in Nat /\ pkt_nr \in Nat
  BY LenProperties DEF CInv, IInv, TypeOK
<1>4. Len(Unread) \in Nat
  BY UnreadType
<1> DEFINE a == at[Len(got) + 1]
<1>5. a \in Nat /\ Pos(at) = a + IF state = "command" THEN 0 ELSE 4 * pkt_nr + Len(buff)
  BY <1>2 DEF Pos, NET_HEADER_SIZE
<1> HIDE DEF a
<1>6. Pos(at) \in Nat /\ a <= Pos(at)
  BY <1>3, <1>5
<1> QED
  BY <1>2, <1>4, <1>6 DEF a, Written

LEMMA WrittenBound ==
  ASSUME CInv, GotInv, NEW at, StreamAt(at)
  PROVE  Written(at) <= at[Len(sent) + 1]
<1>1. LayoutOf(at, sent) /\ WriterAt(at)
  BY DEF StreamAt
<1>2. Written(at) \in Nat /\ at[Len(sent) + 1] \in Nat
  BY <1>1, PosNat
<1>3. CASE writer \in {"idle", "flush", "failed"}
  BY <1>1, <1>2, <1>3 DEF WriterAt
<1>4. CASE writer = "frame"
  <2>1. Len(sent) > 0 /\ Before(nr) <= Len(sent[Len(sent)]) /\ Written(at) = Place(at, Len(sent), nr)
    BY <1>1, <1>4 DEF WriterAt
  <2>2. sent \in PacketSeq /\ Len(sent) \in 1 .. Len(sent) /\ nr \in Nat
    BY <2>1, SentRow DEF CInv, WTypeOK
  <2> DEFINE n == Len(sent)
  <2>3. /\ Place(at, n, nr) \in Nat /\ Len(FrameOf(sent[n], nr)) \in Nat
        /\ Place(at, n, nr) + Len(FrameOf(sent[n], nr)) <= at[n + 1]
    BY <1>1, <2>1, <2>2, Places
  <2> QED
    BY <1>2, <2>1, <2>3
<1> QED
  BY <1>3, <1>4 DEF CInv, WTypeOK

\* A reader in the bytes of a packet is in one that was sent.
LEMMA PacketKnown ==
  ASSUME CInv, GotInv, NEW at, StreamAt(at), Written(at) > at[Len(got) + 1]
  PROVE  Len(got) < Len(sent)
<1>1. Written(at) <= at[Len(sent) + 1]
  BY WrittenBound
<1>2. /\ Written(at) \in Nat /\ at[Len(sent) + 1] \in Nat
      /\ at[Len(got) + 1] \in Nat
  BY PosNat DEF StreamAt
<1>3. Len(got) # Len(sent)
  BY <1>1, <1>2
<1> QED
  BY <1>3, SentRow DEF GotInv

-----------------------------------------------------------------------------
(* The reader's steps.                                                     *)

\* Most of them read nothing.
LEMMA StreamKept ==
  ASSUME NEW at, StreamAt(at), UNCHANGED wvars, UNCHANGED wire, Pos(at)' = Pos(at)
  PROVE  StreamAt(at)'
<1>1. Unread' = Unread
  BY DEF Unread, Unsent, wvars
<1>2. sent' = sent
  BY DEF wvars
<1>3. Written(at)' = Written(at)
  BY <1>1 DEF Written
<1>4. CodedBy(at, sent, Pos(at), Unread)'
  BY <1>1, <1>2 DEF StreamAt
<1>5. WriterAt(at)'
  BY <1>3 DEF StreamAt, WriterAt, wvars
<1> QED
  BY <1>2, <1>4, <1>5 DEF StreamAt

LEMMA ReadStream ==
  ASSUME CInv, GotInv, NEW at, StreamAt(at), UNCHANGED wvars, NEW n, Read(n)
  PROVE  StreamAt(at)'
<1> DEFINE R == out \o Unsent
<1>1. n \in 0 .. Len(wire) /\ wire \in Seq(Byte) /\ Len(wire) \in Nat /\ n \in Nat
  BY LenProperties DEF Read, CInv, IInv, TypeOK
<1>2. /\ SubSeq(wire, 1, n) \in Seq(Byte) /\ Len(SubSeq(wire, 1, n)) = n
      /\ wire' \in Seq(Byte) /\ Len(wire') = Len(wire) - n
  BY <1>1, Cut DEF Read
<1>3. \A y \in 1 .. Len(wire) - n : wire'[y] = wire[y + n]
  <2>1. wire' = SubSeq(wire, n + 1, n + (Len(wire) - n))
    BY <1>1 DEF Read
  <2>2. Len(wire) - n \in Nat /\ n + (Len(wire) - n) <= Len(wire)
    BY <1>1
  <2>3. \A y \in 1 .. Len(wire) - n : wire'[y] = wire[n + y]
    BY <1>1, <2>1, <2>2, Slice
  <2> QED
    BY <1>1, <2>3
<1>4. Unsent' = Unsent /\ out' = out
  BY DEF Unsent, wvars
<1>5. R \in Seq(Byte) /\ Len(R) \in Nat
  BY UnsentType, LenProperties
<1>6. Unread = wire \o R /\ Unread' = wire' \o R
  BY <1>4 DEF Unread
<1> HIDE DEF R
<1>7. /\ Len(wire \o R) = Len(wire) + Len(R)
      /\ \A y \in 1 .. Len(wire) + Len(R) :
           (wire \o R)[y] = IF y <= Len(wire) THEN wire[y] ELSE R[y - Len(wire)]
  BY <1>1, <1>5, ConcatProperties
<1>8. /\ Len(wire' \o R) = Len(wire') + Len(R)
      /\ \A y \in 1 .. Len(wire') + Len(R) :
           (wire' \o R)[y] = IF y <= Len(wire') THEN wire'[y] ELSE R[y - Len(wire')]
  BY <1>2, <1>5, ConcatProperties
<1>9. Behind(Unread', Unread, n) /\ n \in 0 .. Len(Unread)
  <2>1. Len(wire' \o R) = Len(wire \o R) - n
    BY <1>1, <1>2, <1>5, <1>7, <1>8
  <2>2. \A y \in 1 .. Len(wire' \o R) : (wire' \o R)[y] = (wire \o R)[y + n]
    <3> TAKE y \in 1 .. Len(wire' \o R)
    <3>1. y \in 1 .. Len(wire') + Len(R) /\ y + n \in 1 .. Len(wire) + Len(R)
      BY <1>1, <1>2, <1>5, <1>8
    <3>2. CASE y <= Len(wire')
      <4>1. y \in 1 .. Len(wire) - n /\ y + n <= Len(wire)
        BY <1>1, <1>2, <3>1, <3>2
      <4> QED
        BY <1>3, <1>7, <1>8, <3>1, <3>2, <4>1
    <3>3. CASE ~(y <= Len(wire'))
      <4>1. ~(y + n <= Len(wire)) /\ y - Len(wire') = (y + n) - Len(wire)
        BY <1>1, <1>2, <3>1, <3>3
      <4>2. (wire' \o R)[y] = R[y - Len(wire')]
        BY <1>8, <3>1, <3>3
      <4>3. (wire \o R)[y + n] = R[(y + n) - Len(wire)]
        <5> DEFINE z == y + n
        <5>1. z \in 1 .. Len(wire) + Len(R) /\ ~(z <= Len(wire))
          BY <3>1, <4>1
        <5> HIDE DEF z
        <5>2. (wire \o R)[z] = R[z - Len(wire)]
          BY <1>7, <5>1
        <5> QED
          BY <5>2 DEF z
      <4> QED
        BY <4>1, <4>2, <4>3
    <3> QED
      BY <3>2, <3>3
  <2> QED
    BY <1>1, <1>5, <1>6, <1>7, <2>1, <2>2 DEF Behind
<1>10. sent' = sent /\ LayoutOf(at, sent) /\ CodedBy(at, sent, Pos(at), Unread)
  BY DEF wvars, StreamAt
<1>11. Pos(at)' = Pos(at) + n /\ Pos(at) \in Nat
  <2>1. Len(buff') = Len(buff) + n /\ Len(buff) \in Nat /\ pkt_nr \in Nat
    BY <1>1, <1>2, ConcatProperties, LenProperties DEF Read, CInv, IInv, TypeOK
  <2>2. pkt_nr' = pkt_nr /\ state' = state /\ state # "command" /\ got' = got
    BY DEF Read, Reading
  <2>3. Pos(at) \in Nat /\ at[Len(got) + 1] \in Nat
    BY <1>10, PosNat
  <2> DEFINE a == at[Len(got) + 1]
  <2>4. /\ Pos(at)' = a + (4 * pkt_nr + Len(buff')) /\ Pos(at) = a + (4 * pkt_nr + Len(buff))
        /\ a \in Nat
    BY <2>2, <2>3 DEF Pos, NET_HEADER_SIZE
  <2> HIDE DEF a
  <2> QED
    BY <1>1, <2>1, <2>3, <2>4
<1>12. CodedBy(at, sent, Pos(at) + n, Unread')
  <2>1. sent \in PacketSeq /\ Unread \in Seq(Byte) /\ Unread' \in Seq(Byte)
    BY <1>2, <1>5, <1>6, SentRow, UnreadType, ConcatProperties
  <2> QED
    BY <1>9, <1>10, <1>11, <2>1, CodedRest
<1>13. Written(at)' = Written(at)
  <2>1. Len(Unread') = Len(Unread) - n /\ Len(Unread) \in Nat
    BY <1>9, UnreadType DEF Behind
  <2> QED
    BY <1>1, <1>11, <2>1 DEF Written
<1>14. WriterAt(at)'
  BY <1>13 DEF StreamAt, WriterAt, wvars
<1> QED
  BY <1>10, <1>11, <1>12, <1>14 DEF StreamAt

\* The bytes on the wire are those of the frame that lies there.
LEMMA OnWire ==
  ASSUME CInv, GotInv, NEW at, StreamAt(at), Len(got) < Len(sent),
         NEW j \in Nat, Before(j) <= Len(Incoming),
         NEW x \in 1 .. Len(FrameOf(Incoming, j)), NEW y \in 1 .. Len(wire),
         Place(at, Len(got) + 1, j) + x = Pos(at) + y
  PROVE  wire[y] = FrameOf(Incoming, j)[x]
<1> DEFINE k == Len(got) + 1
           w == Place(at, k, j)
           l == Len(FrameOf(Incoming, j))
           r == Pos(at)
<1>1. k \in 1 .. Len(sent)
  BY SentRow
<1>2. Incoming = sent[k] /\ LayoutOf(at, sent) /\ sent \in PacketSeq
  BY SentRow DEF Incoming, StreamAt
<1>3. w \in Nat /\ l \in Nat
  BY <1>1, <1>2, Places
<1>4. r \in Nat
  BY <1>2, PosNat
<1>5. Len(wire) \in Nat /\ Len(Unread) \in Nat /\ Len(wire) <= Len(Unread) /\ Unread[y] = wire[y]
  BY UnreadType
<1>6. w + x - r \in 1 .. Len(Unread) => Unread[w + x - r] = FrameOf(Incoming, j)[x]
  BY <1>1, <1>2 DEF StreamAt, CodedBy
<1>7. w + x = r + y /\ x \in 1 .. l /\ y \in 1 .. Len(wire)
  OBVIOUS
<1> HIDE DEF k, w, l, r
<1>8. w + x - r = y /\ y \in 1 .. Len(Unread)
  BY <1>3, <1>4, <1>5, <1>7
<1> QED
  BY <1>5, <1>6, <1>8

LEMMA InPacketSent ==
  ASSUME CInv, Len(got) < Len(sent)
  PROVE  /\ Incoming \in Seq(Byte) /\ Len(Incoming) \in Nat
         /\ Len(got) + 1 \in 1 .. Len(sent) /\ Len(got) \in Nat
<1>1. Len(got) + 1 \in 1 .. Len(sent) /\ sent \in PacketSeq
  BY SentRow
<1> QED
  BY <1>1, SentPacket, SentRow DEF Incoming

\* What Read does to the buffer.
LEMMA ReadBuffer ==
  ASSUME CInv, NEW n, Read(n)
  PROVE  /\ n \in Nat /\ n > 0 /\ n <= remain /\ n <= Len(wire)
         /\ Len(wire) \in Nat /\ remain \in Nat /\ Len(buff) \in Nat
         /\ buff' \in Seq(Byte) /\ Len(buff') = Len(buff) + n
         /\ \A x \in 1 .. Len(buff) : buff'[x] = buff[x]
         /\ \A y \in 1 .. n : buff'[Len(buff) + y] = wire[y]
<1>1. /\ n \in 1 .. remain /\ n <= Len(wire) /\ remain \in Nat
      /\ wire \in Seq(Byte) /\ buff \in Seq(Byte) /\ Len(wire) \in Nat /\ Len(buff) \in Nat
  BY LenProperties DEF Read, CInv, IInv, TypeOK
<1> DEFINE s == SubSeq(wire, 1, n)
<1>2. s \in Seq(Byte) /\ Len(s) = n
  BY <1>1, Cut
<1>3. \A y \in 1 .. n : s[y] = wire[y]
  <2>1. s = SubSeq(wire, 0 + 1, 0 + n) /\ n \in Nat /\ 0 + n <= Len(wire)
    BY <1>1
  <2> HIDE DEF s
  <2>2. \A y \in 1 .. n : s[y] = wire[0 + y]
    BY <1>1, <2>1, Slice
  <2> QED
    BY <1>1, <2>2
<1>4. buff' = buff \o s
  BY DEF Read
<1> HIDE DEF s
<1>5. /\ buff' \in Seq(Byte) /\ Len(buff') = Len(buff) + Len(s)
      /\ \A x \in 1 .. Len(buff) + Len(s) :
           buff'[x] = IF x <= Len(buff) THEN buff[x] ELSE s[x - Len(buff)]
  BY <1>1, <1>2, <1>4, ConcatProperties
<1>6. \A x \in 1 .. Len(buff) : buff'[x] = buff[x]
  BY <1>1, <1>2, <1>5
<1>7. \A y \in 1 .. n : buff'[Len(buff) + y] = wire[y]
  <2> TAKE y \in 1 .. n
  <2> DEFINE x == Len(buff) + y
  <2>1. x \in 1 .. Len(buff) + Len(s) /\ ~(x <= Len(buff)) /\ x - Len(buff) = y
    BY <1>1, <1>2
  <2> HIDE DEF x
  <2>2. buff'[x] = s[y]
    BY <1>5, <2>1
  <2> QED
    BY <1>3, <2>2 DEF x
<1> QED
  BY <1>1, <1>2, <1>5, <1>6, <1>7

LEMMA ReadHeader ==
  ASSUME CInv, GotInv, NEW at, StreamAt(at), ReaderAt, Len(got) < Len(sent),
         UNCHANGED wvars, NEW n, Read(n), state = "header"
  PROVE  ReaderAt'
<1> DEFINE p == Incoming
           k == Len(got) + 1
           b == Len(buff) - where_b
           f == FrameOf(p, pkt_nr)
<1>0. /\ n \in Nat /\ n > 0 /\ n <= remain /\ n <= Len(wire)
      /\ Len(wire) \in Nat /\ remain \in Nat /\ Len(buff) \in Nat
  BY ReadBuffer
<1>1. p \in Seq(Byte) /\ k \in 1 .. Len(sent)
  BY InPacketSent
<1>2. where_b = Before(pkt_nr) /\ where_b <= Len(buff) /\ InHeader(p) /\ pkt_nr \in Nat /\ where_b \in Nat
  BY DEF ReaderAt, CInv, IInv, TypeOK
<1>3. Len(buff) + remain = where_b + 4
  BY DEF CInv, IInv, FrameInv, NET_HEADER_SIZE
<1>4. Before(pkt_nr) <= Len(p)
  BY <1>2 DEF InHeader
<1>5. Len(f) \in Nat /\ 4 <= Len(f)
  BY <1>1, <1>2, <1>4, FrameParts, FrameLenBounds, LenProperties DEF NET_HEADER_SIZE
<1>6. Place(at, k, pkt_nr) + b = Pos(at) /\ Place(at, k, pkt_nr) \in Nat
  <2>1. at[k] \in Nat /\ Place(at, k, pkt_nr) \in Nat
    BY <1>1, <1>2, <1>4, Places, SentRow DEF StreamAt, Incoming
  <2> DEFINE a == at[k]
  <2>2. Pos(at) = a + (4 * pkt_nr + Len(buff))
    BY DEF Pos, NET_HEADER_SIZE
  <2>3. Place(at, k, pkt_nr) = a + (where_b + 4 * pkt_nr)
    BY <1>2 DEF Place, FrameAt, NET_HEADER_SIZE
  <2>4. a \in Nat
    BY <2>1
  <2> HIDE DEF a, k
  <2> QED
    BY <1>2, <2>1, <2>2, <2>3, <2>4, ReadBuffer
<1> DEFINE w == Place(at, k, pkt_nr)
<1>7. \A x \in 1 .. b + n : x \in 1 .. Len(f) /\ (~(x <= b) => x - b \in 1 .. n)
  <2>1. b \in Nat /\ b + n <= 4
    BY <1>0, <1>2, <1>3
  <2> HIDE DEF b, f
  <2> QED
    BY <1>0, <1>5, <2>1
<1>8. \A x \in 1 .. b : buff[where_b + x] = f[x]
  BY <1>2 DEF InHeader
<1>9. \A x \in 1 .. where_b : buff[x] = p[x]
  BY <1>2 DEF InHeader
<1>10. b \in Nat /\ Len(buff) = where_b + b /\ Len(buff) \in Nat
  BY <1>2, ReadBuffer
<1>11. \A x \in 1 .. Len(FrameOf(Incoming, pkt_nr)), y \in 1 .. Len(wire) :
         w + x = Pos(at) + y => wire[y] = f[x]
  BY <1>2, <1>4, OnWire
<1>12. w \in Nat /\ w + b = Pos(at)
  BY <1>6
<1> HIDE DEF b, f, w
<1>13. \A x \in 1 .. b + n : buff'[where_b + x] = f[x]
  <2> TAKE x \in 1 .. b + n
  <2>1. CASE x <= b
    <3>1. where_b + x \in 1 .. Len(buff) /\ x \in 1 .. b
      <4>1. x \in 1 .. b
        BY <1>10, <2>1
      <4>2. where_b \in Nat
        BY <1>2
      <4> QED
        BY <1>10, <4>1, <4>2
    <3>2. buff'[where_b + x] = buff[where_b + x]
      BY <3>1, ReadBuffer
    <3> QED
      BY <1>8, <3>1, <3>2
  <2>2. CASE ~(x <= b)
    <3> DEFINE y == x - b
    <3>1. y \in 1 .. n /\ x \in 1 .. Len(f)
      BY <1>7, <2>2
    <3>2. y \in 1 .. Len(wire) /\ where_b + x = Len(buff) + y
      BY <1>0, <1>2, <1>10, <3>1
    <3>3. w + x = Pos(at) + y
      BY <1>10, <1>12
    <3> HIDE DEF y
    <3>4. wire[y] = f[x]
      BY <1>11, <3>1, <3>2, <3>3 DEF f
    <3>5. buff'[Len(buff) + y] = wire[y]
      BY <3>1, ReadBuffer
    <3> QED
      BY <3>2, <3>4, <3>5
  <2> QED
    BY <2>1, <2>2
<1>14. \A x \in 1 .. where_b : buff'[x] = p[x]
  <2>1. \A x \in 1 .. where_b : x \in 1 .. Len(buff)
    BY <1>2, <1>10
  <2> QED
    BY <1>9, <2>1, ReadBuffer
<1>15. Len(buff') - where_b = b + n
  <2>1. Len(buff') = Len(buff) + n
    BY ReadBuffer, Zenon
  <2>2. where_b \in Nat /\ n \in Nat
    BY <1>0, <1>2
  <2> QED
    BY <1>10, <2>1, <2>2
<1>16. /\ where_b' = where_b /\ pkt_nr' = pkt_nr /\ state' = state /\ got' = got /\ sent' = sent
       /\ p' = p
  BY DEF Read, wvars, Incoming
<1>17. InHeader(Incoming)'
  BY <1>2, <1>13, <1>14, <1>15, <1>16 DEF InHeader, f
<1>18. where_b <= Len(buff')
  BY <1>2, <1>10, ReadBuffer
<1> QED
  BY <1>2, <1>16, <1>17, <1>18 DEF ReaderAt, Before

LEMMA ReadBody ==
  ASSUME CInv, GotInv, NEW at, StreamAt(at), ReaderAt, Len(got) < Len(sent),
         UNCHANGED wvars, NEW n, Read(n), state = "body"
  PROVE  ReaderAt'
<1> DEFINE p == Incoming
           k == Len(got) + 1
           j == pkt_nr - 1
           m == FrameLen(Len(p), j)
           f == FrameOf(p, j)
<1>0. /\ n \in Nat /\ n > 0 /\ n <= remain /\ n <= Len(wire)
      /\ Len(wire) \in Nat /\ remain \in Nat /\ Len(buff) \in Nat
  BY ReadBuffer
<1>1. p \in Seq(Byte) /\ k \in 1 .. Len(sent) /\ Len(p) \in Nat
  BY InPacketSent
<1>2. InBody(p) /\ j \in Nat /\ where_b \in Nat /\ where_b <= Len(buff)
  BY DEF ReaderAt, InBody, CInv, IInv, TypeOK, FrameInv
<1>3. where_b = Before(j) /\ Before(j) <= Len(p) /\ Len(buff) + remain = where_b + m
  BY <1>2 DEF InBody
<1>4. m \in Nat /\ Len(f) = 4 + m /\ \A x \in 1 .. m : f[4 + x] = p[where_b + x]
  BY <1>1, <1>2, <1>3, FrameParts, FrameLenBounds, SMTT(40) DEF NET_HEADER_SIZE
<1> DEFINE w == Place(at, k, j)
<1>5. w \in Nat /\ w + 4 + (Len(buff) - where_b) = Pos(at)
  <2>1. at[k] \in Nat /\ w \in Nat
    BY <1>1, <1>2, <1>3, Places, SentRow DEF StreamAt, Incoming
  <2> DEFINE a == at[k]
  <2>2. Pos(at) = a + (4 * pkt_nr + Len(buff))
    BY DEF Pos, NET_HEADER_SIZE
  <2>3. w = a + (where_b + 4 * j)
    BY <1>3 DEF Place, FrameAt, NET_HEADER_SIZE
  <2>4. a \in Nat
    BY <2>1
  <2>5. pkt_nr = j + 1
    BY DEF CInv, IInv, TypeOK
  <2> HIDE DEF a, k, w, j
  <2> QED
    BY <1>0, <1>2, <2>1, <2>2, <2>3, <2>4, <2>5
<1>6. \A x \in 1 .. Len(f), y \in 1 .. Len(wire) : w + x = Pos(at) + y => wire[y] = f[x]
  BY <1>2, <1>3, OnWire
<1>7. \A x \in 1 .. Len(buff) : buff[x] = p[x]
  BY <1>2 DEF InBody
<1> HIDE DEF w, f, m, j
<1>8. \A x \in 1 .. Len(buff) + n : buff'[x] = p[x]
  <2> TAKE x \in 1 .. Len(buff) + n
  <2>1. CASE x <= Len(buff)
    <3>1. x \in 1 .. Len(buff)
      BY <2>1, ReadBuffer
    <3> QED
      BY <1>7, <3>1, ReadBuffer
  <2>2. CASE ~(x <= Len(buff))
    <3> DEFINE y == x - Len(buff)
               z == x - where_b
    <3>1. y \in 1 .. n /\ y \in 1 .. Len(wire) /\ x = Len(buff) + y
      BY <2>2, ReadBuffer
    <3>2. z \in 1 .. m /\ x = where_b + z /\ 4 + z \in 1 .. Len(f)
      <4>1. where_b \in Nat /\ where_b <= Len(buff) /\ Len(buff) + remain = where_b + m /\ m \in Nat
        BY <1>2, <1>3, <1>4
      <4>2. x \in Int /\ x <= Len(buff) + n /\ ~(x <= Len(buff))
        BY <1>0, <2>2
      <4>3. z \in 1 .. m
        BY <1>0, <4>1, <4>2
      <4>4. x = where_b + z
        BY <4>1, <4>2
      <4> HIDE DEF z
      <4> QED
        BY <1>4, <4>3, <4>4
    <3>3. w + (4 + z) = Pos(at) + y
      BY <1>2, <1>5, ReadBuffer
    <3> HIDE DEF y, z
    <3>4. wire[y] = f[4 + z]
      BY <1>6, <3>1, <3>2, <3>3
    <3>5. f[4 + z] = p[where_b + z]
      BY <1>4, <3>2
    <3>6. buff'[Len(buff) + y] = wire[y]
      BY <3>1, ReadBuffer
    <3> QED
      BY <3>1, <3>2, <3>4, <3>5, <3>6
  <2> QED
    BY <2>1, <2>2
<1>9. Len(buff') = Len(buff) + n /\ Len(buff') + remain' = Len(buff) + remain
  <2>1. remain' = remain - n
    BY DEF Read
  <2> QED
    BY <2>1, ReadBuffer
<1>10. /\ where_b' = where_b /\ pkt_nr' = pkt_nr /\ state' = state /\ got' = got /\ sent' = sent
       /\ p' = p
  BY DEF Read, wvars, Incoming
<1>11. InBody(Incoming)'
  BY <1>2, <1>8, <1>9, <1>10 DEF InBody, Before, FrameLen
<1> QED
  BY <1>10, <1>11 DEF ReaderAt

\* A whole header is the one the client wrote for this frame.
LEMMA HeaderFound ==
  ASSUME CInv, GotInv, NEW at, StreamAt(at), ReaderAt, AtHeader
  PROVE  /\ Len(got) < Len(sent)
         /\ Len(buff) = where_b + 4 /\ where_b \in Nat /\ pkt_nr \in Nat
         /\ where_b = Before(pkt_nr) /\ InHeader(Incoming)
         /\ Found[4] = pkt_nr % Base
         /\ HeaderLength(Found) = FrameLen(Len(Incoming), pkt_nr)
<1>1. Len(buff) = where_b + 4 /\ where_b \in Nat /\ pkt_nr \in Nat /\ buff \in Seq(Byte)
  BY FoundHeader DEF CInv, IInv, TypeOK, NET_HEADER_SIZE
<1>2. Len(got) < Len(sent)
  <2> DEFINE a == at[Len(got) + 1]
  <2>1. a \in Nat /\ Len(Unread) \in Nat
    BY PosNat, UnreadType DEF StreamAt
  <2>2. Pos(at) = a + (4 * pkt_nr + Len(buff))
    BY DEF Pos, AtHeader, NET_HEADER_SIZE
  <2>3. Written(at) = Pos(at) + Len(Unread)
    BY DEF Written
  <2> HIDE DEF a
  <2>4. Written(at) > a
    BY <1>1, <2>1, <2>2, <2>3
  <2> QED
    BY <2>4, PacketKnown DEF a
<1> DEFINE p == Incoming
           m == FrameLen(Len(p), pkt_nr)
           h == Header(m, pkt_nr)
<1>3. where_b = Before(pkt_nr) /\ InHeader(p) /\ where_b <= Len(p)
  BY <1>2 DEF ReaderAt, InHeader, AtHeader
<1>4. p \in Seq(Byte) /\ Len(p) \in Nat
  BY <1>2, InPacketSent
<1>5. m \in 0 .. MAX_PACKET_LENGTH /\ m \in Nat /\ MAX_PACKET_LENGTH \in Nat
  <2>1. m \in Nat /\ m <= MAX_PACKET_LENGTH
    BY <1>1, <1>3, <1>4, FrameLenBounds
  <2> QED
    BY <2>1, MaxFrameLarge
<1>6. \A x \in 1 .. 4 : Found[x] = h[x]
  <2>1. \A x \in 1 .. 4 : buff[where_b + x] = FrameOf(p, pkt_nr)[x]
    BY <1>1, <1>3 DEF InHeader
  <2>2. \A x \in 1 .. 4 : FrameOf(p, pkt_nr)[x] = h[x]
    BY <1>1, <1>3, <1>4, FrameParts DEF NET_HEADER_SIZE
  <2>3. \A x \in 1 .. 4 : Found[x] = buff[where_b + x]
    BY <1>1, Slice DEF Found, NET_HEADER_SIZE
  <2> QED
    BY <2>1, <2>2, <2>3
<1>7. Found[1] = h[1] /\ Found[2] = h[2] /\ Found[3] = h[3] /\ Found[4] = h[4]
  BY <1>6
<1>8. HeaderLength(h) = m
  BY <1>1, <1>5, HeaderRead
<1>9. h[4] = pkt_nr % Base
  BY <1>1, <1>5, HeaderParts
<1> QED
  BY <1>1, <1>2, <1>3, <1>7, <1>8, <1>9 DEF HeaderLength

\* What the frames before have left in the buffer.
LEMMA DroppedBytes ==
  ASSUME CInv, AtHeader, NEW p, \A x \in 1 .. where_b : buff[x] = p[x]
  PROVE  \A x \in 1 .. where_b : SubSeq(buff, 1, where_b)[x] = p[x]
<1>1. Len(buff) = where_b + 4 /\ where_b \in Nat /\ buff \in Seq(Byte)
  BY FoundHeader DEF CInv, IInv, TypeOK, NET_HEADER_SIZE
<1>2. SubSeq(buff, 1, where_b) = SubSeq(buff, 0 + 1, 0 + where_b) /\ 0 + where_b <= Len(buff)
  BY <1>1
<1>3. \A x \in 1 .. where_b : SubSeq(buff, 1, where_b)[x] = buff[0 + x]
  BY <1>1, <1>2, Slice
<1> QED
  BY <1>1, <1>3

\* The header goes, the packet number counts it.
LEMMA HeaderPos ==
  ASSUME CInv, GotInv, NEW at, StreamAt(at), ReaderAt, AtHeader, got' = got,
         pkt_nr' = pkt_nr + 1, buff' = SubSeq(buff, 1, where_b), state' # "command"
  PROVE  Pos(at)' = Pos(at)
<1> DEFINE a == at[Len(got) + 1]
<1>1. Len(buff) = where_b + 4 /\ where_b \in Nat /\ pkt_nr \in Nat
  BY HeaderFound
<1>2. Len(buff') = where_b
  BY Dropped DEF CInv, IInv
<1>3. a \in Nat
  BY PosNat DEF StreamAt
<1>4. Pos(at) = a + (4 * pkt_nr + Len(buff)) /\ Pos(at)' = a + (4 * (pkt_nr + 1) + Len(buff'))
  BY DEF Pos, AtHeader, NET_HEADER_SIZE
<1> HIDE DEF a
<1> QED
  BY <1>1, <1>2, <1>3, <1>4

LEMMA EmptyFrameReads ==
  ASSUME CInv, GotInv, NEW at, StreamAt(at), ReaderAt, UNCHANGED wvars, EmptyFrame
  PROVE  StreamAt(at)' /\ ReaderAt'
<1> DEFINE p == Incoming
<1>0. AtHeader /\ pkt_nr' = pkt_nr + 1 /\ buff' = SubSeq(buff, 1, where_b)
  BY DEF EmptyFrame, InSequence
<1>1. /\ Len(got) < Len(sent) /\ where_b \in Nat /\ pkt_nr \in Nat
      /\ where_b = Before(pkt_nr) /\ InHeader(p) /\ FrameLen(Len(p), pkt_nr) = 0
  BY <1>0, HeaderFound DEF EmptyFrame
<1>2. p \in Seq(Byte) /\ Len(p) \in Nat
  BY <1>1, InPacketSent
<1>3. where_b <= Len(p) /\ \A x \in 1 .. where_b : buff[x] = p[x]
  BY <1>1 DEF InHeader
<1>4. Len(p) = where_b /\ Len(p) < Before(pkt_nr) + MAX_PACKET_LENGTH
  BY <1>1, <1>2, <1>3, FrameLenBounds, MaxFrameLarge
<1>5. Size(p) = Len(p) + 4 * (pkt_nr + 1)
  BY <1>1, <1>2, <1>3, <1>4, SizeAtLast DEF NET_HEADER_SIZE
<1>6. /\ buff' \in Seq(Byte) /\ Len(buff') = where_b
      /\ \A x \in 1 .. where_b : buff'[x] = p[x]
  BY <1>0, <1>3, Dropped, DroppedBytes DEF CInv, IInv
<1>7. buff' = p
  BY <1>2, <1>4, <1>6, SeqEqual
<1>8. got' = got /\ sent' = sent /\ p' = p /\ state' = "packet" /\ wire' = wire
  BY DEF EmptyFrame, wvars, Incoming
<1>9. Pos(at)' = Pos(at)
  BY <1>0, <1>8, HeaderPos
<1>10. StreamAt(at)'
  BY <1>8, <1>9, StreamKept
<1>11. InPacket(Incoming)'
  <2>1. 4 * pkt_nr' + Len(buff') = Size(p)
    BY <1>0, <1>1, <1>2, <1>5, <1>7
  <2> QED
    BY <1>7, <1>8, <2>1 DEF InPacket, NET_HEADER_SIZE, Size
<1> QED
  BY <1>1, <1>8, <1>10, <1>11 DEF ReaderAt

LEMMA BeginBodyReads ==
  ASSUME CInv, GotInv, NEW at, StreamAt(at), ReaderAt, UNCHANGED wvars, BeginBody
  PROVE  StreamAt(at)' /\ ReaderAt'
<1> DEFINE p == Incoming
           m == FrameLen(Len(p), pkt_nr)
<1>0. AtHeader /\ pkt_nr' = pkt_nr + 1 /\ buff' = SubSeq(buff, 1, where_b)
  BY DEF BeginBody, InSequence
<1>1. /\ Len(got) < Len(sent) /\ where_b \in Nat /\ pkt_nr \in Nat
      /\ where_b = Before(pkt_nr) /\ InHeader(p) /\ remain' = m
  BY <1>0, HeaderFound DEF BeginBody
<1>2. where_b <= Len(p) /\ \A x \in 1 .. where_b : buff[x] = p[x]
  BY <1>1 DEF InHeader
<1>3. Len(buff') = where_b /\ \A x \in 1 .. where_b : buff'[x] = p[x]
  BY <1>0, <1>2, Dropped, DroppedBytes DEF CInv, IInv
<1>4. /\ got' = got /\ sent' = sent /\ p' = p /\ state' = "body" /\ wire' = wire
      /\ where_b' = where_b
  BY DEF BeginBody, wvars, Incoming
<1>5. StreamAt(at)'
  BY <1>0, <1>4, HeaderPos, StreamKept
<1>6. pkt_nr' - 1 = pkt_nr /\ pkt_nr' > 0
  BY <1>0, <1>1
<1>7. InBody(Incoming)'
  BY <1>1, <1>2, <1>3, <1>4, <1>6 DEF InBody, Before, FrameLen
<1> QED
  BY <1>1, <1>4, <1>5, <1>7 DEF ReaderAt

LEMMA NextFrameReads ==
  ASSUME CInv, GotInv, NEW at, StreamAt(at), ReaderAt, UNCHANGED wvars, NextFrame
  PROVE  StreamAt(at)' /\ ReaderAt'
<1> DEFINE p == Incoming
           j == pkt_nr - 1
<1>1. /\ Len(got) < Len(sent) /\ InBody(p) /\ remain = 0
      /\ pkt_nr \in Nat /\ Len(buff) \in Nat /\ where_b \in Nat
      /\ Len(buff) - where_b = MAX_PACKET_LENGTH
  BY LenProperties DEF NextFrame, AtBody, ReaderAt, CInv, IInv, TypeOK
<1>2. p \in Seq(Byte) /\ Len(p) \in Nat
  BY <1>1, InPacketSent
<1>3. /\ j \in Nat /\ pkt_nr = j + 1 /\ where_b = Before(j) /\ where_b <= Len(p)
      /\ Len(buff) = where_b + FrameLen(Len(p), j)
      /\ \A x \in 1 .. Len(buff) : buff[x] = p[x]
  BY <1>1 DEF InBody
<1>4. Len(buff) = Before(pkt_nr) /\ Len(buff) <= Len(p)
  <2> HIDE DEF j
  <2> QED
    BY <1>1, <1>2, <1>3, FrameLenBounds, BeforeNext, MaxFrameLarge
<1>5. /\ where_b' = Len(buff) /\ buff' = buff /\ pkt_nr' = pkt_nr /\ got' = got /\ sent' = sent
      /\ p' = p /\ state' = "header" /\ state = "body" /\ wire' = wire
  BY DEF NextFrame, AtBody, wvars, Incoming
<1>6. StreamAt(at)'
  <2>1. Pos(at)' = Pos(at)
    BY <1>5 DEF Pos
  <2> QED
    BY <1>5, <2>1, StreamKept
<1>7. InHeader(Incoming)'
  <2>1. Len(buff') - where_b' = 0
    BY <1>1, <1>5
  <2> QED
    BY <1>3, <1>4, <1>5, <2>1 DEF InHeader
<1> QED
  BY <1>1, <1>4, <1>5, <1>6, <1>7 DEF ReaderAt, Before

LEMMA LastFrameReads ==
  ASSUME CInv, GotInv, NEW at, StreamAt(at), ReaderAt, UNCHANGED wvars, LastFrame
  PROVE  StreamAt(at)' /\ ReaderAt'
<1> DEFINE p == Incoming
           j == pkt_nr - 1
<1>1. /\ Len(got) < Len(sent) /\ InBody(p) /\ remain = 0
      /\ pkt_nr \in Nat /\ Len(buff) \in Nat /\ where_b \in Nat /\ buff \in Seq(Byte)
      /\ Len(buff) - where_b # MAX_PACKET_LENGTH
  BY LenProperties DEF LastFrame, AtBody, ReaderAt, CInv, IInv, TypeOK
<1>2. p \in Seq(Byte) /\ Len(p) \in Nat
  BY <1>1, InPacketSent
<1>3. /\ j \in Nat /\ pkt_nr = j + 1 /\ where_b = Before(j) /\ where_b <= Len(p)
      /\ Len(buff) = where_b + FrameLen(Len(p), j)
      /\ \A x \in 1 .. Len(buff) : buff[x] = p[x]
  BY <1>1 DEF InBody
<1>4. Len(buff) = Len(p) /\ Len(p) < Before(j) + MAX_PACKET_LENGTH
  <2> HIDE DEF j
  <2> QED
    BY <1>1, <1>2, <1>3, FrameLenBounds, MaxFrameLarge
<1>5. Size(p) = Len(p) + 4 * pkt_nr
  BY <1>2, <1>3, <1>4, SizeAtLast DEF NET_HEADER_SIZE
<1>6. buff = p
  BY <1>1, <1>2, <1>3, <1>4, SeqEqual
<1>7. /\ buff' = buff /\ pkt_nr' = pkt_nr /\ got' = got /\ sent' = sent
      /\ p' = p /\ state' = "packet" /\ state = "body" /\ wire' = wire
  BY DEF LastFrame, AtBody, wvars, Incoming
<1>8. StreamAt(at)'
  <2>1. Pos(at)' = Pos(at)
    BY <1>7 DEF Pos
  <2> QED
    BY <1>7, <2>1, StreamKept
<1>9. InPacket(Incoming)'
  <2>1. 4 * pkt_nr + Len(buff) = Size(p)
    BY <1>1, <1>2, <1>4, <1>5
  <2> QED
    BY <1>6, <1>7, <2>1 DEF InPacket, NET_HEADER_SIZE, Size
<1> QED
  BY <1>1, <1>7, <1>8, <1>9 DEF ReaderAt

LEMMA DeliverReads ==
  ASSUME CInv, GotInv, NEW at, StreamAt(at), ReaderAt, UNCHANGED wvars, Deliver
  PROVE  StreamAt(at)' /\ ReaderAt' /\ GotInv'
<1> DEFINE p == Incoming
           k == Len(got) + 1
<1>1. Len(got) < Len(sent) /\ buff = p /\ 4 * pkt_nr + Len(buff) = Size(p)
  BY DEF Deliver, ReaderAt, InPacket, NET_HEADER_SIZE
<1>2. k \in 1 .. Len(sent) /\ Len(got) \in Nat
  BY <1>1, InPacketSent
<1>3. /\ got' = Append(got, Seen(buff)) /\ state' = "command" /\ state = "packet"
      /\ sent' = sent /\ wire' = wire
  BY DEF Deliver, wvars
<1>4. /\ Len(got') = k /\ \A i \in 1 .. Len(got) : got'[i] = got[i]
      /\ got'[k] = Seen(p)
  <2>1. got \in Seq(Seq(Byte))
    BY DEF CInv, IInv, TypeOK
  <2>2. Seen(buff) \in Seq(Byte)
    <3>1. buff \in Seq(Byte)
      BY DEF CInv, IInv, TypeOK
    <3>2. <<0>> \in Seq(Byte)
      BY ReadAssumption DEF Byte
    <3> QED
      BY <3>1, <3>2 DEF Seen, CCOM_SLEEP
  <2> QED
    BY <1>1, <1>3, <2>1, <2>2, AppendProperties
<1>5. Pos(at)' = Pos(at)
  <2>1. at[k + 1] = at[k] + Size(p)
    BY <1>2 DEF StreamAt, LayoutOf, Incoming
  <2>2. at[k] \in Nat /\ at[k + 1] \in Nat
    <3>1. k \in 1 .. Len(sent) + 1 /\ k + 1 \in 1 .. Len(sent) + 1
      BY <1>2, SentRow
    <3> QED
      BY <3>1 DEF StreamAt, LayoutOf
  <2>3. Pos(at)' = at[k + 1] + 0 /\ Pos(at) = at[k] + Size(p)
    BY <1>1, <1>3, <1>4 DEF Pos, NET_HEADER_SIZE
  <2> QED
    BY <2>1, <2>2, <2>3
<1>6. GotInv'
  <2>1. \A i \in 1 .. k : got'[i] = Seen(sent[i])
    <3> TAKE i \in 1 .. k
    <3>1. CASE i \in 1 .. Len(got)
      BY <1>4, <3>1 DEF GotInv
    <3>2. CASE i = k
      BY <1>4, <3>2 DEF Incoming
    <3> QED
      BY <1>2, <3>1, <3>2
  <2> QED
    BY <1>2, <1>3, <1>4, <2>1 DEF GotInv, Seen
<1> QED
  BY <1>3, <1>5, <1>6, StreamKept DEF ReaderAt

LEMMA NewCommandReads ==
  ASSUME CInv, GotInv, NEW at, StreamAt(at), ReaderAt, UNCHANGED wvars, NewCommand
  PROVE  StreamAt(at)' /\ ReaderAt'
<1>1. /\ pkt_nr' = 0 /\ buff' = <<>> /\ state = "command" /\ state' = "header" /\ got' = got
      /\ sent' = sent /\ wire' = wire /\ where_b' = where_b /\ where_b = 0 /\ Len(buff') = 0
  BY EmptySeq DEF NewCommand, wvars, CInv, IInv, FrameInv
<1>2. StreamAt(at)'
  <2>1. at[Len(got) + 1] \in Nat
    BY PosNat DEF StreamAt
  <2>2. Pos(at)' = Pos(at)
    BY <1>1, <2>1 DEF Pos, NET_HEADER_SIZE
  <2> QED
    BY <1>1, <2>2, StreamKept
<1>3. Before(0) = 0
  BY BeforeNext
<1>4. Len(got) < Len(sent) => InHeader(Incoming)'
  <2> SUFFICES ASSUME Len(got) < Len(sent) PROVE InHeader(Incoming)'
    OBVIOUS
  <2>1. Len(Incoming) \in Nat /\ Incoming' = Incoming
    BY <1>1, InPacketSent DEF Incoming
  <2> QED
    BY <1>1, <2>1 DEF InHeader
<1> QED
  BY <1>1, <1>2, <1>3, <1>4 DEF ReaderAt, Before

\* A packet is refused for what the client wrote (net_serv.cc:133).
LEMMA TooLargeReads ==
  ASSUME CInv, GotInv, NEW at, StreamAt(at), ReaderAt, UNCHANGED wvars, TooLarge
  PROVE  LargeInv'
<1> DEFINE p == Incoming
           m == FrameLen(Len(p), pkt_nr)
<1>0. AtHeader
  BY DEF TooLarge, InSequence
<1>1. /\ Len(got) < Len(sent) /\ where_b \in Nat /\ pkt_nr \in Nat
      /\ where_b = Before(pkt_nr) /\ where_b <= Len(p) /\ HeaderLength(Found) = m
  BY <1>0, HeaderFound DEF InHeader
<1>2. Len(p) \in Nat
  BY <1>1, InPacketSent
<1>3. m \in Nat /\ where_b + m <= Len(p)
  BY <1>1, <1>2, FrameLenBounds
<1>4. m + where_b >= max_packet_size
  BY <1>1, <1>3 DEF TooLarge, MayGrow, Necessary, CInv, IInv, TypeOK
<1>5. max_packet_size' = max_packet_size /\ got' = got /\ sent' = sent /\ p' = p
  BY DEF TooLarge, Close, wvars, Incoming
<1>6. max_packet_size \in Nat
  BY DEF CInv, IInv, TypeOK
<1> HIDE DEF m
<1>7. Len(p) >= max_packet_size
  BY <1>1, <1>2, <1>3, <1>4, <1>6
<1> QED
  BY <1>1, <1>5, <1>7 DEF LargeInv

LEMMA GotKept == GotInv /\ got' = got /\ sent' = sent => GotInv'
BY DEF GotInv, Seen

\* A reader that closes the connection leaves the rest as it is.
LEMMA ClosedKept ==
  ASSUME GotInv, UNCHANGED wvars, NEW why \in {"large", "nomem", "lost"}, Close(why),
         why # "large" \/ LargeInv'
  PROVE  SInv'
<1>1. state' = why /\ got' = got /\ sent' = sent
  BY DEF Close, wvars
<1>2. GotInv'
  BY <1>1, GotKept
<1>3. LargeInv'
  BY <1>1 DEF LargeInv
<1> QED
  BY <1>1, <1>2, <1>3 DEF SInv, InOrder, StreamInv, Closed

LEMMA ReaderStep ==
  ASSUME CInv, SInv, Reader, UNCHANGED wvars
  PROVE  SInv'
<1>1. state \notin Closed
  BY DEF Reader, Progress, NewCommand, Read, Reading, OutOfOrder, EmptyFrame, BeginBody,
         TooLarge, NextFrame, LastFrame, Deliver, ReadFails, NoMemory, InSequence, AtHeader,
         AtBody, Closed
<1>2. PICK at : StreamAt(at) /\ ReaderAt
  BY <1>1 DEF SInv, StreamInv
<1>3. GotInv
  BY DEF SInv
<1>4. ASSUME StreamAt(at)', ReaderAt', GotInv', state' \notin {"large", "order"}
      PROVE  SInv'
  BY <1>4 DEF SInv, LargeInv, InOrder, StreamInv
<1>5. CASE NewCommand
  <2>1. got' = got /\ sent' = sent /\ state' = "header"
    BY <1>5 DEF NewCommand, wvars
  <2> QED
    BY <1>2, <1>3, <1>4, <1>5, <2>1, GotKept, NewCommandReads
<1>6. ASSUME NEW n \in 1 .. Len(wire), Read(n)
      PROVE  SInv'
  <2>1. got' = got /\ sent' = sent /\ state' = state /\ state \in {"header", "body"}
    BY <1>6 DEF Read, Reading, wvars
  <2>2. StreamAt(at)'
    BY <1>2, <1>3, <1>6, ReadStream
  <2>3. Len(got) < Len(sent)
    <3>1. n > 0 /\ n \in Nat /\ n <= Len(wire)
      BY <1>6, ReadBuffer
    <3>2. at[Len(got) + 1] \in Nat /\ Pos(at) \in Nat /\ at[Len(got) + 1] <= Pos(at)
      BY <1>2, <1>3, PosNat DEF StreamAt
    <3>3. Len(Unread) \in Nat /\ Len(wire) <= Len(Unread) /\ Len(wire) \in Nat
      BY UnreadType
    <3>4. Written(at) > at[Len(got) + 1]
      <4> DEFINE a == at[Len(got) + 1]
                 r == Pos(at)
      <4>1. a \in Nat /\ r \in Nat /\ a <= r /\ Written(at) = r + Len(Unread)
        BY <3>2 DEF Written
      <4> HIDE DEF a, r
      <4>2. Written(at) > a
        BY <3>1, <3>3, <4>1
      <4> QED
        BY <4>2 DEF a
    <3> QED
      BY <1>2, <1>3, <3>4, PacketKnown
  <2>4. ReaderAt'
    BY <1>2, <1>3, <1>6, <2>1, <2>3, ReadHeader, ReadBody
  <2> QED
    BY <1>3, <1>4, <2>1, <2>2, <2>4, GotKept
<1>7. ~OutOfOrder
  BY <1>2, <1>3, HeaderFound DEF OutOfOrder
<1>8. CASE EmptyFrame
  <2>1. got' = got /\ sent' = sent /\ state' = "packet"
    BY <1>8 DEF EmptyFrame, wvars
  <2> QED
    BY <1>2, <1>3, <1>4, <1>8, <2>1, GotKept, EmptyFrameReads
<1>9. CASE BeginBody
  <2>1. got' = got /\ sent' = sent /\ state' = "body"
    BY <1>9 DEF BeginBody, wvars
  <2> QED
    BY <1>2, <1>3, <1>4, <1>9, <2>1, GotKept, BeginBodyReads
<1>10. CASE TooLarge
  <2>1. LargeInv' /\ Close("large")
    BY <1>2, <1>3, <1>10, TooLargeReads DEF TooLarge
  <2> QED
    BY <1>3, <2>1, ClosedKept
<1>11. CASE NextFrame
  <2>1. got' = got /\ sent' = sent /\ state' = "header"
    BY <1>11 DEF NextFrame, wvars
  <2> QED
    BY <1>2, <1>3, <1>4, <1>11, <2>1, GotKept, NextFrameReads
<1>12. CASE LastFrame
  <2>1. got' = got /\ sent' = sent /\ state' = "packet"
    BY <1>12 DEF LastFrame, wvars
  <2> QED
    BY <1>2, <1>3, <1>4, <1>12, <2>1, GotKept, LastFrameReads
<1>13. CASE Deliver
  <2>1. state' = "command"
    BY <1>13 DEF Deliver
  <2> QED
    BY <1>2, <1>3, <1>4, <1>13, <2>1, DeliverReads
<1>14. CASE ReadFails
  BY <1>3, <1>14, ClosedKept DEF ReadFails
<1>15. CASE NoMemory
  BY <1>3, <1>15, ClosedKept DEF NoMemory
<1> QED
  BY <1>5, <1>6, <1>7, <1>8, <1>9, <1>10, <1>11, <1>12, <1>13, <1>14, <1>15
  DEF Reader, Progress

-----------------------------------------------------------------------------
(* The client's steps.                                                     *)

LEMMA Associative ==
  ASSUME NEW a \in Seq(Byte), NEW b \in Seq(Byte), NEW c \in Seq(Byte)
  PROVE  (a \o b) \o c = a \o (b \o c)
BY ConcatAssociative

LEMMA NothingJoined == Joined(<<>>) = <<>>
<1>1. Len(<<>>) = 0 /\ <<>> \in Seq(Byte)
  BY EmptySeq
<1>2. Piece(<<>>, 1) = <<>> /\ Piece(<<>>, 2) = <<>> /\ Piece(<<>>, 3) = <<>>
  BY <1>1 DEF Piece
<1> QED
  BY <1>1, <1>2, ConcatEmptySeq DEF Joined

LEMMA FirstJoined ==
  ASSUME NEW s \in PacketSeq, s # <<>>, Len(s) <= 3
  PROVE  /\ Head(s) \in Seq(Byte) /\ Tail(s) \in PacketSeq
         /\ Len(Tail(s)) <= 2 /\ Len(Tail(s)) \in Nat
         /\ Joined(s) = Head(s) \o Joined(Tail(s))
<1> DEFINE t == Tail(s)
<1>1. /\ Head(s) \in Seq(Byte) /\ t \in PacketSeq /\ Len(t) = Len(s) - 1
      /\ \A i \in 1 .. Len(t) : t[i] = s[i + 1]
      /\ Len(s) \in Nat /\ Len(s) > 0 /\ Head(s) = s[1]
  BY HeadTailProperties, EmptySeq, LenProperties DEF PacketSeq
<1> HIDE DEF t
<1>2. Piece(s, 1) = Head(s)
  BY <1>1 DEF Piece
<1>3. Piece(t, 1) = Piece(s, 2) /\ Piece(t, 2) = Piece(s, 3) /\ Piece(t, 3) = <<>>
  BY <1>1 DEF Piece
<1>4. Joined(t) = Piece(s, 2) \o Piece(s, 3)
  <2>1. Piece(s, 3) \o <<>> = Piece(s, 3)
    BY JoinedType, ConcatEmptySeq
  <2> QED
    BY <1>3, <2>1 DEF Joined
<1>5. Joined(s) = Head(s) \o Joined(t)
  BY <1>2, <1>4 DEF Joined
<1>6. Len(t) \in Nat /\ Len(t) <= 2
  BY <1>1
<1> QED
  BY <1>1, <1>5, <1>6 DEF t

LEMMA OneMoreJoined ==
  ASSUME NEW a \in Seq(Byte), NEW t \in PacketSeq, Len(t) <= 2
  PROVE  /\ << a >> \o t \in PacketSeq /\ Len(<< a >> \o t) <= 3
         /\ Joined(<< a >> \o t) = a \o Joined(t)
<1> DEFINE s == << a >> \o t
<1>1. << a >> \in Seq(Seq(Byte)) /\ Len(<< a >>) = 1
  OBVIOUS
<1>2. Len(t) \in Nat /\ t \in Seq(Seq(Byte))
  BY LenProperties DEF PacketSeq
<1>3. /\ s \in Seq(Seq(Byte)) /\ Len(s) = 1 + Len(t)
      /\ \A i \in 1 .. 1 + Len(t) : s[i] = IF i <= 1 THEN << a >>[i] ELSE t[i - 1]
  BY <1>1, <1>2, ConcatProperties
<1> HIDE DEF s
<1>4. Piece(s, 1) = a
  BY <1>2, <1>3 DEF Piece
<1>5. Piece(s, 2) = Piece(t, 1) /\ Piece(s, 3) = Piece(t, 2) /\ Piece(t, 3) = <<>>
  BY <1>2, <1>3 DEF Piece
<1>6. Joined(t) = Piece(s, 2) \o Piece(s, 3)
  <2>1. Piece(t, 2) \o <<>> = Piece(t, 2)
    BY JoinedType, ConcatEmptySeq
  <2> QED
    BY <1>5, <2>1 DEF Joined
<1>7. Joined(s) = a \o Joined(t)
  BY <1>4, <1>6 DEF Joined
<1>8. s \in PacketSeq /\ Len(s) <= 3
  BY <1>2, <1>3 DEF PacketSeq
<1> QED
  BY <1>7, <1>8 DEF s

\* A stretch of the reader's state that only the reader changes.
readerVars == <<buff, where_b, remain, pkt_nr, state, got, max_packet_size>>

\* Steps that only hand on bytes.
LEMMA HandedOn ==
  ASSUME NEW at, StreamAt(at), UNCHANGED readerVars, sent' = sent, Unread' = Unread
  PROVE  /\ LayoutOf(at, sent)' /\ CodedBy(at, sent, Pos(at), Unread)'
         /\ Pos(at)' = Pos(at) /\ Written(at)' = Written(at)
<1>1. Pos(at)' = Pos(at)
  BY DEF Pos, readerVars
<1>2. Written(at)' = Written(at)
  BY <1>1 DEF Written
<1>3. CodedBy(at, sent, Pos(at), Unread)'
  BY <1>1 DEF StreamAt
<1> QED
  BY <1>1, <1>2, <1>3 DEF StreamAt

LEMMA BuffSends ==
  ASSUME CInv, NEW at, StreamAt(at), UNCHANGED vars, Buffer \/ FillAndSend \/ SendDirect
  PROVE  StreamAt(at)' /\ sent' = sent
<1> DEFINE p == Head(pieces)
           T == Tail(pieces)
<1>1. /\ pieces \in PacketSeq /\ wbuf \in Seq(Byte) /\ <<>> \in Seq(Byte)
      /\ wire \in Seq(Byte) /\ out = <<>> /\ pieces # <<>> /\ writer # "failed"
      /\ Len(pieces) <= 3 /\ UNCHANGED <<sent, rest, head, nr, writer>>
      /\ wire' = wire
  BY EmptySeq DEF CInv, WTypeOK, PacketSeq, Buffer, FillAndSend, SendDirect, AtPiece,
                  StreamAt, WriterAt, IInv, TypeOK, vars
<1>2. /\ p \in Seq(Byte) /\ T \in PacketSeq /\ Len(T) <= 2
      /\ Joined(pieces) = p \o Joined(T) /\ Joined(T) \in Seq(Byte)
  BY <1>1, FirstJoined, JoinedType
<1> HIDE DEF p, T
<1>3. Unread = wire \o (wbuf \o (p \o Joined(T)))
  <2>1. wbuf \o (p \o Joined(T)) \in Seq(Byte)
    BY <1>1, <1>2, ConcatProperties
  <2>2. <<>> \o (wbuf \o (p \o Joined(T))) = wbuf \o (p \o Joined(T))
    BY <2>1, ConcatEmptySeq
  <2> QED
    BY <1>1, <1>2, <2>2 DEF Unread, Unsent
<1>4. writer \in {"frame", "flush"}
  BY <1>1 DEF StreamAt, WriterAt, CInv, WTypeOK
<1>5. Len(pieces') <= 3 /\ Unread' = Unread
  <2>1. CASE Buffer
    <3>1. wbuf' = wbuf \o p /\ pieces' = T /\ out' = <<>> /\ writer' # "failed"
      BY <1>1, <2>1 DEF Buffer, p, T
    <3>2. (wbuf \o p) \o Joined(T) = wbuf \o (p \o Joined(T))
      BY <1>1, <1>2, Associative
    <3>3. wbuf \o (p \o Joined(T)) \in Seq(Byte)
      BY <1>1, <1>2, ConcatProperties
    <3>4. <<>> \o (wbuf \o (p \o Joined(T))) = wbuf \o (p \o Joined(T))
      BY <3>3, ConcatEmptySeq
    <3>5. Unread' = wire \o (<<>> \o ((wbuf \o p) \o Joined(T)))
      BY <1>1, <3>1 DEF Unread, Unsent, Joined
    <3>6. Len(T) \in Nat
      BY <1>2, LenProperties DEF PacketSeq
    <3> QED
      <4>1. Len(pieces') <= 3
        BY <1>2, <3>1, <3>6
      <4>2. Unread' = Unread
        BY <1>3, <3>2, <3>4, <3>5
      <4> QED
        BY <4>1, <4>2
  <2>2. CASE FillAndSend
    <3> DEFINE a == SubSeq(p, 1, Left)
               b == SubSeq(p, Left + 1, Len(p))
    <3>1. Left \in 0 .. Len(p)
      <4>1. Len(p) \in Nat /\ Len(p) > Left /\ Left \in Nat
        BY <1>1, <1>2, <2>2, LenProperties, ReadAssumption
        DEF FillAndSend, Left, CInv, WriteInv, p
      <4> QED
        BY <4>1
    <3>2. a \in Seq(Byte) /\ b \in Seq(Byte)
      BY <1>2, <3>1, Cut
    <3>3. p = a \o b
      <4>1. Len(p) \in Nat /\ Left \in Nat /\ Left <= Len(p)
        BY <1>2, <3>1, LenProperties
      <4>2. 1 \in 1 .. Len(p) + 1 /\ Left \in 1 - 1 .. Len(p) /\ Len(p) \in Left .. Len(p)
        BY <4>1
      <4>3. a \o b = SubSeq(p, 1, Len(p))
        BY <1>2, <4>2, ConcatAdjacentSubSeq
      <4> QED
        BY <1>2, <4>3, SubSeqFull
    <3>4. out' = wbuf \o a /\ pieces' = << b >> \o T /\ wbuf' = <<>> /\ writer' # "failed"
      BY <1>1, <2>2 DEF FillAndSend, Drop, p, T, a, b
    <3> HIDE DEF a, b
    <3>5. Len(pieces') <= 3 /\ Joined(pieces') = b \o Joined(T)
      BY <1>2, <3>2, <3>4, OneMoreJoined
    <3>6. Unread' = wire \o ((wbuf \o a) \o (<<>> \o (b \o Joined(T))))
      BY <1>1, <3>4, <3>5 DEF Unread, Unsent, Joined
    <3>7. b \o Joined(T) \in Seq(Byte) /\ a \o (b \o Joined(T)) = (a \o b) \o Joined(T)
      BY <1>2, <3>2, ConcatProperties, Associative
    <3>8. <<>> \o (b \o Joined(T)) = b \o Joined(T)
      BY <3>7, ConcatEmptySeq
    <3>9. (wbuf \o a) \o (b \o Joined(T)) = wbuf \o (a \o (b \o Joined(T)))
      BY <1>1, <3>2, <3>7, Associative, SMTT(40)
    <3> QED
      BY <1>3, <3>3, <3>5, <3>6, <3>7, <3>8, <3>9
  <2>3. CASE SendDirect
    <3>1. out' = p /\ pieces' = T /\ wbuf' = <<>> /\ wbuf = <<>> /\ writer' # "failed"
      BY <1>1, <2>3 DEF SendDirect, p, T
    <3>2. Unread' = wire \o (p \o (<<>> \o Joined(T)))
      BY <1>1, <3>1 DEF Unread, Unsent, Joined
    <3>3. <<>> \o Joined(T) = Joined(T)
      BY <1>2, ConcatEmptySeq
    <3>4. p \o Joined(T) \in Seq(Byte)
      BY <1>2, ConcatProperties
    <3>5. <<>> \o (p \o Joined(T)) = p \o Joined(T)
      BY <3>4, ConcatEmptySeq
    <3>6. Len(T) \in Nat
      BY <1>2, LenProperties DEF PacketSeq
    <3> QED
      BY <1>2, <1>3, <3>1, <3>2, <3>3, <3>5, <3>6
  <2> QED
    BY <2>1, <2>2, <2>3
<1>6. UNCHANGED readerVars
  BY DEF readerVars, vars
<1>7. /\ LayoutOf(at, sent)' /\ CodedBy(at, sent, Pos(at), Unread)'
      /\ Written(at)' = Written(at)
  BY <1>1, <1>5, <1>6, HandedOn
<1>8. WriterAt(at)'
  BY <1>1, <1>4, <1>5, <1>7 DEF StreamAt, WriterAt, Place, FrameAt, Before
<1> QED
  BY <1>1, <1>7, <1>8 DEF StreamAt

LEMMA FlushSends ==
  ASSUME CInv, NEW at, StreamAt(at), UNCHANGED vars, Flush
  PROVE  StreamAt(at)' /\ sent' = sent
<1>1. /\ wbuf \in Seq(Byte) /\ out = <<>> /\ pieces = <<>> /\ writer = "flush"
      /\ out' = wbuf /\ wbuf' = <<>> /\ pieces' = <<>> /\ writer' = "idle"
      /\ sent' = sent /\ head' = head /\ wire' = wire
  BY DEF CInv, WTypeOK, Flush, vars
<1>2. Unread = wire \o (<<>> \o (wbuf \o <<>>)) /\ Unread' = wire \o (wbuf \o (<<>> \o <<>>))
  <2>1. Joined(pieces) = <<>> /\ Joined(pieces)' = <<>>
    BY <1>1, NothingJoined DEF Joined, Piece
  <2> QED
    BY <1>1, <2>1 DEF Unread, Unsent
<1>3. Unread' = Unread
  <2>1. wbuf \o <<>> = wbuf /\ <<>> \o wbuf = wbuf
    BY <1>1, ConcatEmptySeq
  <2>2. <<>> \in Seq(Byte)
    BY EmptySeq
  <2>3. <<>> \o <<>> = <<>>
    BY <2>2, ConcatEmptySeq
  <2> QED
    BY <1>2, <2>1, <2>3
<1>4. UNCHANGED readerVars
  BY DEF readerVars, vars
<1>5. /\ LayoutOf(at, sent)' /\ CodedBy(at, sent, Pos(at), Unread)'
      /\ Written(at)' = Written(at)
  BY <1>1, <1>3, <1>4, HandedOn
<1>6. WriterAt(at)'
  BY <1>1, <1>5 DEF StreamAt, WriterAt
<1> QED
  BY <1>1, <1>5, <1>6 DEF StreamAt

LEMMA WriteSends ==
  ASSUME CInv, NEW at, StreamAt(at), NEW n, Write(n)
  PROVE  StreamAt(at)' /\ sent' = sent
<1> DEFINE a == SubSeq(out, 1, n)
           b == SubSeq(out, n + 1, Len(out))
<1>1. /\ out \in Seq(Byte) /\ wire \in Seq(Byte) /\ n \in 0 .. Len(out)
      /\ wire' = wire \o a /\ out' = b /\ sent' = sent
      /\ UNCHANGED <<sent, rest, head, nr, pieces, wbuf, writer>>
  BY LenProperties DEF CInv, WTypeOK, IInv, TypeOK, Write, Drop
<1>2. a \in Seq(Byte) /\ b \in Seq(Byte)
  BY <1>1, Cut
<1>3. out = a \o b
  <2>1. Len(out) \in Nat
    BY <1>1, LenProperties
  <2>2. 1 \in 1 .. Len(out) + 1 /\ n \in 1 - 1 .. Len(out) /\ Len(out) \in n .. Len(out)
    BY <1>1, <2>1
  <2>3. a \o b = SubSeq(out, 1, Len(out))
    BY <1>1, <2>2, ConcatAdjacentSubSeq
  <2> QED
    BY <1>1, <2>3, SubSeqFull
<1> HIDE DEF a, b
<1>4. Unsent' = Unsent /\ Unsent \in Seq(Byte)
  BY <1>1, UnsentType DEF Unsent
<1>5. Unread' = Unread
  <2>1. Unread' = (wire \o a) \o (b \o Unsent) /\ Unread = wire \o ((a \o b) \o Unsent)
    BY <1>1, <1>3, <1>4 DEF Unread
  <2>2. b \o Unsent \in Seq(Byte)
    BY <1>2, <1>4, ConcatProperties
  <2>3. (wire \o a) \o (b \o Unsent) = wire \o (a \o (b \o Unsent))
    BY <1>1, <1>2, <2>2, Associative
  <2>4. (a \o b) \o Unsent = a \o (b \o Unsent)
    BY <1>2, <1>4, Associative
  <2> QED
    BY <2>1, <2>3, <2>4
<1>6. UNCHANGED readerVars
  BY DEF readerVars, Write
<1>7. /\ LayoutOf(at, sent)' /\ CodedBy(at, sent, Pos(at), Unread)'
      /\ Written(at)' = Written(at)
  BY <1>1, <1>5, <1>6, HandedOn
<1>8. WriterAt(at)'
  BY <1>1, <1>7 DEF StreamAt, WriterAt, Place, FrameAt, Before
<1> QED
  BY <1>1, <1>7, <1>8 DEF StreamAt

\* What was written before a write failed is still read.
LEMMA FailureSends ==
  ASSUME CInv, GotInv, NEW at, StreamAt(at), UNCHANGED vars, WriteFails
  PROVE  StreamAt(at)' /\ sent' = sent
<1> DEFINE R == out \o Unsent
<1>1. /\ wire \in Seq(Byte) /\ wire' = wire /\ out' = <<>> /\ pieces' = <<>>
      /\ writer' = "failed" /\ sent' = sent /\ head' = head
  BY DEF CInv, IInv, TypeOK, WriteFails, vars
<1>2. <<>> \in Seq(Byte) /\ Len(<<>>) = 0
  BY EmptySeq
<1>3. Unread' = wire
  <2>1. Unread' = wire \o (<<>> \o <<>>)
    BY <1>1 DEF Unread, Unsent
  <2>2. <<>> \o <<>> = <<>> /\ wire \o <<>> = wire
    BY <1>1, <1>2, ConcatEmptySeq
  <2> QED
    BY <2>1, <2>2
<1>4. /\ Unread \in Seq(Byte) /\ Len(wire) <= Len(Unread) /\ Len(wire) \in Nat /\ Len(Unread) \in Nat
      /\ \A y \in 1 .. Len(wire) : wire[y] = Unread[y]
  BY UnreadType
<1>5. LayoutOf(at, sent) /\ CodedBy(at, sent, Pos(at), Unread) /\ Len(pieces) <= 3 /\ head <= 2
  BY DEF StreamAt, WriterAt
<1>6. Pos(at)' = Pos(at) /\ Pos(at) \in Nat
  <2>1. Pos(at)' = Pos(at)
    BY DEF Pos, vars
  <2> QED
    BY <1>5, <2>1, PosNat
<1>7. CodedBy(at, sent, Pos(at), wire)
  BY <1>1, <1>4, <1>5, <1>6, SentRow, CodedStart
<1>8. Written(at)' <= at[Len(sent) + 1]
  <2>1. Written(at) <= at[Len(sent) + 1]
    BY WrittenBound
  <2>2. at[Len(sent) + 1] \in Nat
    BY <1>5, PosNat
  <2>3. Written(at) = Pos(at) + Len(Unread) /\ Written(at)' = Pos(at) + Len(wire)
    BY <1>3, <1>6 DEF Written
  <2> DEFINE e == at[Len(sent) + 1]
             r == Pos(at)
  <2>4. e \in Nat /\ r \in Nat /\ r + Len(Unread) <= e
    BY <1>6, <2>1, <2>2, <2>3
  <2> HIDE DEF e, r
  <2>5. r + Len(wire) <= e
    BY <1>4, <2>4
  <2> QED
    BY <2>3, <2>5 DEF e, r
<1>9. WriterAt(at)'
  BY <1>1, <1>2, <1>5, <1>8 DEF WriterAt
<1> QED
  BY <1>1, <1>3, <1>5, <1>6, <1>7, <1>9 DEF StreamAt

LEMMA DropOfDrop ==
  ASSUME NEW s \in Seq(Byte), NEW m \in 0 .. Len(s), NEW n \in 0 .. Len(s) - m
  PROVE  /\ Drop(s, m) \in Seq(Byte) /\ Len(Drop(s, m)) = Len(s) - m
         /\ Drop(Drop(s, m), n) = Drop(s, m + n)
         /\ SubSeq(Drop(s, m), 1, n) = SubSeq(s, m + 1, m + n)
<1> DEFINE d == Len(s) - m
           e == d - n
           t == Drop(s, m)
           u == Drop(s, m + n)
<1>1. Len(s) \in Nat /\ m \in Nat /\ n \in Nat /\ d \in Nat /\ e \in Nat
  BY LenProperties
<1>2. /\ m + d <= Len(s) /\ t = SubSeq(s, m + 1, m + d)
      /\ (m + n) + e <= Len(s) /\ u = SubSeq(s, (m + n) + 1, (m + n) + e)
      /\ n + e = d /\ m + n <= Len(s)
  BY <1>1 DEF Drop
<1> HIDE DEF d, e, t, u
<1>3. t \in Seq(Byte) /\ Len(t) = d /\ \A y \in 1 .. d : t[y] = s[m + y]
  BY <1>1, <1>2, Slice
<1>4. u \in Seq(Byte) /\ Len(u) = e /\ \A y \in 1 .. e : u[y] = s[(m + n) + y]
  BY <1>1, <1>2, Slice
<1>5. Drop(t, n) = u
  <2> DEFINE v == SubSeq(t, n + 1, n + e)
  <2>1. v \in Seq(Byte) /\ Len(v) = e /\ \A y \in 1 .. e : v[y] = t[n + y]
    BY <1>1, <1>2, <1>3, Slice
  <2>2. Drop(t, n) = v
    BY <1>2, <1>3 DEF Drop
  <2> HIDE DEF v
  <2>3. \A y \in 1 .. e : n + y \in 1 .. d /\ m + (n + y) = (m + n) + y
    BY <1>1, <1>2
  <2>4. \A y \in 1 .. e : v[y] = u[y]
    BY <1>3, <1>4, <2>1, <2>3
  <2> QED
    BY <1>4, <2>1, <2>2, <2>4, SeqEqual
<1>6. SubSeq(t, 1, n) = SubSeq(s, m + 1, m + n)
  <2> DEFINE v == SubSeq(t, 0 + 1, 0 + n)
             w == SubSeq(s, m + 1, m + n)
  <2>1. v \in Seq(Byte) /\ Len(v) = n /\ \A y \in 1 .. n : v[y] = t[0 + y]
    BY <1>1, <1>2, <1>3, Slice
  <2>2. w \in Seq(Byte) /\ Len(w) = n /\ \A y \in 1 .. n : w[y] = s[m + y]
    BY <1>1, <1>2, Slice
  <2>3. \A y \in 1 .. n : y \in 1 .. d /\ 0 + y = y
    BY <1>1, <1>2
  <2>4. SubSeq(t, 1, n) = v
    BY <1>1
  <2> HIDE DEF v, w
  <2>5. \A y \in 1 .. n : v[y] = w[y]
    BY <1>3, <2>1, <2>2, <2>3
  <2>6. v = w
    BY <2>1, <2>2, <2>5, SeqEqual
  <2> QED
    BY <2>4, <2>6 DEF w
<1> QED
  BY <1>3, <1>5, <1>6 DEF t, u, d

LEMMA TwoJoined ==
  ASSUME NEW a \in Seq(Byte), NEW b \in Seq(Byte)
  PROVE  Joined(<<a, b>>) = a \o b
<1>1. Piece(<<a, b>>, 1) = a /\ Piece(<<a, b>>, 2) = b /\ Piece(<<a, b>>, 3) = <<>>
  BY DEF Piece
<1>2. b \o <<>> = b
  BY ConcatEmptySeq
<1> QED
  BY <1>1, <1>2 DEF Joined

\* Frame hands net_write_buff the next frame of the packet.
LEMMA FramePieces ==
  ASSUME CInv, NEW at, StreamAt(at), Frame, NEW p, p = sent[Len(sent)]
  PROVE  /\ p \in Seq(Byte) /\ Before(nr) <= Len(p) /\ nr \in Nat
         /\ Least(Len(rest), MAX_PACKET_LENGTH) = FrameLen(Len(p), nr)
         /\ Joined(pieces') = FrameOf(p, nr) /\ Len(pieces') <= 3
         /\ rest' = Drop(p, Before(nr) + FrameLen(Len(p), nr))
<1> DEFINE b == Before(nr)
           m == FrameLen(Len(p), nr)
           h == Header(m, nr)
           x == SubSeq(rest, 1, m)
<1>1. /\ writer = "frame" /\ Len(sent) > 0 /\ b <= Len(p) /\ rest = Drop(p, b) /\ nr \in Nat
      /\ head \in Nat /\ head <= 2 /\ head <= Len(rest)
  BY DEF StreamAt, WriterAt, Frame, CInv, WTypeOK, WriteInv
<1>2. p \in Seq(Byte) /\ Len(p) \in Nat
  <2>1. Len(sent) \in 1 .. Len(sent) /\ sent \in PacketSeq
    BY <1>1, SentRow
  <2> QED
    BY <2>1, SentPacket
<1>3. b \in Nat /\ m \in Nat /\ m <= MAX_PACKET_LENGTH /\ b + m <= Len(p)
  BY <1>1, <1>2, BeforeNext, FrameLenBounds
<1>4. /\ rest \in Seq(Byte) /\ Len(rest) = Len(p) - b
      /\ Drop(rest, m) = Drop(p, b + m) /\ x = SubSeq(p, b + 1, b + m)
  <2> HIDE DEF b, m
  <2>1. b \in 0 .. Len(p) /\ m \in 0 .. Len(p) - b
    BY <1>1, <1>2, <1>3
  <2> QED
    BY <1>1, <1>2, <2>1, DropOfDrop
<1>5. Least(Len(rest), MAX_PACKET_LENGTH) = m
  BY <1>4 DEF FrameLen
<1>6. FrameOf(p, nr) = h \o x
  BY <1>4 DEF FrameOf
<1>7. h \in Seq(Byte)
  BY <1>1, <1>3, HeaderParts
<1>8. /\ pieces' = IF head = 0
                   THEN << h, x >>
                   ELSE << h \o SubSeq(rest, 1, 1), SubSeq(rest, 2, head), SubSeq(rest, head + 1, m) >>
      /\ rest' = Drop(rest, m)
  BY <1>5 DEF Frame
<1>9. m <= Len(rest) /\ Len(rest) \in Nat /\ head <= m
  <2>1. m <= Len(rest) /\ Len(rest) \in Nat /\ (m = Len(rest) \/ m = MAX_PACKET_LENGTH)
    <3> HIDE DEF b
    <3> QED
      BY <1>1, <1>2, <1>3, <1>4, <1>5, MaxFrameLarge, SMTT(40) DEF Least
  <2> QED
    BY <1>1, <2>1, MaxFrameLarge
<1> HIDE DEF b, m, h
<1>10. Joined(pieces') = FrameOf(p, nr) /\ Len(pieces') <= 3
  <2>1. CASE head = 0
    <3>1. x \in Seq(Byte)
      BY <1>3, <1>4, <1>9, Cut
    <3>2. Joined(<< h, x >>) = h \o x
      BY <1>7, <3>1, TwoJoined
    <3>3. pieces' = << h, x >>
      BY <1>8, <2>1
    <3> HIDE DEF x
    <3>4. Len(pieces') = 2
      BY <3>3
    <3> QED
      BY <1>6, <3>2, <3>3, <3>4 DEF Joined, Piece
  <2>2. CASE head # 0
    <3> DEFINE c == SubSeq(rest, 1, 1)
               d == SubSeq(rest, 2, head)
               e == SubSeq(rest, head + 1, m)
    <3>1. head \in Nat /\ head >= 1 /\ head <= m /\ m <= Len(rest) /\ Len(rest) \in Nat /\ m \in Nat
      BY <1>1, <1>3, <1>9, <2>2
    <3>2. c \in Seq(Byte) /\ d \in Seq(Byte) /\ e \in Seq(Byte)
      <4>1. /\ 1 \in Nat \ {0} /\ 1 \in 0 .. Len(rest) /\ 2 \in Nat \ {0} /\ head \in 0 .. Len(rest)
            /\ head + 1 \in Nat \ {0} /\ m \in 0 .. Len(rest)
        BY <3>1
      <4> QED
        BY <1>4, <4>1, Stretch
    <3>3. d \o e = SubSeq(rest, 2, m)
      <4>1. 2 \in 1 .. Len(rest) + 1 /\ head \in 2 - 1 .. Len(rest) /\ m \in head .. Len(rest)
        BY <3>1
      <4> QED
        BY <1>4, <4>1, ConcatAdjacentSubSeq
    <3>4. c \o SubSeq(rest, 2, m) = x
      <4>1. 1 \in 1 .. Len(rest) + 1 /\ 1 \in 1 - 1 .. Len(rest) /\ m \in 1 .. Len(rest) /\ 1 + 1 = 2
        BY <3>1
      <4>2. SubSeq(rest, 1, 1) \o SubSeq(rest, 1 + 1, m) = SubSeq(rest, 1, m)
        BY <1>4, <4>1, ConcatAdjacentSubSeq
      <4> QED
        BY <4>1, <4>2
    <3>5. pieces' = << h \o c, d, e >>
      BY <1>8, <2>2
    <3> HIDE DEF c, d, e, x
    <3>6. d \o e \in Seq(Byte)
      BY <3>2, ConcatProperties
    <3>7. (h \o c) \o (d \o e) = h \o (c \o (d \o e))
      BY <1>7, <3>2, <3>6, Associative
    <3>8. Len(pieces') = 3
      BY <3>5
    <3> DEFINE g == h \o c
    <3>9. pieces' = << g, d, e >> /\ g \o (d \o e) = h \o (c \o (d \o e))
      BY <3>5, <3>7
    <3> HIDE DEF g
    <3>10. Joined(pieces') = g \o (d \o e)
      <4>1. Piece(pieces', 1) = g /\ Piece(pieces', 2) = d /\ Piece(pieces', 3) = e
        BY <3>8, <3>9 DEF Piece
      <4> QED
        BY <4>1 DEF Joined
    <3>11. Joined(pieces') = h \o x
      BY <3>3, <3>4, <3>9, <3>10
    <3> QED
      BY <1>6, <3>8, <3>11
  <2> QED
    BY <2>1, <2>2
<1> QED
  BY <1>1, <1>2, <1>4, <1>5, <1>8, <1>10 DEF b, m

LEMMA FrameSends ==
  ASSUME CInv, GotInv, NEW at, StreamAt(at), UNCHANGED vars, Frame
  PROVE  StreamAt(at)' /\ sent' = sent
<1> DEFINE n == Len(sent)
           p == sent[n]
           m == FrameLen(Len(p), nr)
           f == FrameOf(p, nr)
<1>1. /\ writer = "frame" /\ n > 0 /\ pieces = <<>> /\ out = <<>>
      /\ Written(at) = Place(at, n, nr) /\ LayoutOf(at, sent)
      /\ CodedBy(at, sent, Pos(at), Unread)
  BY DEF StreamAt, WriterAt, Frame
<1>2. /\ p \in Seq(Byte) /\ Before(nr) <= Len(p) /\ nr \in Nat
      /\ Least(Len(rest), MAX_PACKET_LENGTH) = m
      /\ Joined(pieces') = f /\ Len(pieces') <= 3
      /\ rest' = Drop(p, Before(nr) + m)
  BY FramePieces
<1>3. n \in 1 .. Len(sent) /\ n \in Nat /\ sent \in PacketSeq
  BY <1>1, SentRow
<1>4. /\ sent' = sent /\ wbuf' = wbuf /\ out' = <<>> /\ wire' = wire /\ nr' = nr + 1 /\ head' = 0
      /\ writer' = IF m < MAX_PACKET_LENGTH THEN "flush" ELSE "frame"
  BY <1>2 DEF Frame, vars
<1>5. f \in Seq(Byte) /\ Len(f) = 4 + m /\ m \in Nat /\ Len(p) \in Nat
  BY <1>2, FrameParts, FrameLenBounds, LenProperties DEF NET_HEADER_SIZE
<1> HIDE DEF f, m
<1>6. Unread' = Unread \o f
  <2>1. wire \in Seq(Byte) /\ wbuf \in Seq(Byte)
    BY DEF CInv, WTypeOK, IInv, TypeOK
  <2>2. Unread' = wire \o (<<>> \o (wbuf \o f))
    BY <1>2, <1>4 DEF Unread, Unsent, Joined
  <2>3. Unread = wire \o (<<>> \o (wbuf \o <<>>))
    BY <1>1, NothingJoined DEF Unread, Unsent
  <2>4. wbuf \o f \in Seq(Byte) /\ wbuf \o <<>> = wbuf /\ <<>> \o wbuf = wbuf
    BY <1>5, <2>1, ConcatProperties, ConcatEmptySeq
  <2>5. <<>> \o (wbuf \o f) = wbuf \o f
    BY <2>4, ConcatEmptySeq
  <2>6. (wire \o wbuf) \o f = wire \o (wbuf \o f)
    BY <1>5, <2>1, Associative
  <2> QED
    BY <2>2, <2>3, <2>4, <2>5, <2>6
<1>7. Pos(at)' = Pos(at) /\ Pos(at) \in Nat
  <2>1. Pos(at)' = Pos(at)
    BY DEF Pos, vars
  <2> QED
    BY <1>1, <2>1, PosNat
<1>8. CodedBy(at, sent, Pos(at), Unread \o f)
  <2>1. Unread \in Seq(Byte) /\ Pos(at) + Len(Unread) = Place(at, n, nr)
    BY <1>1, UnreadType DEF Written
  <2> QED
    BY <1>1, <1>2, <1>3, <1>7, <2>1, CodedFrame DEF f
<1>9. Written(at)' = Place(at, n, nr) + (4 + m) /\ Place(at, n, nr) \in Nat
  <2>1. Unread \in Seq(Byte) /\ Len(Unread) \in Nat
    BY UnreadType
  <2>2. Len(Unread \o f) = Len(Unread) + Len(f)
    BY <1>5, <2>1, ConcatProperties
  <2>3. Written(at)' = Pos(at) + Len(Unread \o f) /\ Written(at) = Pos(at) + Len(Unread)
    BY <1>6, <1>7 DEF Written
  <2>4. Place(at, n, nr) \in Nat
    BY <1>1, <1>2, <1>3, Places
  <2> QED
    BY <1>1, <1>5, <1>7, <2>1, <2>2, <2>3, <2>4
<1>10. /\ Place(at, n, nr) = at[n] + (Before(nr) + 4 * nr) /\ at[n] \in Nat /\ Before(nr) \in Nat
       /\ Before(nr + 1) = Before(nr) + MAX_PACKET_LENGTH
       /\ Place(at, n, nr + 1) = at[n] + (Before(nr + 1) + 4 * (nr + 1))
       /\ MAX_PACKET_LENGTH \in Nat
  <2>1. at[n] \in Nat
    BY <1>1, <1>2, <1>3, Places
  <2> QED
    BY <1>2, <2>1, BeforeNext, MaxFrameLarge DEF Place, FrameAt, NET_HEADER_SIZE
<1>11. /\ m <= MAX_PACKET_LENGTH /\ Before(nr) + m <= Len(p)
       /\ m < MAX_PACKET_LENGTH =>
            Before(nr) + m = Len(p) /\ Len(p) < Before(nr) + MAX_PACKET_LENGTH
  BY <1>2, <1>5, FrameLenBounds DEF m
<1>12. CASE m < MAX_PACKET_LENGTH
  <2>1. Size(p) = Len(p) + 4 * (nr + 1)
    BY <1>2, <1>11, <1>12, SizeAtLast DEF NET_HEADER_SIZE
  <2>2. at[n + 1] = at[n] + Size(p)
    BY <1>1, <1>3 DEF LayoutOf
  <2>3. Written(at)' = at[n + 1]
    <3> DEFINE a == at[n]
               c == Before(nr)
    <3>1. /\ Written(at)' = a + (c + 4 * nr) + (4 + m) /\ a \in Nat /\ c \in Nat
          /\ c + m = Len(p) /\ at[n + 1] = a + (Len(p) + 4 * (nr + 1))
      BY <1>9, <1>10, <1>11, <1>12, <2>1, <2>2
    <3> HIDE DEF a, c, n
    <3>2. a + (c + 4 * nr) + (4 + m) = a + ((c + m) + 4 * (nr + 1))
      BY <1>2, <1>5, <3>1
    <3> QED
      BY <3>1, <3>2
  <2>4. writer' = "flush"
    BY <1>4, <1>12
  <2>5. WriterAt(at)'
    BY <1>2, <1>4, <2>3, <2>4 DEF WriterAt
  <2> QED
    BY <1>1, <1>4, <1>6, <1>7, <1>8, <2>5 DEF StreamAt
<1>13. CASE m = MAX_PACKET_LENGTH
  <2>1. Written(at)' = Place(at, n, nr + 1)
    <3> DEFINE a == at[n]
               c == Before(nr)
    <3>1. /\ Written(at)' = a + (c + 4 * nr) + (4 + m) /\ a \in Nat /\ c \in Nat
          /\ Place(at, n, nr + 1) = a + ((c + m) + 4 * (nr + 1))
      BY <1>9, <1>10, <1>13
    <3> HIDE DEF a, c, n
    <3>2. a + (c + 4 * nr) + (4 + m) = a + ((c + m) + 4 * (nr + 1))
      BY <1>2, <1>5, <3>1
    <3> QED
      BY <3>1, <3>2
  <2>2. Before(nr + 1) <= Len(p) /\ rest' = Drop(p, Before(nr + 1))
    BY <1>2, <1>10, <1>11, <1>13
  <2>3. writer' = "frame"
    BY <1>4, <1>10, <1>13
  <2>4. Written(at)' = Place(at, Len(sent), nr)'
    BY <1>4, <2>1 DEF Place, FrameAt, Before
  <2>5. Before(nr)' = Before(nr + 1)
    BY <1>4 DEF Before
  <2>6. WriterAt(at)'
    BY <1>1, <1>2, <1>4, <2>2, <2>3, <2>4, <2>5 DEF WriterAt
  <2> QED
    BY <1>1, <1>4, <1>6, <1>7, <1>8, <2>6 DEF StreamAt
<1> QED
  BY <1>5, <1>10, <1>11, <1>12, <1>13

\* A packet that is begun changes nothing of those before it.
LEMMA SentMore ==
  ASSUME CInv, GotInv, UNCHANGED vars, NEW p \in Seq(Byte), sent' = Append(sent, p)
  PROVE  /\ GotInv' /\ Len(sent') = Len(sent) + 1 /\ Len(sent) \in Nat /\ Len(got) \in Nat
         /\ sent' \in PacketSeq /\ sent'[Len(sent) + 1] = p
         /\ Len(got) < Len(sent) => Incoming' = Incoming
<1>1. /\ Len(sent') = Len(sent) + 1 /\ \A i \in 1 .. Len(sent) : sent'[i] = sent[i]
      /\ sent'[Len(sent) + 1] = p /\ sent' \in PacketSeq
  BY SentRow, AppendProperties DEF PacketSeq
<1>2. Len(sent) \in Nat /\ Len(got) \in Nat /\ got' = got /\ Len(got) <= Len(sent)
  BY SentRow DEF vars, GotInv
<1>3. Len(got) < Len(sent) => Incoming' = Incoming
  BY <1>1, <1>2 DEF Incoming
<1>4. \A i \in 1 .. Len(got) : got'[i] = Seen(sent'[i])
  BY <1>1, <1>2 DEF GotInv
<1>5. GotInv'
  BY <1>1, <1>2, <1>4 DEF GotInv, Seen
<1> QED
  BY <1>1, <1>2, <1>3, <1>5

\* Where the reader stands when a packet is begun.
LEMMA BegunReader ==
  ASSUME CInv, GotInv, NEW at, StreamAt(at), ReaderAt, writer = "idle", UNCHANGED vars,
         NEW p \in Seq(Byte), sent' = Append(sent, p)
  PROVE  ReaderAt'
<1>1. /\ Len(sent') = Len(sent) + 1 /\ Len(sent) \in Nat /\ Len(got) \in Nat
      /\ sent'[Len(sent) + 1] = p
      /\ Len(got) < Len(sent) => Incoming' = Incoming
  BY SentMore
<1>2. /\ UNCHANGED <<buff, where_b, remain, pkt_nr, state, got>>
      /\ Len(buff) \in Nat /\ pkt_nr \in Nat /\ where_b \in Nat /\ Len(p) \in Nat
      /\ Len(got) <= Len(sent)
  BY LenProperties DEF vars, CInv, IInv, TypeOK, GotInv
<1>3. CASE Len(got) < Len(sent)
  <2>1. Incoming' = Incoming
    BY <1>1, <1>3
  <2>2. InHeader(Incoming) => InHeader(Incoming)'
    BY <1>2, <2>1 DEF InHeader, FrameOf
  <2>3. InBody(Incoming) => InBody(Incoming)'
    BY <1>2, <2>1 DEF InBody, Before, FrameLen
  <2>4. InPacket(Incoming) => InPacket(Incoming)'
    BY <1>2, <2>1 DEF InPacket, Size
  <2>5. Before(pkt_nr)' = Before(pkt_nr) /\ Len(got') < Len(sent')
    BY <1>1, <1>2, <1>3 DEF Before
  <2> QED
    BY <1>2, <1>3, <2>2, <2>3, <2>4, <2>5 DEF ReaderAt
<1>4. CASE Len(got) = Len(sent)
  <2>1. state # "body" /\ state # "packet"
    BY <1>1, <1>4 DEF ReaderAt
  <2>2. CASE state = "header"
    <3>1. where_b = Before(pkt_nr) /\ where_b <= Len(buff)
      BY <2>2 DEF ReaderAt
    <3> DEFINE a == at[Len(got) + 1]
    <3>2. a \in Nat /\ Len(Unread) \in Nat /\ Pos(at) = a + (4 * pkt_nr + Len(buff))
          /\ Pos(at) + Len(Unread) = a
      BY <1>4, <2>2, PosNat, UnreadType DEF StreamAt, WriterAt, Written, Pos, NET_HEADER_SIZE
    <3> HIDE DEF a
    <3>3. Len(buff) = 0
      BY <1>2, <3>2
    <3>4. where_b = 0 /\ Len(buff) - where_b = 0
      BY <1>2, <3>1, <3>3
    <3>5. Incoming' = p
      BY <1>1, <1>2, <1>4 DEF Incoming
    <3>6. InHeader(Incoming)'
      BY <1>2, <3>4, <3>5 DEF InHeader
    <3> QED
      BY <1>2, <2>2, <3>1, <3>6 DEF ReaderAt, Before
  <2> QED
    BY <1>2, <2>1, <2>2 DEF ReaderAt
<1> QED
  BY <1>1, <1>2, <1>3, <1>4

\* The packet is laid out behind those before it.
LEMMA BegunStream ==
  ASSUME CInv, GotInv, NEW at, StreamAt(at), writer = "idle", UNCHANGED vars,
         NEW p \in Seq(Byte), sent' = Append(sent, p),
         NEW b, b = Extended(at, sent, p)
  PROVE  /\ LayoutOf(b, sent') /\ CodedBy(b, sent', Pos(at), Unread)
         /\ Pos(b)' = Pos(at) /\ Pos(at) \in Nat
         /\ Pos(at) + Len(Unread) = b[Len(sent) + 1] /\ b[Len(sent) + 1] \in Nat
         /\ b[Len(sent) + 2] = b[Len(sent) + 1] + Size(p)
<1>1. LayoutOf(at, sent) /\ CodedBy(at, sent, Pos(at), Unread) /\ Written(at) = at[Len(sent) + 1]
  BY DEF StreamAt, WriterAt
<1>2. sent \in PacketSeq /\ Unread \in Seq(Byte) /\ Pos(at) \in Nat /\ at[Len(sent) + 1] \in Nat
  BY <1>1, SentRow, UnreadType, PosNat
<1>3. /\ LayoutOf(b, sent') /\ \A i \in 1 .. Len(sent) + 1 : b[i] = at[i]
      /\ b[Len(sent) + 2] = at[Len(sent) + 1] + Size(p)
  BY <1>1, <1>2, LayoutExtended
<1>4. Pos(at) + Len(Unread) = at[Len(sent) + 1]
  BY <1>1 DEF Written
<1>5. CodedBy(b, sent', Pos(at), Unread)
  BY <1>1, <1>2, <1>4, CodedExtended
<1>6. b[Len(sent) + 1] = at[Len(sent) + 1] /\ b[Len(got) + 1] = at[Len(got) + 1]
  <2>1. Len(sent) + 1 \in 1 .. Len(sent) + 1 /\ Len(got) + 1 \in 1 .. Len(sent) + 1
    BY SentRow DEF GotInv
  <2> QED
    BY <1>3, <2>1
<1>7. Pos(b)' = Pos(at)
  BY <1>6 DEF Pos, vars
<1> QED
  BY <1>2, <1>3, <1>4, <1>5, <1>6, <1>7

LEMMA BeginSends ==
  ASSUME CInv, GotInv, NEW at, StreamAt(at), ReaderAt, UNCHANGED vars, Begin
  PROVE  \E b : (StreamAt(b) /\ ReaderAt)'
<1>1. PICK p \in Packets : sent' = Append(sent, p) /\ rest' = p
  BY DEF Begin
<1>2. /\ writer = "idle" /\ out = <<>> /\ out' = <<>> /\ pieces' = pieces /\ wbuf' = <<>>
      /\ nr' = 0 /\ writer' = "frame" /\ head' <= 2 /\ wire' = wire
      /\ pieces = <<>> /\ wbuf = <<>>
  BY DEF Begin, vars, StreamAt, WriterAt
<1>3. p \in Seq(Byte) /\ Len(p) \in Nat
  BY ChannelAssumption, LenProperties
<1>4. PICK b : b = Extended(at, sent, p)
  OBVIOUS
<1>5. /\ LayoutOf(b, sent') /\ CodedBy(b, sent', Pos(at), Unread)
      /\ Pos(b)' = Pos(at) /\ Pos(at) + Len(Unread) = b[Len(sent) + 1] /\ b[Len(sent) + 1] \in Nat
  BY <1>1, <1>2, <1>3, <1>4, BegunStream
<1>6. ReaderAt'
  BY <1>1, <1>2, <1>3, BegunReader
<1>7. Unread' = Unread
  BY <1>2 DEF Unread, Unsent, Joined, Piece
<1>8. Written(b)' = b[Len(sent) + 1]
  BY <1>5, <1>7 DEF Written
<1>9. Len(sent') = Len(sent) + 1 /\ Len(sent) \in Nat /\ sent'[Len(sent) + 1] = p
  BY <1>1, <1>3, SentMore
<1>10. Before(0) = 0 /\ FrameAt(0) = 0
  BY BeforeNext DEF FrameAt, NET_HEADER_SIZE
<1>11. Drop(p, 0) = p
  BY <1>3, SubSeqFull DEF Drop
<1>12. Place(b, Len(sent), nr)' = b[Len(sent) + 1]
  <2>1. Place(b, Len(sent), nr)' = b[Len(sent) + 1] + FrameAt(0)
    BY <1>2, <1>9 DEF Place, FrameAt, Before
  <2> QED
    BY <1>5, <1>10, <2>1
<1>13. Before(nr)' = 0
  BY <1>2, <1>10 DEF Before
<1>14. Len(pieces') <= 3
  BY <1>2, EmptySeq
<1>15. WriterAt(b)'
  BY <1>1, <1>2, <1>3, <1>8, <1>9, <1>11, <1>12, <1>13, <1>14 DEF WriterAt
<1>16. StreamAt(b)'
  BY <1>5, <1>7, <1>15 DEF StreamAt
<1> QED
  BY <1>6, <1>16

\* StartAlarm writes the one frame of its packet.
LEMMA StartAlarmSends ==
  ASSUME CInv, GotInv, NEW at, StreamAt(at), ReaderAt, UNCHANGED vars, StartAlarm, Stray = 0
  PROVE  \E b : (StreamAt(b) /\ ReaderAt)'
<1>1. PICK p \in Packets : /\ Len(p) \in 1 .. MAX_PACKET_LENGTH - 1
                           /\ sent' = Append(sent, p)
                           /\ out' = Header(Len(p), 0) \o p \o [i \in 1 .. Stray |-> 0]
  BY DEF StartAlarm
<1>2. /\ writer = "idle" /\ out = <<>> /\ pieces' = pieces /\ wbuf' = wbuf
      /\ writer' = writer /\ head' = head /\ wire' = wire
      /\ pieces = <<>> /\ wbuf = <<>> /\ head <= 2
  BY DEF StartAlarm, vars, StreamAt, WriterAt
<1>3. p \in Seq(Byte) /\ Len(p) \in Nat
  BY ChannelAssumption, LenProperties
<1>4. PICK b : b = Extended(at, sent, p)
  OBVIOUS
<1>5. /\ LayoutOf(b, sent') /\ CodedBy(b, sent', Pos(at), Unread)
      /\ Pos(b)' = Pos(at) /\ Pos(at) + Len(Unread) = b[Len(sent) + 1] /\ b[Len(sent) + 1] \in Nat
      /\ b[Len(sent) + 2] = b[Len(sent) + 1] + Size(p) /\ Pos(at) \in Nat
  BY <1>1, <1>2, <1>3, <1>4, BegunStream
<1>6. ReaderAt'
  BY <1>1, <1>2, <1>3, BegunReader
<1>7. /\ Len(sent') = Len(sent) + 1 /\ Len(sent) \in Nat /\ sent'[Len(sent) + 1] = p
      /\ sent' \in PacketSeq
  BY <1>1, <1>3, SentMore
<1>8. Before(0) = 0 /\ FrameAt(0) = 0
  BY BeforeNext DEF FrameAt, NET_HEADER_SIZE
<1> DEFINE f == FrameOf(p, 0)
<1>9. out' = f /\ f \in Seq(Byte) /\ Len(f) = 4 + Len(p)
  <2>1. FrameLen(Len(p), 0) = Len(p)
    BY <1>1, <1>3, <1>8, MaxFrameLarge DEF FrameLen, Least
  <2>2. SubSeq(p, Before(0) + 1, Before(0) + Len(p)) = p
    <3>1. Before(0) + 1 = 1 /\ Before(0) + Len(p) = Len(p)
      BY <1>3, <1>8
    <3> QED
      BY <1>3, <3>1, SubSeqFull
  <2>3. f = Header(Len(p), 0) \o p
    BY <2>1, <2>2 DEF FrameOf
  <2>4. Before(0) <= Len(p)
    BY <1>3, <1>8
  <2>5. f \in Seq(Byte) /\ Len(f) = 4 + Len(p)
    BY <1>3, <2>1, <2>4, FrameParts DEF NET_HEADER_SIZE
  <2>6. [i \in 1 .. Stray |-> 0] = <<>>
    OBVIOUS
  <2>7. out' = f \o <<>>
    BY <1>1, <2>3, <2>6
  <2> HIDE DEF f
  <2>8. f \o <<>> = f
    BY <2>5, ConcatEmptySeq
  <2> QED
    BY <2>5, <2>7, <2>8
<1> HIDE DEF f
<1>10. Unread' = Unread \o f
  <2>1. wire \in Seq(Byte) /\ <<>> \in Seq(Byte)
    BY EmptySeq DEF CInv, IInv, TypeOK
  <2>2. Joined(pieces) = <<>> /\ Joined(pieces)' = <<>>
    BY <1>2, NothingJoined DEF Joined, Piece
  <2>3. Unread = wire \o (<<>> \o (<<>> \o <<>>)) /\ Unread' = wire \o (f \o (<<>> \o <<>>))
    BY <1>2, <1>9, <2>2 DEF Unread, Unsent
  <2>4. <<>> \o <<>> = <<>> /\ f \o <<>> = f /\ wire \o <<>> = wire
    BY <1>9, <2>1, ConcatEmptySeq
  <2> QED
    BY <2>3, <2>4
<1>11. CodedBy(b, sent', Pos(at), Unread \o f)
  <2> DEFINE n == Len(sent')
  <2>1. n \in 1 .. Len(sent') /\ n = Len(sent) + 1 /\ sent'[n] = p
    BY <1>7
  <2>2. Place(b, n, 0) = b[Len(sent) + 1] /\ Before(0) <= Len(sent'[n])
    BY <1>3, <1>5, <1>8, <2>1 DEF Place
  <2>3. Pos(at) + Len(Unread) = Place(b, n, 0) /\ Unread \in Seq(Byte)
    BY <1>5, <2>2, UnreadType
  <2>4. 0 \in Nat /\ n = Len(sent')
    OBVIOUS
  <2> HIDE DEF n
  <2>5. CodedBy(b, sent', Pos(at), Unread \o FrameOf(sent'[n], 0))
    BY <1>5, <1>7, <2>1, <2>2, <2>3, <2>4, CodedFrame
  <2> QED
    BY <2>1, <2>5 DEF f
<1>12. Written(b)' = b[Len(sent) + 2]
  <2>1. Unread \in Seq(Byte) /\ Len(Unread) \in Nat
    BY UnreadType
  <2>2. Len(Unread \o f) = Len(Unread) + Len(f)
    BY <1>9, <2>1, ConcatProperties
  <2>3. Written(b)' = Pos(at) + Len(Unread \o f)
    BY <1>5, <1>10 DEF Written
  <2>4. Size(p) = Len(p) + 4 * (0 + 1)
    <3>1. Before(0) <= Len(p) /\ Len(p) < Before(0) + MAX_PACKET_LENGTH
      BY <1>1, <1>3, <1>8, MaxFrameLarge
    <3> QED
      BY <1>3, <3>1, SizeAtLast DEF NET_HEADER_SIZE
  <2> DEFINE c == b[Len(sent) + 1]
  <2>5. c \in Nat /\ Pos(at) + Len(Unread) = c /\ b[Len(sent) + 2] = c + Size(p)
    BY <1>5
  <2> HIDE DEF c
  <2> QED
    BY <1>3, <1>5, <1>9, <2>1, <2>2, <2>3, <2>4, <2>5
<1>13. Written(b)' = b[Len(sent) + 1]'
  <2>1. (Len(sent) + 1)' = Len(sent) + 2
    BY <1>7
  <2> QED
    BY <1>12, <2>1
<1>14. Len(pieces') <= 3
  BY <1>2, EmptySeq
<1>15. WriterAt(b)'
  BY <1>2, <1>13, <1>14 DEF WriterAt
<1>16. StreamAt(b)'
  BY <1>5, <1>10, <1>11, <1>15 DEF StreamAt
<1> QED
  BY <1>6, <1>16

-----------------------------------------------------------------------------
\* The writing functions of the library, and ClientTest's StartAlarm built with
\* encryption, announce all the bytes they send.  Built without, StartAlarm sends a NUL
\* that no length counts (clientTest.cc:209, 217), and the reader takes it for the first
\* byte of the next header.
Framed == Stray = 0 \/ "StartAlarm" \notin Writers

LEMMA InitSInv == CInit => SInv
<1> SUFFICES ASSUME CInit PROVE SInv
  OBVIOUS
<1>1. /\ sent = <<>> /\ got = <<>> /\ wire = <<>> /\ out = <<>> /\ wbuf = <<>> /\ pieces = <<>>
      /\ state = "command" /\ writer = "idle" /\ head = 0
  BY DEF CInit, Init, WInit
<1>2. Len(<<>>) = 0 /\ <<>> \in Seq(Byte)
  BY EmptySeq
<1>3. GotInv /\ LargeInv /\ InOrder
  BY <1>1, <1>2 DEF GotInv, LargeInv, InOrder
<1>4. PICK at : at = [i \in 1 .. 1 |-> 0]
  OBVIOUS
<1>5. LayoutOf(at, sent)
  BY <1>1, <1>2, <1>4 DEF LayoutOf
<1>6. CodedBy(at, sent, Pos(at), Unread)
  BY <1>1, <1>2 DEF CodedBy
<1>7. Unread = <<>>
  <2>1. Unread = <<>> \o (<<>> \o (<<>> \o <<>>))
    BY <1>1, NothingJoined DEF Unread, Unsent
  <2>2. <<>> \o <<>> = <<>>
    BY <1>2, ConcatEmptySeq
  <2> QED
    BY <2>1, <2>2
<1>8. WriterAt(at)
  BY <1>1, <1>2, <1>4, <1>7 DEF WriterAt, Written, Pos
<1>9. ReaderAt
  BY <1>1 DEF ReaderAt
<1> QED
  BY <1>3, <1>5, <1>6, <1>8, <1>9 DEF SInv, StreamInv, StreamAt

\* Steps of the client after which it has begun no other packet.
LEMMA SameSent ==
  ASSUME SInv, UNCHANGED readerVars, sent' = sent
  PROVE  /\ GotInv' /\ LargeInv' /\ InOrder'
         /\ ReaderAt => ReaderAt'
<1>1. /\ UNCHANGED <<buff, where_b, remain, pkt_nr, state, got, max_packet_size>>
      /\ Incoming' = Incoming
  BY DEF readerVars, Incoming
<1>2. GotInv' /\ LargeInv' /\ InOrder'
  BY <1>1 DEF SInv, GotInv, Seen, LargeInv, InOrder
<1>3. ReaderAt => ReaderAt'
  <2>1. InHeader(Incoming) => InHeader(Incoming)'
    BY <1>1 DEF InHeader, FrameOf
  <2>2. InBody(Incoming) => InBody(Incoming)'
    BY <1>1 DEF InBody, Before, FrameLen
  <2>3. InPacket(Incoming) => InPacket(Incoming)'
    BY <1>1 DEF InPacket, Size
  <2>4. Before(pkt_nr)' = Before(pkt_nr)
    BY <1>1 DEF Before
  <2> QED
    BY <1>1, <2>1, <2>2, <2>3, <2>4 DEF ReaderAt
<1> QED
  BY <1>2, <1>3

LEMMA WriterStep ==
  ASSUME CInv, SInv, Framed, UNCHANGED vars, Begin \/ Sending \/ StartAlarm \/ WriteFails
  PROVE  SInv'
<1>1. UNCHANGED readerVars /\ state' = state
  BY DEF readerVars, vars
<1>2. GotInv
  BY DEF SInv
<1>3. state \notin Closed => \E at : StreamAt(at) /\ ReaderAt
  BY DEF SInv, StreamInv
<1>4. CASE Sending \/ WriteFails
  <2>1. sent' = sent
    BY <1>4 DEF Sending, Frame, Buffer, FillAndSend, SendDirect, Flush, WriteFails
  <2>2. GotInv' /\ LargeInv' /\ InOrder' /\ (ReaderAt => ReaderAt')
    BY <1>1, <2>1, SameSent
  <2>3. \A at : StreamAt(at) => StreamAt(at)'
    BY <1>2, <1>4, FrameSends, BuffSends, FlushSends, FailureSends DEF Sending
  <2>4. StreamInv'
    BY <1>1, <1>3, <2>2, <2>3 DEF StreamInv
  <2> QED
    BY <2>2, <2>4 DEF SInv
<1>5. CASE Begin \/ StartAlarm
  <2>1. PICK p \in Packets : sent' = Append(sent, p)
    BY <1>5 DEF Begin, StartAlarm
  <2>2. p \in Seq(Byte)
    BY ChannelAssumption
  <2>3. /\ GotInv' /\ Len(sent') = Len(sent) + 1 /\ Len(sent) \in Nat /\ Len(got) \in Nat
        /\ Len(got) < Len(sent) => Incoming' = Incoming
    BY <1>2, <2>1, <2>2, SentMore
  <2>4. LargeInv' /\ InOrder'
    BY <1>1, <2>3 DEF SInv, LargeInv, InOrder, vars
  <2>5. \A at : StreamAt(at) /\ ReaderAt => \E b : (StreamAt(b) /\ ReaderAt)'
    <3> SUFFICES ASSUME NEW at, StreamAt(at), ReaderAt
                 PROVE  \E b : (StreamAt(b) /\ ReaderAt)'
      OBVIOUS
    <3>1. CASE Begin
      BY <1>2, <3>1, BeginSends
    <3>2. CASE StartAlarm
      <4>1. Stray = 0
        BY <3>2 DEF Framed, StartAlarm
      <4> QED
        BY <1>2, <3>2, <4>1, StartAlarmSends
    <3> QED
      BY <1>5, <3>1, <3>2
  <2>6. StreamInv'
    BY <1>1, <1>3, <2>5 DEF StreamInv
  <2> QED
    BY <2>3, <2>4, <2>6 DEF SInv
<1> QED
  BY <1>4, <1>5

LEMMA StepSInv == Framed /\ CInv /\ SInv /\ [CNext]_cvars => SInv'
<1> SUFFICES ASSUME Framed, CInv, SInv, [CNext]_cvars PROVE SInv'
  OBVIOUS
<1>1. CASE Reader /\ UNCHANGED wvars
  BY <1>1, ReaderStep
<1>2. CASE (Begin \/ Sending \/ StartAlarm \/ WriteFails) /\ UNCHANGED vars
  BY <1>2, WriterStep
<1>3. ASSUME NEW n \in 1 .. Len(out), Write(n)
      PROVE  SInv'
  <2>1. UNCHANGED readerVars /\ sent' = sent /\ state' = state
    BY <1>3 DEF Write, readerVars
  <2>2. GotInv' /\ LargeInv' /\ InOrder' /\ (ReaderAt => ReaderAt')
    BY <2>1, SameSent
  <2>3. \A at : StreamAt(at) => StreamAt(at)'
    BY <1>3, WriteSends
  <2>4. StreamInv'
    BY <2>1, <2>2, <2>3 DEF SInv, StreamInv
  <2> QED
    BY <2>2, <2>4 DEF SInv
<1>4. CASE UNCHANGED cvars
  <2>1. UNCHANGED readerVars /\ sent' = sent /\ state' = state /\ UNCHANGED wvars /\ wire' = wire
    BY <1>4 DEF cvars, vars, wvars, readerVars
  <2>2. GotInv' /\ LargeInv' /\ InOrder' /\ (ReaderAt => ReaderAt')
    BY <2>1, SameSent
  <2>3. \A at : StreamAt(at) => StreamAt(at)'
    <3> TAKE at
    <3>1. Pos(at)' = Pos(at)
      BY <2>1 DEF Pos, readerVars
    <3> QED
      BY <2>1, <3>1, StreamKept
  <2>4. StreamInv'
    BY <2>1, <2>2, <2>3 DEF SInv, StreamInv
  <2> QED
    BY <2>2, <2>4 DEF SInv
<1> QED
  BY <1>1, <1>2, <1>3, <1>4 DEF CNext

\* The reader is always in step with the bytes the client writes.
THEOREM StreamInductive ==
  ASSUME Framed PROVE Spec => []SInv
<1>1. CInit => SInv
  BY InitSInv
<1>2. CInv /\ SInv /\ [CNext]_cvars => SInv'
  BY StepSInv
<1>3. Spec => []CInv
  BY Inductive
<1> QED
  BY <1>1, <1>2, <1>3, PTL DEF Spec

\* The server never finds a frame out of order in what the library wrote
\* (net_serv.cc:577), however packets are cut and reads are split.
THEOREM InOrderCorrect ==
  ASSUME Framed PROVE Spec => []InOrder
<1>1. SInv => InOrder
  BY DEF SInv
<1> QED
  BY <1>1, StreamInductive, PTL

\* A connection is closed as too large for a packet that is (net_serv.cc:133).
THEOREM RefusesOnlyLargeCorrect ==
  ASSUME Framed PROVE Spec => []RefusesOnlyLarge
<1>1. SInv => RefusesOnlyLarge
  BY DEF SInv, LargeInv, RefusesOnlyLarge, Incoming
<1> QED
  BY <1>1, StreamInductive, PTL

-----------------------------------------------------------------------------
(* The channel implements the queue of packets.                            *)

\* The packets of s as the server sees them.
Shown(s) == [i \in 1 .. Len(s) |-> Seen(s[i])]

LEMMA SeenType == \A p \in Seq(Byte) : Seen(p) \in Seq(Byte)
<1>1. <<0>> \in Seq(Byte)
  BY ReadAssumption DEF Byte
<1> QED
  BY <1>1 DEF Seen, CCOM_SLEEP

LEMMA ShownType ==
  ASSUME NEW s \in PacketSeq
  PROVE  /\ Shown(s) \in PacketSeq /\ Len(Shown(s)) = Len(s)
         /\ \A i \in 1 .. Len(s) : Shown(s)[i] = Seen(s[i])
<1>1. Len(s) \in Nat /\ \A i \in 1 .. Len(s) : s[i] \in Seq(Byte)
  BY ElementOfSeq, LenProperties DEF PacketSeq
<1>2. Shown(s) \in [1 .. Len(s) -> Seq(Byte)]
  BY <1>1, SeenType DEF Shown
<1>3. Shown(s) \in PacketSeq /\ DOMAIN Shown(s) = 1 .. Len(s)
  <2> DEFINE B == Seq(Byte)
             n == Len(s)
             f == Shown(s)
  <2>1. n \in Nat /\ f \in [1 .. n -> B]
    BY <1>1, <1>2
  <2> HIDE DEF B, n, f
  <2>2. f \in UNION {[1 .. k -> B] : k \in Nat}
    BY <2>1
  <2>3. f \in Seq(B) /\ DOMAIN f = 1 .. n
    BY <2>1, <2>2, SeqDef, Zenon
  <2> QED
    BY <2>3 DEF PacketSeq, B, n, f
<1>4. Len(Shown(s)) = Len(s)
  BY <1>1, <1>3, LenProperties DEF PacketSeq
<1> QED
  BY <1>3, <1>4 DEF Shown

LEMMA ShownAppend ==
  ASSUME NEW s \in PacketSeq, NEW p \in Seq(Byte)
  PROVE  Shown(Append(s, p)) = Append(Shown(s), Seen(p))
<1> DEFINE t == Append(s, p)
           u == Append(Shown(s), Seen(p))
<1>1. t \in PacketSeq /\ Len(t) = Len(s) + 1 /\ t[Len(s) + 1] = p
      /\ \A i \in 1 .. Len(s) : t[i] = s[i]
  BY AppendProperties DEF PacketSeq
<1>2. Shown(s) \in PacketSeq /\ Len(Shown(s)) = Len(s)
      /\ \A i \in 1 .. Len(s) : Shown(s)[i] = Seen(s[i])
  BY ShownType
<1>3. u \in PacketSeq /\ Len(u) = Len(s) + 1 /\ u[Len(s) + 1] = Seen(p)
      /\ \A i \in 1 .. Len(s) : u[i] = Shown(s)[i]
  BY <1>2, SeenType, AppendProperties DEF PacketSeq
<1>4. Shown(t) \in PacketSeq /\ Len(Shown(t)) = Len(t)
      /\ \A i \in 1 .. Len(t) : Shown(t)[i] = Seen(t[i])
  BY <1>1, ShownType
<1>5. Len(s) \in Nat
  BY LenProperties DEF PacketSeq
<1> HIDE DEF t, u
<1>6. \A i \in 1 .. Len(u) : Shown(t)[i] = u[i]
  <2> TAKE i \in 1 .. Len(u)
  <2>1. CASE i = Len(s) + 1
    BY <1>1, <1>3, <1>4, <1>5, <2>1
  <2>2. CASE i \in 1 .. Len(s)
    BY <1>1, <1>2, <1>3, <1>4, <1>5, <2>2
  <2> QED
    BY <1>3, <1>5, <2>1, <2>2
<1>7. Shown(t) = u
  BY <1>1, <1>3, <1>4, <1>6, SeqEqual DEF PacketSeq
<1> QED
  BY <1>7 DEF t, u

LEMMA InitQueue == CInit => Queue!Init
<1> SUFFICES ASSUME CInit PROVE Queue!Init
  OBVIOUS
<1>1. sent = <<>> /\ got = <<>> /\ state = "command"
  BY DEF CInit, Init, WInit
<1>2. [i \in 1 .. Len(sent) |-> Seen(sent[i])] = <<>>
  BY <1>1
<1> QED
  BY <1>1, <1>2 DEF Queue!Init, Closed

\* A step of the client sends one packet or none that it has not begun.
LEMMA WriterQueues ==
  ASSUME CInv, UNCHANGED vars, Begin \/ Sending \/ StartAlarm \/ WriteFails
  PROVE  Queue!Send \/ UNCHANGED Queue!vars
<1>1. got' = got /\ state' = state
  BY DEF vars
<1>2. CASE Sending \/ WriteFails
  <2>1. sent' = sent
    BY <1>2 DEF Sending, Frame, Buffer, FillAndSend, SendDirect, Flush, WriteFails
  <2> QED
    BY <1>1, <2>1 DEF Queue!vars, Closed, Seen
<1>3. CASE Begin \/ StartAlarm
  <2>1. PICK p \in Packets : sent' = Append(sent, p)
    BY <1>3 DEF Begin, StartAlarm
  <2>2. p \in Seq(Byte) /\ sent \in PacketSeq
    BY ChannelAssumption, SentRow
  <2>3. Shown(sent') = Append(Shown(sent), Seen(p))
    BY <2>1, <2>2, ShownAppend
  <2>4. [i \in 1 .. Len(sent') |-> Seen(sent'[i])]
           = Append([i \in 1 .. Len(sent) |-> Seen(sent[i])], Seen(p))
    BY <2>3 DEF Shown
  <2>5. Seen(p) \in {Seen(q) : q \in Packets}
    OBVIOUS
  <2>6. (state \notin Closed)' = (state \notin Closed)
    BY <1>1 DEF Closed
  <2>7. Queue!Send
    BY <1>1, <2>4, <2>5, <2>6 DEF Queue!Send, Seen
  <2> QED
    BY <2>7
<1> QED
  BY <1>2, <1>3

\* The reader hands over the next packet, closes, or is on its way to either.
LEMMA ReaderQueues ==
  ASSUME CInv, SInv, Reader, UNCHANGED wvars
  PROVE  Queue!Deliver \/ Queue!Break \/ UNCHANGED Queue!vars
<1>1. sent' = sent
  BY DEF wvars
<1>2. Shown(sent') = Shown(sent)
  BY <1>1
<1>3. [i \in 1 .. Len(sent') |-> Seen(sent'[i])] = [i \in 1 .. Len(sent) |-> Seen(sent[i])]
  BY <1>2 DEF Shown
<1>4. state \notin Closed
  BY DEF Reader, Progress, NewCommand, Read, Reading, OutOfOrder, EmptyFrame, BeginBody,
         TooLarge, NextFrame, LastFrame, Deliver, ReadFails, NoMemory, InSequence, AtHeader,
         AtBody, Closed
<1>5. CASE Deliver
  <2>1. ReaderAt
    BY <1>4 DEF SInv, StreamInv
  <2>2. Len(got) < Len(sent) /\ buff = Incoming
    BY <1>5, <2>1 DEF Deliver, ReaderAt, InPacket
  <2>3. got' = Append(got, Seen(Incoming)) /\ state' \notin Closed
    BY <1>5, <2>2 DEF Deliver, Closed
  <2>4. /\ sent \in PacketSeq /\ Len(sent) \in Nat /\ Len(got) \in Nat
        /\ Len(Shown(sent)) = Len(sent)
        /\ \A i \in 1 .. Len(sent) : Shown(sent)[i] = Seen(sent[i])
    BY SentRow, ShownType
  <2>5. Shown(sent)[Len(got) + 1] = Seen(Incoming) /\ Len(got) < Len(Shown(sent))
    BY <2>2, <2>4 DEF Incoming
  <2>6. /\ Len(got) < Len([i \in 1 .. Len(sent) |-> Seen(sent[i])])
        /\ got' = Append(got, [i \in 1 .. Len(sent) |-> Seen(sent[i])][Len(got) + 1])
    BY <2>3, <2>5 DEF Shown
  <2>7. Queue!Deliver
    BY <1>3, <1>4, <2>3, <2>6 DEF Queue!Deliver
  <2> QED
    BY <2>7
<1>6. CASE ~Deliver
  <2>1. got' = got
    BY <1>6 DEF Reader, Progress, NewCommand, Read, OutOfOrder, EmptyFrame, BeginBody,
                TooLarge, NextFrame, LastFrame, ReadFails, NoMemory, Close
  <2>2. CASE state' \in Closed
    BY <1>3, <1>4, <2>1, <2>2 DEF Queue!Break
  <2>3. CASE state' \notin Closed
    BY <1>3, <1>4, <2>1, <2>3 DEF Queue!vars
  <2> QED
    BY <2>2, <2>3
<1> QED
  BY <1>5, <1>6

LEMMA StepQueues ==
  CInv /\ SInv /\ [CNext]_cvars => [Queue!Next]_Queue!vars
<1> SUFFICES ASSUME CInv, SInv, [CNext]_cvars PROVE [Queue!Next]_Queue!vars
  OBVIOUS
<1>1. CASE Reader /\ UNCHANGED wvars
  BY <1>1, ReaderQueues DEF Queue!Next
<1>2. CASE (Begin \/ Sending \/ StartAlarm \/ WriteFails) /\ UNCHANGED vars
  BY <1>2, WriterQueues DEF Queue!Next
<1>3. CASE (\E n \in 1 .. Len(out) : Write(n)) \/ UNCHANGED cvars
  <2>1. sent' = sent /\ got' = got /\ state' = state
    BY <1>3 DEF Write, cvars, vars, wvars
  <2> QED
    BY <2>1 DEF Queue!vars, Closed, Seen
<1> QED
  BY <1>1, <1>2, <1>3 DEF CNext

\* The packet layer is a queue of packets: what one side sends the other gets
\* whole, in order and once, until one side closes.
THEOREM ImplementsQueueCorrect ==
  ASSUME Framed PROVE Spec => ImplementsQueue
<1>1. CInit => Queue!Init
  BY InitQueue
<1>2. CInv /\ SInv /\ [CNext]_cvars => [Queue!Next]_Queue!vars
  BY StepQueues
<1>3. Spec => []CInv
  BY Inductive
<1>4. Spec => []SInv
  BY StreamInductive
<1> QED
  BY <1>1, <1>2, <1>3, <1>4, PTL DEF Spec, ImplementsQueue, Queue!Spec
=============================================================================
