------------------------------ MODULE NetRead ------------------------------
(***************************************************************************)
(* The reading half of the packet layer (net_serv.cc): do_command's call   *)
(* of myNetRead, my_real_read and netRealloc, over a stream of bytes that  *)
(* arrives in pieces.  A frame is a header (three bytes of length, one     *)
(* packet number) and a body; a packet is a run of frames of the largest   *)
(* length and one shorter frame.  The peer may send anything.              *)
(*                                                                         *)
(* A byte has Base values, 256 in the code; arithmetic and control flow do *)
(* not depend on the value.  Compression is never switched on.             *)
(***************************************************************************)
EXTENDS Integers, Sequences

CONSTANTS Base,               \* the number of values of a byte
          NET_BUFFER_LENGTH,  \* the first size of the buffer
          IO_SIZE,            \* the buffer grows in blocks of this size
          MaxSizes            \* possible values of max_packet_size

ASSUME ReadAssumption == /\ Base \in Nat /\ Base > 1
                         /\ NET_BUFFER_LENGTH \in Nat \ {0}
                         /\ IO_SIZE \in Nat /\ IO_SIZE > 0
                         /\ MaxSizes \subseteq Nat

NET_HEADER_SIZE   == 4
COMP_HEADER_SIZE  == 3
MAX_PACKET_LENGTH == Base * Base * Base - 1

Byte == 0 .. Base - 1

\* int3store, and the packet number as an uchar.
Header(len, nr) == << len % Base, (len \div Base) % Base,
                      (len \div (Base * Base)) % Base, nr % Base >>

\* uint3korr
HeaderLength(h) == h[1] + Base * h[2] + Base * Base * h[3]

\* netRealloc's (length + IO_SIZE - 1) & ~(IO_SIZE - 1).
RoundUp(length) == LET n == length + IO_SIZE - 1 IN n - (n % IO_SIZE)

VARIABLES
  wire,             \* the bytes sent by the peer and not read yet
  buff,             \* the bytes of net->buff up to pos
  alloc,            \* the number of bytes net->buff points to
  max_packet, max_packet_size,
  where_b,          \* where the frame being read starts in the buffer
  remain,           \* how many bytes the header or body still lacks
  pkt_nr,
  state,            \* where the connection thread is, or why it closes
  got               \* the packets handed to dispatch_command

vars == <<wire, buff, alloc, max_packet, max_packet_size, where_b, remain,
          pkt_nr, state, got>>

Reading == {"header", "body"}
\* net->error is 2 when lost, 1 when large or nomem, and 0 when out of order.
Closed  == {"order", "large", "nomem", "lost"}

TypeOK == /\ wire \in Seq(Byte) /\ buff \in Seq(Byte)
          /\ alloc \in Nat /\ max_packet \in Nat /\ max_packet_size \in Nat
          /\ where_b \in Nat /\ remain \in Nat /\ pkt_nr \in Nat
          /\ state \in {"command", "packet"} \cup Reading \cup Closed
          /\ got \in Seq(Seq(Byte))

\* netInit
Init == /\ wire = <<>> /\ buff = <<>> /\ got = <<>>
        /\ max_packet = NET_BUFFER_LENGTH
        /\ max_packet_size \in MaxSizes
        /\ alloc = max_packet + NET_HEADER_SIZE + COMP_HEADER_SIZE
        /\ where_b = 0 /\ remain = 0 /\ pkt_nr = 0
        /\ state = "command"

-----------------------------------------------------------------------------
(* Faulty variants of the definitions below: no specification uses them.   *)

\* netRealloc recording the new size without allocating it.
GrowOnPaper(length) == max_packet' = RoundUp(length) /\ UNCHANGED alloc

\* netRealloc testing the frame's length alone against max_packet_size.
MayGrowFrame(len) == len < max_packet_size

\* my_real_read counting the header as part of the packet.
NecessaryWithHeader(len) == len + where_b + NET_HEADER_SIZE

\* do_command without the reset of the packet number.
NewCommandKeepsNumber ==
  /\ state = "command"
  /\ buff' = <<>> /\ remain' = NET_HEADER_SIZE
  /\ state' = "header"
  /\ UNCHANGED <<wire, alloc, max_packet, max_packet_size, where_b, pkt_nr, got>>

-----------------------------------------------------------------------------
\* do_command, up to its call of myNetRead.
NewCommand == /\ state = "command"
              /\ pkt_nr' = 0
              /\ buff' = <<>> /\ remain' = NET_HEADER_SIZE
              /\ state' = "header"
              /\ UNCHANGED <<wire, alloc, max_packet, max_packet_size, where_b, got>>

\* vioRead returns some of the bytes asked for.
Read(n) == /\ state \in Reading
           /\ n \in 1 .. remain /\ n <= Len(wire)
           /\ buff' = buff \o SubSeq(wire, 1, n)
           /\ wire' = SubSeq(wire, n + 1, Len(wire))
           /\ remain' = remain - n
           /\ UNCHANGED <<alloc, max_packet, max_packet_size, where_b, pkt_nr, state, got>>

Close(why) == /\ state' = why
              /\ where_b' = 0
              /\ UNCHANGED <<wire, buff, alloc, max_packet, max_packet_size, remain, got>>

\* vioRead fails, times out or finds the connection closed.
ReadFails == /\ state \in Reading /\ remain > 0
             /\ Close("lost")
             /\ UNCHANGED pkt_nr

\* A whole header has been read.
AtHeader == state = "header" /\ remain = 0
Found    == SubSeq(buff, where_b + 1, where_b + NET_HEADER_SIZE)

OutOfOrder == /\ AtHeader
              /\ Found[4] # pkt_nr % Base
              /\ Close("order")
              /\ UNCHANGED pkt_nr

InSequence == /\ AtHeader
              /\ Found[4] = pkt_nr % Base
              /\ pkt_nr' = pkt_nr + 1

\* The end of a packet that is a multiple of the largest frame, or empty.
EmptyFrame == /\ InSequence
              /\ HeaderLength(Found) = 0
              /\ buff' = SubSeq(buff, 1, where_b)
              /\ state' = "packet"
              /\ UNCHANGED <<wire, alloc, max_packet, max_packet_size, where_b, remain, got>>

\* helping: the size the buffer has to have.
Necessary(len) == len + where_b

\* netRealloc: the limit, then the new buffer.
MayGrow(len) == Necessary(len) < max_packet_size

Grow(length) == /\ max_packet' = RoundUp(length)
                /\ alloc' = RoundUp(length) + NET_HEADER_SIZE + COMP_HEADER_SIZE + 1

BeginBody == /\ InSequence
             /\ LET len == HeaderLength(Found)
                IN /\ len > 0
                   /\ \/ /\ Necessary(len) < max_packet
                         /\ UNCHANGED <<alloc, max_packet>>
                      \/ /\ Necessary(len) >= max_packet
                         /\ MayGrow(len)
                         /\ Grow(Necessary(len))
                   /\ remain' = len
             /\ buff' = SubSeq(buff, 1, where_b)
             /\ state' = "body"
             /\ UNCHANGED <<wire, max_packet_size, where_b, got>>

TooLarge == /\ InSequence
            /\ HeaderLength(Found) > 0
            /\ Necessary(HeaderLength(Found)) >= max_packet
            /\ ~MayGrow(HeaderLength(Found))
            /\ Close("large")

NoMemory == /\ InSequence
            /\ HeaderLength(Found) > 0
            /\ Necessary(HeaderLength(Found)) >= max_packet
            /\ MayGrow(HeaderLength(Found))
            /\ Close("nomem")

\* A whole body has been read.
AtBody == state = "body" /\ remain = 0

NextFrame == /\ AtBody
             /\ Len(buff) - where_b = MAX_PACKET_LENGTH
             /\ where_b' = Len(buff)
             /\ remain' = NET_HEADER_SIZE
             /\ state' = "header"
             /\ UNCHANGED <<wire, buff, alloc, max_packet, max_packet_size, pkt_nr, got>>

LastFrame == /\ AtBody
             /\ Len(buff) - where_b # MAX_PACKET_LENGTH
             /\ state' = "packet"
             /\ UNCHANGED <<wire, buff, alloc, max_packet, max_packet_size, where_b,
                            remain, pkt_nr, got>>

\* do_command hands an empty packet on as a CCOM_SLEEP.
CCOM_SLEEP == 0
Seen(packet) == IF packet = <<>> THEN <<CCOM_SLEEP>> ELSE packet

\* myNetRead terminates the packet with a NUL, do_command dispatches it.
Deliver == /\ state = "packet"
           /\ got' = Append(got, Seen(buff))
           /\ where_b' = 0
           /\ state' = "command"
           /\ UNCHANGED <<wire, buff, alloc, max_packet, max_packet_size, remain, pkt_nr>>

Progress == \/ NewCommand \/ (\E n \in 1 .. Len(wire) : Read(n))
            \/ OutOfOrder \/ EmptyFrame \/ BeginBody \/ TooLarge
            \/ NextFrame \/ LastFrame \/ Deliver

Reader == Progress \/ ReadFails \/ NoMemory

\* The peer sends whatever it likes.
Peer == /\ \E s \in Seq(Byte) : wire' = wire \o s
        /\ UNCHANGED <<buff, alloc, max_packet, max_packet_size, where_b, remain,
                       pkt_nr, state, got>>

ReaderSpec == Init /\ [][Reader \/ Peer]_vars

-----------------------------------------------------------------------------
\* No byte is stored past the end of the buffer: neither the bytes asked of
\* vioRead nor the NUL after a packet (net_serv.cc:558, 661), whatever length
\* the peer announces (net_serv.cc:598-610).
BufferBound == /\ Len(buff) + remain <= alloc
               /\ state = "packet" => Len(buff) < alloc

\* What one connection can make the server allocate, and the packets it can make
\* it accept, are bounded by the limit (net_serv.cc:133) up to one block.
MemoryBound == /\ max_packet # NET_BUFFER_LENGTH => max_packet < max_packet_size + IO_SIZE
               /\ \A i \in 1 .. Len(got) : Len(got[i]) <= max_packet
=============================================================================
