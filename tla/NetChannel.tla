----------------------------- MODULE NetChannel -----------------------------
(***************************************************************************)
(* A client and the server's reader on one connection.  The client writes  *)
(* with the writing half of the packet layer: netClear, then               *)
(* netWriteCommand, or myNetWrite and netFlush, which cut a packet into    *)
(* frames, gather them in a buffer (net_write_buff) and send it piece by   *)
(* piece (netRealWrite); or it builds its frames by hand, as ClientTest    *)
(* does.  It does not wait for replies.                                    *)
(***************************************************************************)
EXTENDS NetRead

CONSTANTS Packets,   \* what the client sends
          MaxSends,  \* how many packets it sends
          Writers,   \* the functions it sends them with
          Stray      \* how many bytes StartAlarm sends after its packet

ASSUME ChannelAssumption == /\ Packets \subseteq Seq(Byte) /\ MaxSends \in Nat /\ Stray \in Nat
                            /\ Writers \subseteq {"netWriteCommand", "myNetWrite", "StartAlarm"}

VARIABLES
  sent,    \* the packets the client began to send
  rest,    \* the bytes of the packet that no frame holds yet
  head,    \* the command and header still to go before them
  nr,      \* the client's pkt_nr
  pieces,  \* what net_write_buff is still to be called with
  wbuf,    \* the client's buffer up to write_pos
  out,     \* what netRealWrite has still to send
  writer   \* where the client is

wvars == <<sent, rest, head, nr, pieces, wbuf, out, writer>>

\* netWriteCommand sends the command and its header (head_len bytes) apart
\* from the packet; head is their number, or 0 where there is no command.
WTypeOK == /\ TypeOK
           /\ sent \in Seq(Seq(Byte)) /\ rest \in Seq(Byte) /\ head \in Nat /\ nr \in Nat
           /\ pieces \in Seq(Seq(Byte)) /\ wbuf \in Seq(Byte) /\ out \in Seq(Byte)
           /\ writer \in {"idle", "frame", "flush", "failed"}

WInit == /\ sent = <<>> /\ rest = <<>> /\ head = 0 /\ nr = 0
         /\ pieces = <<>> /\ wbuf = <<>> /\ out = <<>> /\ writer = "idle"

-----------------------------------------------------------------------------
Least(m, n) == IF m < n THEN m ELSE n

Drop(s, n) == SubSeq(s, n + 1, Len(s))

\* netClear, and the call of a writing function.
Begin == /\ writer = "idle" /\ out = <<>> /\ Len(sent) < MaxSends
         /\ \E p \in Packets : sent' = Append(sent, p) /\ rest' = p
         /\ \/ /\ "netWriteCommand" \in Writers
               /\ \E n \in {1, 2} : n <= Len(rest') /\ head' = n
            \/ "myNetWrite" \in Writers /\ head' = 0
         /\ nr' = 0 /\ wbuf' = <<>>
         /\ writer' = "frame"
         /\ UNCHANGED <<pieces, out>>

(* Faulty variants of Frame.                                               *)

\* netWriteCommand announcing the packet without its command and header.
FrameWithoutCommand ==
  /\ writer = "frame" /\ pieces = <<>> /\ out = <<>>
  /\ LET n == Least(Len(rest), MAX_PACKET_LENGTH)
     IN /\ pieces' = << Header(n - head, nr), SubSeq(rest, 1, n) >>
        /\ rest' = Drop(rest, n)
        /\ writer' = IF n < MAX_PACKET_LENGTH THEN "flush" ELSE "frame"
  /\ nr' = nr + 1
  /\ head' = 0
  /\ UNCHANGED <<sent, wbuf, out>>

\* myNetWrite looping while len > MAX_PACKET_LENGTH.
FrameWithoutLast ==
  /\ writer = "frame" /\ pieces = <<>> /\ out = <<>>
  /\ LET n == Least(Len(rest), MAX_PACKET_LENGTH)
     IN /\ pieces' = << Header(n, nr), SubSeq(rest, 1, n) >>
        /\ rest' = Drop(rest, n)
        /\ writer' = IF Len(rest) <= MAX_PACKET_LENGTH THEN "flush" ELSE "frame"
  /\ nr' = nr + 1
  /\ head' = 0
  /\ UNCHANGED <<sent, wbuf, out>>

\* One round of the loop of netWriteCommand or myNetWrite, or what follows it.
Frame == /\ writer = "frame" /\ pieces = <<>> /\ out = <<>>
         /\ LET n == Least(Len(rest), MAX_PACKET_LENGTH)
                h == Header(n, nr)
            IN /\ pieces' = IF head = 0
                            THEN << h, SubSeq(rest, 1, n) >>
                            ELSE << h \o SubSeq(rest, 1, 1), SubSeq(rest, 2, head),
                                    SubSeq(rest, head + 1, n) >>
               /\ rest' = Drop(rest, n)
               /\ writer' = IF n < MAX_PACKET_LENGTH THEN "flush" ELSE "frame"
         /\ nr' = nr + 1
         /\ head' = 0
         /\ UNCHANGED <<sent, wbuf, out>>

\* net_write_buff(net, piece)
AtPiece == pieces # <<>> /\ out = <<>> /\ writer # "failed"
Left    == NET_BUFFER_LENGTH - Len(wbuf)

Buffer == /\ AtPiece
          /\ Len(Head(pieces)) <= Left
          /\ wbuf' = wbuf \o Head(pieces)
          /\ pieces' = Tail(pieces)
          /\ UNCHANGED <<sent, rest, head, nr, out, writer>>

FillAndSend == /\ AtPiece
               /\ Len(Head(pieces)) > Left /\ wbuf # <<>>
               /\ out' = wbuf \o SubSeq(Head(pieces), 1, Left)
               /\ pieces' = << Drop(Head(pieces), Left) >> \o Tail(pieces)
               /\ wbuf' = <<>>
               /\ UNCHANGED <<sent, rest, head, nr, writer>>

SendDirect == /\ AtPiece
              /\ Len(Head(pieces)) > Left /\ wbuf = <<>>
              /\ out' = Head(pieces)
              /\ pieces' = Tail(pieces)
              /\ UNCHANGED <<sent, rest, head, nr, wbuf, writer>>

\* netFlush; then the client may send its next packet.
Flush == /\ writer = "flush" /\ pieces = <<>> /\ out = <<>>
         /\ out' = wbuf /\ wbuf' = <<>>
         /\ writer' = "idle"
         /\ UNCHANGED <<sent, rest, head, nr, pieces>>

\* ClientTest's StartAlarm puts length, number and command before the text
\* itself.  Built with encryption it sends just that; built without, it also
\* sends the NUL after the text, which the length does not count.
StartAlarm == /\ "StartAlarm" \in Writers
              /\ writer = "idle" /\ out = <<>> /\ Len(sent) < MaxSends
              /\ \E p \in Packets :
                   /\ Len(p) \in 1 .. MAX_PACKET_LENGTH - 1  \* 1024 characters at most
                   /\ sent' = Append(sent, p)
                   /\ out' = Header(Len(p), 0) \o p \o [i \in 1 .. Stray |-> 0]
              /\ UNCHANGED <<rest, head, nr, pieces, wbuf, writer>>

Sending == Frame \/ Buffer \/ FillAndSend \/ SendDirect \/ Flush

\* netRealWrite: vioWrite takes some of the bytes, or fails.
Write(n) == /\ n \in 1 .. Len(out)
            /\ wire' = wire \o SubSeq(out, 1, n)
            /\ out' = Drop(out, n)
            /\ UNCHANGED <<sent, rest, head, nr, pieces, wbuf, writer>>
            /\ UNCHANGED <<buff, alloc, max_packet, max_packet_size, where_b, remain,
                           pkt_nr, state, got>>

WriteFails == /\ out # <<>>
              /\ out' = <<>> /\ pieces' = <<>> /\ writer' = "failed"
              /\ UNCHANGED <<sent, rest, head, nr, wbuf>>

CInit == Init /\ WInit

CNext == \/ Reader /\ UNCHANGED wvars
         \/ (Begin \/ Sending \/ StartAlarm \/ WriteFails) /\ UNCHANGED vars
         \/ \E n \in 1 .. Len(out) : Write(n)

cvars == <<vars, wvars>>

Spec == CInit /\ [][CNext]_cvars

\* The server's thread and a client that has begun to write go on; the network
\* takes what is written.  Nothing is assumed of Begin, ReadFails and NoMemory.
FairSpec == /\ Spec
            /\ WF_cvars(Progress /\ UNCHANGED wvars)
            /\ WF_cvars(Sending /\ UNCHANGED vars)
            /\ WF_cvars(\E n \in 1 .. Len(out) : Write(n))

-----------------------------------------------------------------------------
\* Both sides restart the packet number with each packet and count frames alike:
\* whatever is cut, gathered or read in pieces, the server never finds a frame
\* out of order (net_serv.cc:577) in what the library wrote.
InOrder == state # "order"

\* The size a connection is closed for (net_serv.cc:133) is that of the packet the
\* client wrote: no length is misread, added up twice or carried over from an
\* earlier packet.
RefusesOnlyLarge ==
  state = "large" => Len(sent[Len(got) + 1]) >= max_packet_size

\* The server dispatches the packets the client wrote, whole, in order and once,
\* until one side closes.
Queue == INSTANCE PacketQueue WITH
           Packet <- {Seen(p) : p \in Packets},
           sent   <- [i \in 1 .. Len(sent) |-> Seen(sent[i])],
           open   <- state \notin Closed

ImplementsQueue == Queue!Spec

\* A packet the client began to write is dispatched or refused, unless a read, a
\* write or an allocation fails: no frame is left in the client's buffer and the
\* reader never waits for bytes that were not announced.
Delivered ==
  []~(state \in {"lost", "nomem"} \/ writer = "failed") =>
     \A i \in 1 .. MaxSends :
        (Len(sent) >= i) ~> (Len(got) >= i \/ state = "large")
=============================================================================
