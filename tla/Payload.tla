------------------------------ MODULE Payload -------------------------------
(***************************************************************************)
(* The padding of encrypted texts (aes.c, the same file in server and      *)
(* client) and what the server makes of it (DecryptData).  A text is a     *)
(* sequence of bytes; PadByte[i] is the byte i.  The ciphers are           *)
(* bijections on texts of whole blocks, and are left out.                  *)
(***************************************************************************)
EXTENDS Naturals, Sequences

CONSTANTS BLOCK,    \* AES_KEYLEN
          PadByte   \* the bytes 1 .. BLOCK

ASSUME PayloadAssumption ==
  /\ BLOCK \in Nat \ {0}
  /\ DOMAIN PadByte = 1 .. BLOCK
  /\ \A i, j \in 1 .. BLOCK : PadByte[i] = PadByte[j] => i = j

Remain(length) == BLOCK - (length % BLOCK)

PaddingDataPKCS7(text) ==
  [k \in 1 .. Len(text) + Remain(Len(text)) |->
     IF k <= Len(text) THEN text[k] ELSE PadByte[Remain(Len(text))]]

(* Faulty variants of the definitions below: no specification uses them.   *)

\* The last byte alone.
EndsInLast(buf, i) == buf[Len(buf)] = PadByte[i]

\* The inner loop of UnPaddingDataPKCS7: the last i bytes are i.
EndsIn(buf, i) == \A j \in 0 .. i - 1 : buf[Len(buf) - j] = PadByte[i]

\* The length without padding, or the length if there is none.  buf has a block.
UnPaddingDataPKCS7(buf) ==
  IF \E i \in 1 .. BLOCK : EndsIn(buf, i)
  THEN Len(buf) - (CHOOSE i \in 1 .. BLOCK : EndsIn(buf, i) /\ \A j \in 1 .. i - 1 : ~EndsIn(buf, j))
  ELSE Len(buf)

\* The length DecryptData returns.
DecryptData(packet) ==
  IF Len(packet) % BLOCK # 0 \/ packet = <<>> THEN 0 ELSE UnPaddingDataPKCS7(packet)
=============================================================================
