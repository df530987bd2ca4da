---------------------------- MODULE PacketQueue ----------------------------
(***************************************************************************)
(* What the packet layer promises to those above it: the packets one side  *)
(* sends are handed over on the other side whole, in order and once, up to *)
(* the point where the connection is closed.                               *)
(***************************************************************************)
EXTENDS Naturals, Sequences

CONSTANT Packet

VARIABLES sent, got, open

vars == <<sent, got, open>>

Init == sent = <<>> /\ got = <<>> /\ open = TRUE

Send == \E p \in Packet : sent' = Append(sent, p) /\ UNCHANGED <<got, open>>

Deliver == /\ open
           /\ Len(got) < Len(sent)
           /\ got' = Append(got, sent[Len(got) + 1])
           /\ UNCHANGED <<sent, open>>

Break == open /\ open' = FALSE /\ UNCHANGED <<sent, got>>

Next == Send \/ Deliver \/ Break

Spec == Init /\ [][Next]_vars
=============================================================================
