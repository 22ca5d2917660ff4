------------------------------ MODULE MCChain ------------------------------
(* Small memories for Chain. *)
EXTENDS Chain

Pkt(kind, arg) == [kind |-> kind, arg |-> arg]

SomePackets ==
  {Pkt("nop", 0), Pkt("filler", 0), Pkt("bad", 0)}
    \cup {Pkt("data", k) : k \in {0, 2}}
    \cup {Pkt("chain", b) : b \in 0 .. 2}

\* Up to two packets, then perhaps a header the end of the buffer cuts off.
CommandBuffers ==
  LET whole == UNION {[1 .. n -> SomePackets] : n \in 0 .. 2}
  IN  whole \cup {Append(s, Pkt("short", 2)) : s \in [1 .. 1 -> SomePackets]}

\* Two command buffers, the first of which is the one submitted.
TwoBuffers == {<<a, b>> : a \in CommandBuffers, b \in CommandBuffers}

============================================================================
