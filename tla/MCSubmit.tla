------------------------------ MODULE MCSubmit ------------------------------
(* Small instances of Submit for TLC. *)
EXTENDS Submit

Ib(links) == [kind |-> "ib", links |-> links]
UserFence == [kind |-> "fence"]
Other     == [kind |-> "other"]

\* No chunks; no instruction buffer; one buffer with a user fence; two buffers, one
\* of them chained; a chain deeper than MaxIbChain = 2 allows.
AllStreams ==
  { <<>>,
    <<Other>>,
    <<UserFence, Ib(<<"dcb">>)>>,
    <<Ib(<<"empty", "dcb">>), Other, Ib(<<"dcb">>)>>,
    <<Ib(<<"dcb", "empty", "dcb", "dcb">>)>> }

PlainStreams == { <<UserFence, Ib(<<"dcb">>)>> }

============================================================================
