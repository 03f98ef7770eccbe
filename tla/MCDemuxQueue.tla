--------------------------- MODULE MCDemuxQueue ----------------------------
(***************************************************************************)
(* Instances of DemuxQueue for TLC.                                         *)
(***************************************************************************)
EXTENDS DemuxQueue

P(s, n, t) == [ds |-> s, len |-> n, stamped |-> t]
A  == P("audio", 1, TRUE)
AU == P("audio", 2, FALSE)
V  == P("video", 2, TRUE)
VU == P("video", 1, FALSE)
V0 == P("video", 0, TRUE)
S  == P("sub", 1, TRUE)
O  == P("other", 1, TRUE)

(* Well interleaved; all video first; all audio first; in blocks,            *)
(* with an empty packet, as for a skipped frame of an AVI file.             *)
SomeFiles ==
  { <<A, V, S, AU, VU>>,
    <<V, VU, V, V, A>>,
    <<A, AU, O, A, V>>,
    <<V, V0, A, AU, V>> }
=============================================================================
