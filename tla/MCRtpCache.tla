---------------------------- MODULE MCRtpCache -----------------------------
(***************************************************************************)
(* Instances of RtpCache for TLC.                                           *)
(***************************************************************************)
EXTENDS RtpCacheInv

(* The sender numbers from a, and as if it had started from b after the     *)
(* packets before j.                                                        *)
Numbering(a, j, b) == [p \in Packets |-> ((IF p < j THEN a ELSE b) + p) % SeqRange]

Straight == Numbering(0, 0, 0)

(* Straight, wrapping after the third packet, and with a jump ahead by more *)
(* than the ring and back by more than three times the ring.                *)
AllNumberings ==
  {Straight, Numbering(SeqRange - 3, MaxSent, 0), Numbering(0, 4, 20), Numbering(40, 4, 0)}

OnlyStraight == {Straight}
=============================================================================
