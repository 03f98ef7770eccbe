----------------------------- MODULE MCUdpSync ------------------------------
(***************************************************************************)
(* UdpSync for TLC; all its constants are numbers, given in udp_sync.cfg.   *)
(***************************************************************************)
EXTENDS UdpSync
=============================================================================
