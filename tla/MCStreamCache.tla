--------------------------- MODULE MCStreamCache ---------------------------
(***************************************************************************)
(* Instances of StreamCache for TLC.                                        *)
(***************************************************************************)
EXTENDS StreamCacheInv

(* Every position of the medium; a few of them: the start, one inside a     *)
(* sector, the end; none.                                                   *)
AllTargets == 0 .. FileLen
FewTargets == {0, 3, FileLen}
EndTargets == {0, FileLen}
NoTargets  == {}
============================================================================
